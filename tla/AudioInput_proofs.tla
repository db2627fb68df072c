------------------------- MODULE AudioInput_proofs --------------------------
(***************************************************************************)
(* Proofs about the recording of AudioInput, with either device, for any   *)
(* size of a packet and any number of openings, reads and messages.        *)
(***************************************************************************)
EXTENDS AudioInput, TLAPS

(* What is left of the steps of a message, and its first step.             *)
Agenda ==
    {<<>>, <<"open", "change", "reply">>, <<"change", "reply">>, <<"reply">>,
     <<"close", "open", "change">>, <<"wait", "open", "change">>, <<"open", "change">>,
     <<"change">>, <<"buffer", "change", "reply">>, <<"buffer", "change">>,
     <<"close", "free">>, <<"wait", "free">>, <<"free">>}
Closing == {<<>>, <<"close", "free">>, <<"wait", "free">>, <<"free">>}
First(d) == IF d = <<>> THEN "idle" ELSE Head(d)
At == First(aiDo)

ByItself == {"error", "short", "failed"}

AiTypes ==
    /\ aiKind \in {"alsa", "pulse"} /\ aiDo \in Agenda /\ aiOpened \in Nat
    /\ aiStatus \in {-1, 0, 1} /\ aiStop \in BOOLEAN /\ aiPc \in {"off", "loop", "take", "data"}
    /\ aiQuits \in Nat /\ aiHand \in 0 .. Packet /\ aiBuffer \in 0 .. Packet
    /\ aiFilled \in BOOLEAN /\ aiStream \in BOOLEAN /\ aiAlloc \in BOOLEAN
    /\ aiFreed \in BOOLEAN /\ aiReads \in Nat /\ aiWire \in Seq(Nat)
    /\ aiRead \in Nat /\ aiDropped \in Nat /\ aiStart \in BOOLEAN

(* Only one device works, and its thread runs while the status is 1.       *)
OneDevice ==
    /\ (aiPc = "off") = (aiStatus # 1)
    /\ aiKind = "alsa" => ~aiStream
    /\ aiKind = "pulse" => aiPc = "off" /\ ~aiStop

(* A packet is full just when it is about to be sent, and frames are in    *)
(* hand only while they are gathered.                                      *)
Gathering ==
    /\ (aiPc = "data") = (aiBuffer = Packet)
    /\ aiPc \in {"off", "loop"} => aiHand = 0

(* The channel's thread opens a device, and frees the callback, only when  *)
(* nobody records; it does neither before the first open.                  *)
Phases ==
    /\ At \in {"open", "free"} => aiPc = "off"
    /\ At = "free" => ~aiStream
    /\ At = "buffer" => aiKind = "pulse"
    /\ aiFreed => At = "idle" /\ aiPc = "off" /\ ~aiStream
    /\ aiOpened = 0 => aiDo \in Closing /\ aiPc = "off"

(* The stop signal is seen by a running thread while Close waits for it,   *)
(* or because it was set at the start; a thread that ended was told so, or *)
(* ended by itself; and the signal is still set only if the thread has yet *)
(* to clear it or was not there to be told.                                *)
Signals ==
    /\ aiPc # "off" /\ aiStop => aiStart \/ At = "wait"
    /\ (aiPc = "off" /\ aiKind = "alsa" /\ aiOpened > 0 /\ ~aiFreed
          /\ At \notin {"wait", "open", "free"}) => aiWhy \in ByItself \/ aiStart
    /\ aiPc = "off" /\ aiStop => aiQuits > 0 \/ aiWhy \in ByItself \/ aiStart \/ aiOpened = 0
    /\ aiOpened = 0 /\ aiStop => At \in {"wait", "free"} \/ aiFreed

AiIInv ==
    /\ AiTypes /\ OneDevice /\ Gathering /\ Phases /\ Signals
    /\ FramesAccounted /\ BufferThere

(* Sequences with the same items are the same.                             *)
LEMMA ItemByItem ==
    ASSUME NEW V, NEW s \in Seq(V), NEW t \in Seq(V),
           Len(s) = Len(t), \A i \in 1 .. Len(s) : s[i] = t[i]
    PROVE  s = t
    OBVIOUS

(* Putting a step in front of one or two others.                           *)
LEMMA InFront ==
    ASSUME NEW a, NEW b, NEW c
    PROVE  <<a>> \o <<b>> = <<a, b>> /\ <<a>> \o <<b, c>> = <<a, b, c>>
<1> DEFINE S == {a, b, c}
<1>1. /\ <<a>> \in Seq(S) /\ <<b>> \in Seq(S) /\ <<b, c>> \in Seq(S)
      /\ <<a, b>> \in Seq(S) /\ <<a, b, c>> \in Seq(S)
    OBVIOUS
<1>2. Len(<<a>>) = 1 /\ Len(<<b>>) = 1 /\ Len(<<b, c>>) = 2 /\ Len(<<a, b>>) = 2 /\ Len(<<a, b, c>>) = 3
    OBVIOUS
<1>3. <<a>> \o <<b>> \in Seq(S) /\ Len(<<a>> \o <<b>>) = 2
      /\ \A i \in 1 .. 2 : (<<a>> \o <<b>>)[i] = <<a, b>>[i]
    BY <1>1, <1>2
<1>4. <<a>> \o <<b, c>> \in Seq(S) /\ Len(<<a>> \o <<b, c>>) = 3
      /\ \A i \in 1 .. 3 : (<<a>> \o <<b, c>>)[i] = <<a, b, c>>[i]
    BY <1>1, <1>2
<1> HIDE DEF S
<1>5. <<a>> \o <<b>> = <<a, b>>
    BY <1>1, <1>2, <1>3, ItemByItem
<1>6. <<a>> \o <<b, c>> = <<a, b, c>>
    BY <1>1, <1>2, <1>4, ItemByItem
<1>. QED BY <1>5, <1>6

(* The first of one, two or three steps.                                   *)
LEMMA FirstOf ==
    ASSUME NEW a, NEW b, NEW c
    PROVE  First(<<a>>) = a /\ First(<<a, b>>) = a /\ First(<<a, b, c>>) = a
<1>1. First(<<a>>) = a
    BY DEF First
<1>2. First(<<a, b>>) = a
    BY DEF First
<1>3. First(<<a, b, c>>) = a
    <2>1. <<a, b, c>> # <<>> /\ Head(<<a, b, c>>) = a
        OBVIOUS
    <2>. QED BY <2>1 DEF First
<1>. QED BY <1>1, <1>2, <1>3

(* What follows a step on an agenda.                                       *)
LEMMA AgendaSteps ==
    ASSUME NEW d \in Agenda, d # <<>>
    PROVE  /\ Tail(d) \in Agenda /\ First(d) = Head(d) /\ First(d) # "idle"
           /\ Head(d) \in {"close", "wait"} => First(Tail(d)) \in {"open", "free"}
           /\ Head(d) \notin {"close", "wait"} => First(Tail(d)) \in {"change", "reply", "idle"}
           /\ Head(d) = "free" => First(Tail(d)) = "idle"
           /\ Head(d) = "close" => /\ <<"wait">> \o Tail(d) \in Agenda
                                  /\ First(<<"wait">> \o Tail(d)) = "wait"
           /\ Head(d) = "open" => /\ <<"buffer">> \o Tail(d) \in Agenda
                                 /\ First(<<"buffer">> \o Tail(d)) = "buffer"
<1>1. CASE d = <<"open", "change", "reply">>
    <2>1. Head(d) = "open" /\ Tail(d) = <<"change", "reply">> /\ d # <<>>
        BY <1>1
    <2>2. <<"buffer">> \o <<"change", "reply">> = <<"buffer", "change", "reply">>
        BY InFront
    <2>3. First(<<"buffer", "change", "reply">>) = "buffer" /\ First(Tail(d)) = "change"
        BY <2>1, FirstOf
    <2>. QED BY <2>1, <2>2, <2>3 DEF Agenda, First
<1>2. CASE d = <<"change", "reply">>
    BY <1>2 DEF Agenda, First
<1>3. CASE d = <<"reply">> \/ d = <<"change">> \/ d = <<"free">>
    <2>1. Tail(d) = <<>>
        <3>1. \A x : Tail(<<x>>) = <<>>
            OBVIOUS
        <3>. QED BY <1>3, <3>1
    <2>2. Head(d) \in {"reply", "change", "free"}
        BY <1>3
    <2>. QED BY <2>1, <2>2 DEF Agenda, First
<1>4. CASE d = <<"close", "open", "change">>
    <2>1. Head(d) = "close" /\ Tail(d) = <<"open", "change">> /\ d # <<>>
        BY <1>4
    <2>2. <<"wait">> \o <<"open", "change">> = <<"wait", "open", "change">>
        BY InFront
    <2>3. First(<<"wait", "open", "change">>) = "wait" /\ First(Tail(d)) = "open"
        BY <2>1, FirstOf
    <2>. QED BY <2>1, <2>2, <2>3 DEF Agenda, First
<1>5. CASE d = <<"wait", "open", "change">>
    BY <1>5 DEF Agenda, First
<1>6. CASE d = <<"open", "change">>
    <2>1. Head(d) = "open" /\ Tail(d) = <<"change">> /\ d # <<>>
        BY <1>6
    <2>2. <<"buffer">> \o <<"change">> = <<"buffer", "change">>
        BY InFront
    <2>3. First(<<"buffer", "change">>) = "buffer" /\ First(Tail(d)) = "change"
        BY <2>1, FirstOf
    <2>. QED BY <2>1, <2>2, <2>3 DEF Agenda, First
<1>7. CASE d = <<"buffer", "change", "reply">>
    BY <1>7 DEF Agenda, First
<1>8. CASE d = <<"buffer", "change">>
    BY <1>8 DEF Agenda, First
<1>9. CASE d = <<"close", "free">>
    <2>1. Head(d) = "close" /\ Tail(d) = <<"free">> /\ d # <<>>
        BY <1>9
    <2>2. <<"wait">> \o <<"free">> = <<"wait", "free">>
        BY InFront
    <2>3. First(<<"wait", "free">>) = "wait" /\ First(Tail(d)) = "free"
        BY <2>1, FirstOf
    <2>. QED BY <2>1, <2>2, <2>3 DEF Agenda, First
<1>10. CASE d = <<"wait", "free">>
    BY <1>10 DEF Agenda, First
<1>. QED BY <1>1, <1>2, <1>3, <1>4, <1>5, <1>6, <1>7, <1>8, <1>9, <1>10 DEF Agenda

(* What follows a step of the end of the channel.                          *)
LEMMA ClosingSteps ==
    ASSUME NEW d \in Closing, d # <<>>
    PROVE  /\ Tail(d) \in Closing /\ Head(d) \in {"close", "wait", "free"}
           /\ First(Tail(d)) \in {"free", "idle"}
           /\ Head(d) = "close" => <<"wait">> \o Tail(d) \in Closing
<1>1. CASE d = <<"close", "free">>
    <2>1. Head(d) = "close" /\ Tail(d) = <<"free">>
        BY <1>1
    <2>2. <<"wait">> \o <<"free">> = <<"wait", "free">>
        BY InFront
    <2>3. First(Tail(d)) = "free"
        BY <2>1, FirstOf
    <2>. QED BY <2>1, <2>2, <2>3 DEF Closing
<1>2. CASE d = <<"wait", "free">>
    <2>1. Head(d) = "wait" /\ Tail(d) = <<"free">>
        BY <1>2
    <2>2. First(Tail(d)) = "free"
        BY <2>1, FirstOf
    <2>. QED BY <2>1, <2>2 DEF Closing
<1>3. CASE d = <<"free">>
    <2>1. Head(d) = "free" /\ Tail(d) = <<>>
        BY <1>3
    <2>. QED BY <2>1 DEF Closing, First
<1>. QED BY <1>1, <1>2, <1>3 DEF Closing

(* A step that is being done, in terms of At.                              *)
LEMMA DoingIs ==
    ASSUME AiTypes, NEW step, Doing(step)
    PROVE  /\ aiDo \in Agenda /\ aiDo # <<>> /\ At = step /\ Head(aiDo) = step
           /\ step # "idle"
BY AgendaSteps DEF AiTypes, Doing, At

USE AiAssumption

(* Nothing has been opened at the beginning.                               *)
LEMMA AiInitIInv == AiInit => AiIInv
<1> SUFFICES ASSUME AiInit PROVE AiIInv
    OBVIOUS
<1>1. At = "idle" /\ aiDo \in Agenda /\ aiDo \in Closing
    BY DEF AiInit, At, First, Agenda, Closing
<1>2. aiWire \in Seq(Nat) /\ Len(aiWire) = 0 /\ DOMAIN aiWire = {}
    BY DEF AiInit
<1>3. AiTypes
    <2>1. aiKind \in {"alsa", "pulse"}
        BY DEF AiInit
    <2>2. aiHand \in 0 .. Packet /\ aiBuffer \in 0 .. Packet
        BY DEF AiInit
    <2>. QED BY <1>1, <1>2, <2>1, <2>2 DEF AiInit, AiTypes
<1>4. OneDevice /\ Gathering /\ Phases /\ Signals
    BY <1>1 DEF AiInit, OneDevice, Gathering, Phases, Signals
<1>5. FramesAccounted
    BY <1>2 DEF AiInit, FramesAccounted
<1>6. BufferThere
    BY DEF AiInit, BufferThere
<1>. QED BY <1>3, <1>4, <1>5, <1>6 DEF AiIInv

(* A message is taken: its steps are put on the agenda.                    *)
LEMMA TakesIInv ==
    ASSUME AiIInv, audin_process_open \/ audin_process_format_change \/ audin_on_close
    PROVE  AiIInv'
<1> USE DEF audin_process_open, audin_process_format_change, audin_on_close, Takes, aiThread
<1>1. /\ aiDo = <<>> /\ At = "idle" /\ ~aiFreed
      /\ aiDo' \in Agenda /\ At' \in {"open", "close"}
      /\ aiOpened' = 0 => aiDo' \in Closing
      /\ At' = "open" => aiOpened = 0
      /\ At' = "close" /\ aiOpened = 0 => aiOpened' = 0
      /\ aiOpened = 0 \/ aiOpened' > 0
    <2>1. aiDo = <<>> /\ ~aiFreed /\ At = "idle"
        BY DEF At, First
    <2>2. CASE audin_process_open
        <3>1. First(<<"open", "change", "reply">>) = "open"
            BY FirstOf
        <3>. QED BY <2>1, <2>2, <3>1 DEF At, Agenda
    <2>3. CASE audin_process_format_change
        <3>1. First(<<"close", "open", "change">>) = "close"
            BY FirstOf
        <3>2. aiOpened' > 0
            BY <2>3 DEF AiIInv, AiTypes
        <3>. QED BY <2>1, <2>3, <3>1, <3>2 DEF At, Agenda
    <2>4. CASE audin_on_close
        <3>1. First(<<"close", "free">>) = "close"
            BY FirstOf
        <3>2. aiOpened = 0 \/ aiOpened' > 0
            BY <2>4 DEF AiIInv, AiTypes
        <3>. QED BY <2>1, <2>4, <3>1, <3>2 DEF At, Agenda, Closing
    <2>. QED BY <2>2, <2>3, <2>4
<1>2. aiOpened' \in Nat
    BY DEF AiIInv, AiTypes
<1>u. UNCHANGED <<aiKind, aiStatus, aiStop, aiPc, aiQuits, aiHand, aiFilled, aiBuffer, aiStream,
                  aiAlloc, aiFreed, aiReads, aiWire, aiRead, aiDropped, aiWhy, aiStart>>
    OBVIOUS
<1> HIDE DEF audin_process_open, audin_process_format_change, audin_on_close, Takes, aiThread
<1>3. aiOpened = 0 => aiPc = "off" /\ ~aiStop
    BY <1>1 DEF AiIInv, Signals, Phases
<1>4. AiTypes' /\ OneDevice' /\ Gathering'
    BY <1>1, <1>2, <1>u DEF AiIInv, AiTypes, OneDevice, Gathering
<1>5. Phases'
    BY <1>1, <1>2, <1>3, <1>u DEF AiIInv, Phases
<1>6. Signals'
    BY <1>1, <1>2, <1>3, <1>u DEF AiIInv, AiTypes, Signals
<1>7. FramesAccounted' /\ BufferThere'
    BY <1>1, <1>u DEF AiIInv, FramesAccounted, BufferThere, Doing
<1>. QED BY <1>4, <1>5, <1>6, <1>7 DEF AiIInv

(* ALSA's device is opened, its thread started: no thread was running.     *)
LEMMA AlsaOpenIInv == ASSUME AiIInv, audin_alsa_open PROVE AiIInv'
<1> USE DEF audin_alsa_open, Done
<1>1. /\ At = "open" /\ aiDo' \in Agenda /\ At' \in {"change", "reply", "idle"}
      /\ aiPc = "off" /\ ~aiFreed /\ aiOpened > 0
    <2>1. aiDo \in Agenda /\ aiDo # <<>> /\ At = "open" /\ Head(aiDo) = "open"
        BY DoingIs DEF AiIInv
    <2>2. aiDo' \in Agenda /\ At' \in {"change", "reply", "idle"}
        BY <2>1, AgendaSteps DEF At
    <2>3. aiDo \notin Closing
        BY <2>1, ClosingSteps
    <2>4. aiPc = "off" /\ ~aiFreed /\ aiOpened > 0
        BY <2>1, <2>3 DEF AiIInv, AiTypes, Phases
    <2>. QED BY <2>1, <2>2, <2>4
<1>u. /\ UNCHANGED <<aiKind, aiOpened, aiStop, aiQuits, aiHand, aiFilled, aiStream, aiFreed,
                     aiReads, aiWire, aiRead>>
      /\ aiKind = "alsa" /\ aiStatus' = 1 /\ aiPc' = "loop" /\ aiBuffer' = 0 /\ aiAlloc' = TRUE
      /\ aiStart' = aiStop /\ aiWhy' = "none" /\ aiDropped' = aiDropped + aiBuffer
    OBVIOUS
<1> HIDE DEF audin_alsa_open, Done
<1>2. AiTypes'
    BY <1>1, <1>u DEF AiIInv, AiTypes
<1>3. OneDevice' /\ Gathering' /\ Phases' /\ Signals'
    BY <1>1, <1>u DEF AiIInv, AiTypes, OneDevice, Gathering, Phases, Signals
<1>4. FramesAccounted'
    BY <1>1, <1>u DEF AiIInv, AiTypes, FramesAccounted
<1>5. BufferThere'
    BY <1>u DEF AiIInv, OneDevice, BufferThere
<1>. QED BY <1>2, <1>3, <1>4, <1>5 DEF AiIInv

(* PulseAudio's stream is connected, or not.                               *)
LEMMA PulseOpenIInv == ASSUME AiIInv, audin_pulse_open PROVE AiIInv'
<1> USE DEF audin_pulse_open, Done, aiThread
<1>1. aiDo \in Agenda /\ aiDo # <<>> /\ At = "open" /\ Head(aiDo) = "open"
    BY DoingIs DEF AiIInv
<1>2. /\ aiDo' \in Agenda /\ At' \in {"buffer", "change", "reply", "idle"}
      /\ At' = "buffer" \/ UNCHANGED aiStream
    BY <1>1, AgendaSteps DEF At
<1>3. At' = "buffer" => Doing("buffer")'
    BY DEF At, First, Doing
<1>4. aiDo \notin Closing
    BY <1>1, ClosingSteps
<1>5. ~aiFreed /\ aiOpened > 0 /\ ~Doing("buffer")
    BY <1>1, <1>4 DEF AiIInv, AiTypes, Phases, Doing
<1>u. /\ UNCHANGED <<aiKind, aiOpened, aiStatus, aiStop, aiPc, aiQuits, aiHand, aiFilled, aiBuffer,
                     aiAlloc, aiFreed, aiReads, aiWire, aiRead, aiDropped, aiWhy, aiStart>>
      /\ aiKind = "pulse" /\ aiStream' \in {aiStream, TRUE}
    OBVIOUS
<1> HIDE DEF audin_pulse_open, Done, aiThread
<1>a. aiStream' \in BOOLEAN
    BY <1>u DEF AiIInv, AiTypes
<1>6. AiTypes'
    BY <1>2, <1>u, <1>a DEF AiIInv, AiTypes
<1>7. OneDevice' /\ Gathering' /\ Phases' /\ Signals'
    BY <1>1, <1>2, <1>5, <1>u DEF AiIInv, AiTypes, OneDevice, Gathering, Phases, Signals
<1>8. FramesAccounted'
    BY <1>u DEF AiIInv, FramesAccounted
<1>9. BufferThere'
    BY <1>2, <1>3, <1>5, <1>u DEF AiIInv, BufferThere
<1>. QED BY <1>6, <1>7, <1>8, <1>9 DEF AiIInv

(* The packet buffer is made, after the stream.                            *)
LEMMA PulseBufferIInv == ASSUME AiIInv, PulseBuffer PROVE AiIInv'
<1> USE DEF PulseBuffer, Done
<1>1. aiDo \in Agenda /\ aiDo # <<>> /\ At = "buffer" /\ Head(aiDo) = "buffer"
    BY DoingIs DEF AiIInv
<1>2. aiDo' \in Agenda /\ At' \in {"change", "reply", "idle"}
    BY <1>1, AgendaSteps DEF At
<1>4. aiDo \notin Closing
    BY <1>1, ClosingSteps
<1>5. ~aiFreed /\ aiOpened > 0
    BY <1>1, <1>4 DEF AiIInv, AiTypes, Phases
<1>u. /\ UNCHANGED <<aiKind, aiOpened, aiStatus, aiStop, aiPc, aiQuits, aiHand, aiFilled, aiStream,
                     aiFreed, aiReads, aiWire, aiRead, aiWhy, aiStart>>
      /\ aiAlloc' = TRUE /\ aiBuffer' = 0 /\ aiDropped' = aiDropped + aiBuffer
    OBVIOUS
<1> HIDE DEF PulseBuffer, Done
<1>a. aiStream' \in BOOLEAN
    BY <1>u DEF AiIInv, AiTypes
<1>6. AiTypes'
    BY <1>2, <1>u, <1>a DEF AiIInv, AiTypes
<1>7. OneDevice' /\ Phases' /\ Signals'
    BY <1>1, <1>2, <1>5, <1>u DEF AiIInv, AiTypes, OneDevice, Phases, Signals
<1>8. Gathering'
    BY <1>1, <1>u DEF AiIInv, AiTypes, OneDevice, Gathering, Phases
<1>9. FramesAccounted'
    BY <1>u DEF AiIInv, AiTypes, FramesAccounted
<1>10. BufferThere'
    BY <1>u DEF AiIInv, BufferThere
<1>. QED BY <1>6, <1>7, <1>8, <1>9, <1>10 DEF AiIInv

(* Close tells the thread to stop, and then waits until it has.            *)
LEMMA AlsaCloseIInv == ASSUME AiIInv, audin_alsa_close PROVE AiIInv'
<1> USE DEF audin_alsa_close, Done, aiThread
<1>u. /\ UNCHANGED <<aiKind, aiOpened, aiStatus, aiPc, aiQuits, aiHand, aiFilled, aiBuffer, aiStream,
                     aiAlloc, aiFreed, aiReads, aiWire, aiRead, aiDropped, aiWhy, aiStart>>
      /\ aiKind = "alsa"
    OBVIOUS
<1>1. CASE Doing("close") /\ aiStop' = TRUE /\ aiDo' = <<"wait">> \o Tail(aiDo)
    <2>1. aiDo \in Agenda /\ aiDo # <<>> /\ At = "close" /\ Head(aiDo) = "close"
        BY <1>1, DoingIs DEF AiIInv
    <2>2. aiDo' \in Agenda /\ At' = "wait"
        BY <1>1, <2>1, AgendaSteps DEF At
    <2>3. aiDo \in Closing => aiDo' \in Closing
        BY <1>1, <2>1, ClosingSteps
    <2>4. ~aiFreed
        BY <2>1 DEF AiIInv, Phases
    <2>5. AiTypes' /\ OneDevice' /\ Gathering' /\ Phases'
        BY <1>1, <1>u, <2>2, <2>3, <2>4 DEF AiIInv, AiTypes, OneDevice, Gathering, Phases
    <2>6. Signals'
        BY <1>1, <1>u, <2>1, <2>2, <2>4 DEF AiIInv, AiTypes, Signals
    <2>7. FramesAccounted' /\ BufferThere'
        BY <1>u DEF AiIInv, FramesAccounted, OneDevice, BufferThere
    <2>. QED BY <2>5, <2>6, <2>7 DEF AiIInv
<1>2. CASE Doing("wait") /\ aiStatus <= 0 /\ Done /\ UNCHANGED aiStop
    <2>1. aiDo \in Agenda /\ aiDo # <<>> /\ At = "wait" /\ Head(aiDo) = "wait"
        BY <1>2, DoingIs DEF AiIInv
    <2>2. aiDo' \in Agenda /\ At' \in {"open", "free"}
        BY <1>2, <2>1, AgendaSteps DEF At
    <2>3. aiDo \in Closing => aiDo' \in Closing /\ At' = "free"
        BY <1>2, <2>1, <2>2, ClosingSteps DEF At
    <2>4. aiPc = "off" /\ ~aiFreed /\ ~aiStream
        BY <1>2, <2>1, <1>u DEF AiIInv, AiTypes, OneDevice, Phases
    <2>5. AiTypes' /\ OneDevice' /\ Gathering' /\ Phases'
        BY <1>2, <1>u, <2>2, <2>3, <2>4 DEF AiIInv, AiTypes, OneDevice, Gathering, Phases
    <2>6. Signals'
        <3>1. aiOpened = 0 => At' = "free"
            BY <2>3 DEF AiIInv, Phases
        <3>. QED BY <1>2, <1>u, <2>2, <2>4, <3>1 DEF AiIInv, Signals
    <2>7. FramesAccounted' /\ BufferThere'
        BY <1>u, <2>4 DEF AiIInv, FramesAccounted, BufferThere
    <2>. QED BY <2>5, <2>6, <2>7 DEF AiIInv
<1>. QED BY <1>1, <1>2

(* PulseAudio's stream is disconnected: its callbacks end with it.         *)
LEMMA PulseCloseIInv == ASSUME AiIInv, audin_pulse_close PROVE AiIInv'
<1> USE DEF audin_pulse_close, Done
<1>1. aiDo \in Agenda /\ aiDo # <<>> /\ At = "close" /\ Head(aiDo) = "close"
    BY DoingIs DEF AiIInv
<1>2. aiDo' \in Agenda /\ At' \in {"open", "free"}
    BY <1>1, AgendaSteps DEF At
<1>3. aiDo \in Closing => aiDo' \in Closing
    BY <1>1, ClosingSteps
<1>4. ~aiFreed /\ aiPc = "off" /\ ~aiStop
    BY <1>1 DEF AiIInv, OneDevice, Phases
<1>u. /\ UNCHANGED <<aiKind, aiOpened, aiStatus, aiStop, aiPc, aiQuits, aiHand, aiFilled,
                     aiFreed, aiReads, aiWire, aiRead, aiWhy, aiStart>>
      /\ aiKind = "pulse" /\ aiStream' = FALSE
      /\ \/ aiAlloc' = FALSE /\ aiBuffer' = 0 /\ aiDropped' = aiDropped + aiBuffer
         \/ UNCHANGED <<aiAlloc, aiBuffer, aiDropped>>
    OBVIOUS
<1> HIDE DEF audin_pulse_close, Done
<1>5. AiTypes'
    <2>1. aiBuffer' \in 0 .. Packet /\ aiDropped' \in Nat
        BY <1>u DEF AiIInv, AiTypes
    <2>2. aiAlloc' \in BOOLEAN
        BY <1>u DEF AiIInv, AiTypes
    <2>. QED BY <1>2, <1>u, <2>1, <2>2 DEF AiIInv, AiTypes
<1>6. OneDevice' /\ Gathering'
    <2>1. OneDevice'
        BY <1>4, <1>u DEF AiIInv, OneDevice
    <2>2. 0 # Packet
        OBVIOUS
    <2>. QED BY <1>4, <1>u, <2>1, <2>2 DEF AiIInv, Gathering
<1>7. Phases' /\ Signals'
    BY <1>2, <1>3, <1>4, <1>u DEF AiIInv, Phases, Signals
<1>8. FramesAccounted'
    BY <1>u DEF AiIInv, AiTypes, FramesAccounted
<1>9. BufferThere'
    BY <1>4, <1>u DEF BufferThere
<1>. QED BY <1>5, <1>6, <1>7, <1>8, <1>9 DEF AiIInv

(* The answers, and the end of the channel's callback.                     *)
LEMMA WritesIInv == ASSUME AiIInv, Writes \/ FreeCallback PROVE AiIInv'
<1> USE DEF Writes, FreeCallback, Done, aiThread
<1>u. UNCHANGED <<aiKind, aiOpened, aiStatus, aiStop, aiPc, aiQuits, aiHand, aiFilled, aiBuffer,
                  aiStream, aiAlloc, aiReads, aiWire, aiRead, aiDropped, aiWhy, aiStart>>
    OBVIOUS
<1>1. CASE Writes
    <2>1. PICK what \in {"change", "reply"} : Doing(what) /\ Done /\ aiFreed' = aiFreed
        BY <1>1
    <2>2. aiDo \in Agenda /\ aiDo # <<>> /\ At = what /\ Head(aiDo) = what
        BY <2>1, DoingIs DEF AiIInv
    <2>3. aiDo' \in Agenda /\ At' \in {"change", "reply", "idle"}
        BY <2>1, <2>2, AgendaSteps DEF At
    <2>4. aiDo \notin Closing
        BY <2>2, ClosingSteps
    <2>5. ~aiFreed /\ aiOpened # 0
        BY <2>2, <2>4 DEF AiIInv, Phases
    <2> HIDE DEF Writes, FreeCallback, Done, aiThread
    <2>6. AiTypes' /\ OneDevice' /\ Gathering'
        BY <1>u, <2>1, <2>3 DEF AiIInv, AiTypes, OneDevice, Gathering
    <2>7. Phases' /\ Signals'
        BY <1>u, <2>1, <2>2, <2>3, <2>5 DEF AiIInv, Phases, Signals
    <2>8. FramesAccounted' /\ BufferThere'
        BY <1>u, <2>2 DEF AiIInv, FramesAccounted, BufferThere, Doing
    <2>. QED BY <2>6, <2>7, <2>8 DEF AiIInv
<1>2. CASE FreeCallback
    <2>2. aiDo \in Agenda /\ aiDo # <<>> /\ At = "free" /\ Head(aiDo) = "free" /\ aiFreed' = TRUE
        BY <1>2, DoingIs DEF AiIInv
    <2>3. aiDo' \in Agenda /\ At' = "idle"
        BY <1>2, <2>2, AgendaSteps DEF At
    <2>4. aiDo \in Closing => aiDo' \in Closing
        BY <1>2, <2>2, ClosingSteps
    <2> HIDE DEF Writes, FreeCallback, Done, aiThread
    <2>6. AiTypes' /\ OneDevice' /\ Gathering'
        BY <1>u, <2>2, <2>3 DEF AiIInv, AiTypes, OneDevice, Gathering
    <2>7. Phases' /\ Signals'
        BY <1>u, <2>2, <2>3, <2>4 DEF AiIInv, Phases, Signals
    <2>8. FramesAccounted' /\ BufferThere'
        BY <1>u, <2>2 DEF AiIInv, FramesAccounted, BufferThere, Phases
    <2>. QED BY <2>6, <2>7, <2>8 DEF AiIInv
<1>. QED BY <1>1, <1>2

(* The ALSA thread leaves: told to, or by itself.                          *)
LEMMA LeaveIInv ==
    ASSUME AiIInv, NEW why, Leave(why), aiPc # "off", why \in {"told"} \union ByItself,
           why = "told" => aiStop,
           UNCHANGED <<aiKind, aiDo, aiOpened, aiStop, aiStream, aiFreed, aiStart>>
    PROVE  aiPc # "data" => AiIInv'
<1> SUFFICES ASSUME aiPc # "data" PROVE AiIInv'
    OBVIOUS
<1>u. /\ UNCHANGED <<aiKind, aiDo, aiOpened, aiStop, aiStream, aiFreed, aiStart, aiBuffer, aiFilled,
                     aiReads, aiRead, aiWire>>
      /\ aiPc' = "off" /\ aiStatus' = -1 /\ aiQuits' = aiQuits + 1 /\ aiWhy' = why
      /\ aiDropped' = aiDropped + aiHand /\ aiHand' = 0 /\ aiAlloc' = FALSE
    BY DEF Leave
<1>1. At' = At /\ aiKind = "alsa" /\ ~aiStream
    BY <1>u DEF At, AiIInv, AiTypes, OneDevice
<1>2. AiTypes'
    <2>1. -1 \in {-1, 0, 1} /\ 0 \in 0 .. Packet
        OBVIOUS
    <2>2. aiQuits' \in Nat /\ aiDropped' \in Nat
        BY <1>u DEF AiIInv, AiTypes
    <2>. QED BY <1>u, <2>1, <2>2 DEF AiIInv, AiTypes
<1>3. OneDevice' /\ Gathering' /\ Phases'
    <2>1. -1 # 1
        OBVIOUS
    <2>2. OneDevice'
        BY <1>u, <1>1, <2>1 DEF OneDevice
    <2>3. Gathering'
        BY <1>u DEF AiIInv, Gathering
    <2>4. Phases'
        BY <1>u, <1>1 DEF AiIInv, Phases
    <2>. QED BY <2>2, <2>3, <2>4
<1>4. Signals'
    <2>1. why \in ByItself \/ aiStart \/ At = "wait"
        BY DEF AiIInv, Signals
    <2>2. aiQuits' > 0
        BY <1>u DEF AiIInv, AiTypes
    <2>. QED BY <1>u, <1>1, <2>1, <2>2 DEF AiIInv, Signals
<1>5. FramesAccounted'
    BY <1>u DEF AiIInv, AiTypes, FramesAccounted
<1>6. BufferThere'
    BY <1>u, <1>1 DEF BufferThere
<1>. QED BY <1>2, <1>3, <1>4, <1>5, <1>6 DEF AiIInv

(* A turn of the capture loop: it leaves, or reads frames into its hand.   *)
LEMMA LoopIInv == ASSUME AiIInv, audin_alsa_thread_func PROVE AiIInv'
<1> USE DEF audin_alsa_thread_func
<1>u. /\ UNCHANGED <<aiKind, aiDo, aiOpened, aiStop, aiStream, aiFreed, aiStart>>
      /\ aiPc = "loop"
    OBVIOUS
<1>1. CASE (aiStop /\ Leave("told")) \/ Leave("error")
    BY <1>1, <1>u, LeaveIInv DEF ByItself
<1>2. CASE /\ ~aiStop /\ aiReads < MaxReads
           /\ \E n \in 1 .. Packet : aiHand' = n /\ aiRead' = aiRead + n
           /\ aiPc' = "take" /\ aiFilled' = FALSE /\ aiReads' = aiReads + 1
           /\ UNCHANGED <<aiStatus, aiQuits, aiBuffer, aiAlloc, aiWire, aiDropped, aiWhy>>
    <2>1. PICK n \in 1 .. Packet : aiHand' = n /\ aiRead' = aiRead + n
        BY <1>2
    <2> HIDE DEF audin_alsa_thread_func
    <2>2. At' = At
        BY <1>u DEF At
    <2>3. aiHand' \in 0 .. Packet /\ aiRead' \in Nat /\ aiReads' \in Nat /\ aiHand = 0
        BY <1>2, <1>u, <2>1 DEF AiIInv, AiTypes, Gathering
    <2>4. AiTypes'
        BY <1>2, <1>u, <2>3 DEF AiIInv, AiTypes
    <2>5. OneDevice' /\ Gathering' /\ Phases' /\ Signals'
        BY <1>2, <1>u, <2>2 DEF AiIInv, OneDevice, Gathering, Phases, Signals
    <2>6. FramesAccounted'
        BY <1>2, <1>u, <2>1, <2>3 DEF AiIInv, AiTypes, FramesAccounted
    <2>7. BufferThere'
        BY <1>2, <1>u DEF AiIInv, BufferThere, Doing
    <2>. QED BY <2>4, <2>5, <2>6, <2>7 DEF AiIInv
<1>. QED BY <1>1, <1>2

(* An ended thread clears the signal.                                      *)
LEMMA QuitsIInv == ASSUME AiIInv, ThreadQuits PROVE AiIInv'
<1>u. /\ UNCHANGED <<aiKind, aiDo, aiOpened, aiStatus, aiPc, aiHand, aiFilled, aiBuffer, aiStream,
                     aiAlloc, aiFreed, aiReads, aiWire, aiRead, aiDropped, aiWhy, aiStart>>
      /\ aiQuits > 0 /\ aiQuits' = aiQuits - 1 /\ aiStop' = FALSE
    BY DEF ThreadQuits
<1>1. At' = At
    BY <1>u DEF At
<1>2. AiTypes' /\ OneDevice' /\ Gathering'
    <2>0. aiStop' \in BOOLEAN
        BY <1>u
    <2>1. aiQuits' \in Nat
        BY <1>u DEF AiIInv, AiTypes
    <2>2. AiTypes'
        BY <1>u, <2>0, <2>1 DEF AiIInv, AiTypes
    <2>. QED BY <1>u, <2>2 DEF AiIInv, OneDevice, Gathering
<1>3. Phases' /\ Signals'
    BY <1>1, <1>u DEF AiIInv, Phases, Signals
<1>4. FramesAccounted' /\ BufferThere'
    BY <1>u DEF AiIInv, FramesAccounted, BufferThere, Doing
<1>. QED BY <1>2, <1>3, <1>4 DEF AiIInv

(* Frames in hand are gathered, or the thread leaves.                      *)
LEMMA ReceiveIInv == ASSUME AiIInv, audin_alsa_thread_receive PROVE AiIInv'
<1> DEFINE c == IF aiHand < Packet - aiBuffer THEN aiHand ELSE Packet - aiBuffer
<1>u. /\ UNCHANGED <<aiKind, aiDo, aiOpened, aiStop, aiFilled, aiStream, aiFreed, aiReads,
                     aiRead, aiStart>>
      /\ aiPc = "take"
    BY DEF audin_alsa_thread_receive
<1>a. /\ At' = At /\ aiKind = "alsa" /\ ~aiStream /\ aiBuffer # Packet /\ aiAlloc /\ aiStatus = 1
      /\ At \notin {"open", "free"} /\ ~aiFreed /\ aiOpened # 0
    BY <1>u DEF At, AiIInv, AiTypes, OneDevice, Gathering, Phases, BufferThere
<1>1. CASE Leave("short") \/ (aiStop /\ Leave("told"))
    BY <1>1, <1>u, LeaveIInv DEF ByItself
<1>2. CASE /\ aiHand = 0 /\ aiPc' = "loop"
           /\ UNCHANGED <<aiStatus, aiQuits, aiHand, aiBuffer, aiAlloc, aiWire, aiDropped, aiWhy>>
    <2>1. AiTypes'
        BY <1>2, <1>u DEF AiIInv, AiTypes
    <2>2. OneDevice' /\ Gathering' /\ Phases' /\ Signals'
        BY <1>2, <1>u, <1>a DEF AiIInv, OneDevice, Gathering, Phases, Signals
    <2>3. FramesAccounted' /\ BufferThere'
        BY <1>2, <1>u, <1>a DEF AiIInv, FramesAccounted, BufferThere
    <2>. QED BY <2>1, <2>2, <2>3 DEF AiIInv
<1>3. CASE /\ aiPc' = "loop" /\ aiDropped' = aiDropped + aiHand /\ aiHand' = 0
           /\ UNCHANGED <<aiStatus, aiQuits, aiBuffer, aiAlloc, aiWire, aiWhy>>
    <2>0. aiDropped' \in Nat /\ 0 \in 0 .. Packet
        BY <1>3 DEF AiIInv, AiTypes
    <2>1. AiTypes'
        BY <1>3, <1>u, <2>0 DEF AiIInv, AiTypes
    <2>2. OneDevice' /\ Gathering' /\ Phases' /\ Signals'
        BY <1>3, <1>u, <1>a DEF AiIInv, OneDevice, Gathering, Phases, Signals
    <2>3. FramesAccounted'
        BY <1>3, <1>u DEF AiIInv, AiTypes, FramesAccounted
    <2>4. BufferThere'
        BY <1>3, <1>u, <1>a DEF BufferThere
    <2>. QED BY <2>1, <2>2, <2>3, <2>4 DEF AiIInv
<1>4. CASE /\ aiHand > 0 /\ ~aiStop
           /\ aiHand' = aiHand - c /\ aiBuffer' = aiBuffer + c
           /\ aiPc' = IF aiBuffer + c >= Packet THEN "data" ELSE "take"
           /\ UNCHANGED <<aiStatus, aiQuits, aiAlloc, aiWire, aiDropped, aiWhy>>
    <2>0. c \in Nat /\ c <= aiHand /\ aiBuffer + c <= Packet
        BY DEF AiIInv, AiTypes
    <2> HIDE DEF c
    <2>1. aiHand' \in 0 .. Packet /\ aiBuffer' \in 0 .. Packet
        BY <1>4, <2>0 DEF AiIInv, AiTypes
    <2>2. (aiPc' = "data") = (aiBuffer' = Packet) /\ aiPc' \in {"take", "data"}
        BY <1>4, <2>0 DEF AiIInv, AiTypes
    <2>3. AiTypes'
        BY <1>4, <1>u, <2>1, <2>2 DEF AiIInv, AiTypes
    <2>4. OneDevice' /\ Gathering' /\ Phases' /\ Signals'
        BY <1>4, <1>u, <1>a, <2>2 DEF AiIInv, OneDevice, Gathering, Phases, Signals
    <2>5. FramesAccounted'
        BY <1>4, <1>u, <2>0 DEF AiIInv, AiTypes, FramesAccounted
    <2>6. BufferThere'
        BY <1>4, <1>u, <1>a DEF BufferThere
    <2>. QED BY <2>3, <2>4, <2>5, <2>6 DEF AiIInv
<1>. QED BY <1>1, <1>2, <1>3, <1>4 DEF audin_alsa_thread_receive

(* A full packet is sent, or the recording ends.                           *)
LEMMA SendIInv == ASSUME AiIInv, audin_receive_wave_data PROVE AiIInv'
<1>u. /\ UNCHANGED <<aiKind, aiDo, aiOpened, aiStop, aiStream, aiFreed, aiReads, aiRead, aiStart>>
      /\ aiPc = "data"
    BY DEF audin_receive_wave_data
<1>a. /\ At' = At /\ aiKind = "alsa" /\ ~aiStream /\ aiBuffer = Packet /\ aiAlloc /\ aiStatus = 1
      /\ At \notin {"open", "free"} /\ ~aiFreed /\ aiOpened # 0
    BY <1>u DEF At, AiIInv, AiTypes, OneDevice, Gathering, Phases, BufferThere
<1>0. 0 # Packet /\ 0 \in 0 .. Packet /\ -1 # 1 /\ -1 \in {-1, 0, 1}
    OBVIOUS
<1>1. CASE /\ aiPc' = "off" /\ aiStatus' = -1 /\ aiQuits' = aiQuits + 1
           /\ aiWhy' = (IF aiStop THEN "told" ELSE "failed") /\ aiAlloc' = FALSE
           /\ aiDropped' = aiDropped + aiHand + aiBuffer /\ aiHand' = 0 /\ aiBuffer' = 0
           /\ UNCHANGED <<aiFilled, aiWire>>
    <2>1. aiQuits' \in Nat /\ aiQuits' > 0 /\ aiDropped' \in Nat
        BY <1>1 DEF AiIInv, AiTypes
    <2>2. AiTypes'
        BY <1>0, <1>1, <1>u, <2>1 DEF AiIInv, AiTypes
    <2>3. OneDevice' /\ Gathering'
        BY <1>0, <1>1, <1>u, <1>a DEF OneDevice, Gathering
    <2>4. Phases'
        BY <1>1, <1>u, <1>a DEF AiIInv, Phases
    <2>5. Signals'
        <3>1. aiWhy' \in ByItself \/ aiStart \/ At = "wait"
            BY <1>1, <1>u DEF AiIInv, Signals, ByItself
        <3>. QED BY <1>1, <1>u, <1>a, <2>1, <3>1 DEF Signals
    <2>6. FramesAccounted'
        BY <1>1, <1>u DEF AiIInv, AiTypes, FramesAccounted
    <2>7. BufferThere'
        BY <1>1, <1>u, <1>a DEF BufferThere
    <2>. QED BY <2>2, <2>3, <2>4, <2>5, <2>6, <2>7 DEF AiIInv
<1>2. CASE /\ ~aiStop
           /\ aiWire' = Append(aiWire, aiBuffer)
           /\ aiBuffer' = 0 /\ aiFilled' = TRUE /\ aiPc' = "take"
           /\ UNCHANGED <<aiStatus, aiQuits, aiWhy, aiAlloc, aiDropped, aiHand>>
    <2>1. /\ aiWire \in Seq(Nat) /\ Len(aiWire) \in Nat
          /\ aiWire' \in Seq(Nat) /\ Len(aiWire') = Len(aiWire) + 1
          /\ \A k \in DOMAIN aiWire' : aiWire'[k] = Packet
        <3>1. aiWire \in Seq(Nat) /\ aiBuffer \in Nat /\ \A k \in DOMAIN aiWire : aiWire[k] = Packet
            BY DEF AiIInv, AiTypes, FramesAccounted
        <3>. QED BY <1>2, <1>a, <3>1
    <2>2. AiTypes'
        BY <1>0, <1>2, <1>u, <2>1 DEF AiIInv, AiTypes
    <2>3. OneDevice' /\ Gathering' /\ Phases' /\ Signals'
        BY <1>0, <1>2, <1>u, <1>a DEF AiIInv, OneDevice, Gathering, Phases, Signals
    <2>4. FramesAccounted'
        <3>1. Len(aiWire') * Packet = Len(aiWire) * Packet + Packet
            BY <2>1
        <3>2. Len(aiWire) * Packet \in Nat
            BY <2>1
        <3>3. aiRead = Len(aiWire) * Packet + aiBuffer + aiHand + aiDropped
            BY DEF AiIInv, FramesAccounted
        <3>4. aiRead' = Len(aiWire') * Packet + aiBuffer' + aiHand' + aiDropped'
            BY <1>2, <1>u, <1>a, <3>1, <3>2, <3>3 DEF AiIInv, AiTypes
        <3>. QED BY <2>1, <3>4 DEF FramesAccounted
    <2>5. BufferThere'
        BY <1>2, <1>u, <1>a DEF BufferThere
    <2>. QED BY <2>2, <2>3, <2>4, <2>5 DEF AiIInv
<1>. QED BY <1>1, <1>2 DEF audin_receive_wave_data

(* PulseAudio's callback: full packets are sent, the rest is kept, and     *)
(* what follows a packet that cannot be sent is dropped.                   *)
LEMMA CallbackIInv == ASSUME AiIInv, audin_pulse_stream_request_callback PROVE AiIInv'
<1>u. /\ UNCHANGED <<aiKind, aiDo, aiOpened, aiStatus, aiStop, aiPc, aiQuits, aiHand, aiFilled,
                     aiStream, aiAlloc, aiFreed, aiWhy, aiStart>>
      /\ aiStream
    BY DEF audin_pulse_stream_request_callback
<1>a. At' = At /\ aiKind = "pulse" /\ aiPc = "off"
    BY <1>u DEF At, AiIInv, AiTypes, OneDevice
<1>1. PICK n \in 1 .. 2 * Packet, q \in 0 .. 2 :
         /\ aiReads' = aiReads + 1 /\ aiRead' = aiRead + n
         /\ aiWire' = aiWire \o [k \in 1 .. q |-> Packet]
         /\ \/ /\ aiBuffer' = aiBuffer + n - q * Packet /\ aiBuffer' \in 0 .. Packet - 1
               /\ UNCHANGED aiDropped
            \/ /\ aiBuffer + n >= (q + 1) * Packet
               /\ aiBuffer' = 0 /\ aiDropped' = aiDropped + aiBuffer + n - q * Packet
    BY DEF audin_pulse_stream_request_callback
<1>2. /\ n \in Nat /\ Packet \in Nat /\ Packet > 0 /\ q \in Nat /\ q * Packet \in Nat
      /\ (q + 1) * Packet = q * Packet + Packet
    OBVIOUS
<1>3. /\ aiRead \in Nat /\ aiReads \in Nat /\ aiBuffer \in Nat /\ aiDropped \in Nat /\ aiHand \in Nat
      /\ aiWire \in Seq(Nat) /\ Len(aiWire) \in Nat /\ Len(aiWire) * Packet \in Nat
      /\ \A k \in DOMAIN aiWire : aiWire[k] = Packet
      /\ aiRead = Len(aiWire) * Packet + aiBuffer + aiHand + aiDropped
    <2>1. aiRead \in Nat /\ aiReads \in Nat /\ aiBuffer \in Nat /\ aiDropped \in Nat /\ aiHand \in Nat
        BY DEF AiIInv, AiTypes
    <2>2. aiWire \in Seq(Nat) /\ Len(aiWire) \in Nat
        BY DEF AiIInv, AiTypes
    <2>3. Len(aiWire) * Packet \in Nat
        BY <2>2
    <2>. QED BY <2>1, <2>2, <2>3 DEF AiIInv, FramesAccounted
<1>4. /\ aiWire' \in Seq(Nat) /\ Len(aiWire') = Len(aiWire) + q
      /\ \A k \in DOMAIN aiWire' : aiWire'[k] = Packet
    <2> DEFINE f == [k \in 1 .. q |-> Packet]
    <2>1. f \in Seq(Nat) /\ Len(f) = q /\ \A k \in 1 .. q : f[k] = Packet
        BY <1>2
    <2>2. aiWire' = aiWire \o f
        BY <1>1
    <2> HIDE DEF f
    <2>3. aiWire \o f \in Seq(Nat) /\ Len(aiWire \o f) = Len(aiWire) + q
        BY <1>3, <2>1
    <2>4. \A k \in 1 .. Len(aiWire) + q : (aiWire \o f)[k] = Packet
        <3> TAKE k \in 1 .. Len(aiWire) + q
        <3>1. CASE k <= Len(aiWire)
            BY <3>1, <1>3, <2>1
        <3>2. CASE ~(k <= Len(aiWire))
            <4>1. k - Len(aiWire) \in 1 .. q
                BY <3>2, <1>2, <1>3
            <4>2. (aiWire \o f)[k] = f[k - Len(aiWire)]
                BY <3>2, <1>3, <2>1
            <4>. QED BY <4>1, <4>2, <2>1
        <3>. QED BY <3>1, <3>2
    <2>5. DOMAIN aiWire' = 1 .. Len(aiWire) + q
        BY <2>2, <2>3
    <2>. QED BY <2>2, <2>3, <2>4, <2>5
<1>5. Len(aiWire') * Packet = Len(aiWire) * Packet + q * Packet
    BY <1>2, <1>3, <1>4
<1> DEFINE Q == q * Packet
           L == Len(aiWire) * Packet
<1>b. /\ Q \in Nat /\ L \in Nat /\ Len(aiWire') * Packet = L + Q
      /\ aiRead' = aiRead + n /\ aiReads' = aiReads + 1 /\ aiRead = L + aiBuffer + aiHand + aiDropped
      /\ \/ aiBuffer' = aiBuffer + n - Q /\ aiBuffer' \in 0 .. Packet - 1 /\ aiDropped' = aiDropped
         \/ aiBuffer + n >= Q + Packet /\ aiBuffer' = 0 /\ aiDropped' = aiDropped + aiBuffer + n - Q
    BY <1>1, <1>2, <1>3, <1>5
<1> HIDE DEF Q, L
<1>6. aiRead' \in Nat /\ aiReads' \in Nat /\ aiBuffer' \in 0 .. Packet /\ aiBuffer' # Packet
    BY <1>b, <1>2, <1>3
<1>7. aiDropped' \in Nat
    BY <1>b, <1>2, <1>3
<1>8. AiTypes'
    BY <1>u, <1>4, <1>6, <1>7 DEF AiIInv, AiTypes
<1>9. OneDevice' /\ Gathering' /\ Phases' /\ Signals'
    BY <1>u, <1>a, <1>6 DEF AiIInv, OneDevice, Gathering, Phases, Signals
<1>10. FramesAccounted'
    <2>1. aiRead' = Len(aiWire') * Packet + aiBuffer' + aiHand' + aiDropped'
        <3>1. aiRead + n = (L + Q) + aiBuffer' + aiHand + aiDropped'
            <4>0. /\ n \in Nat /\ aiBuffer \in Nat /\ aiDropped \in Nat /\ aiHand \in Nat /\ Q \in Nat
                  /\ L \in Nat /\ aiRead = L + aiBuffer + aiHand + aiDropped
                  /\ aiBuffer' \in Nat /\ aiDropped' \in Nat
                BY <1>2, <1>3, <1>b, <1>6, <1>7
            <4>1. CASE aiBuffer' = aiBuffer + n - Q /\ aiDropped' = aiDropped
                BY <4>0, <4>1
            <4>2. CASE aiBuffer' = 0 /\ aiDropped' = aiDropped + aiBuffer + n - Q
                BY <4>0, <4>2
            <4>. QED BY <4>1, <4>2, <1>b
        <3>. QED BY <3>1, <1>b, <1>u, Zenon
    <2>. QED BY <1>4, <2>1 DEF FramesAccounted
<1>11. BufferThere'
    BY <1>u DEF AiIInv, BufferThere, Doing
<1>. QED BY <1>8, <1>9, <1>10, <1>11 DEF AiIInv

(* Every step of audio input keeps the invariant.                          *)
LEMMA AiNextIInv == AiIInv /\ [AiNext]_aiVars => AiIInv'
<1> SUFFICES ASSUME AiIInv, [AiNext]_aiVars PROVE AiIInv'
    OBVIOUS
<1>1. CASE UNCHANGED aiVars
    <2>0. At' = At
        BY <1>1 DEF aiVars, At
    <2>1. AiTypes' /\ OneDevice' /\ Gathering'
        BY <1>1 DEF aiVars, AiIInv, AiTypes, OneDevice, Gathering
    <2>2. Phases' /\ Signals'
        BY <1>1, <2>0 DEF aiVars, AiIInv, Phases, Signals
    <2>3. FramesAccounted' /\ BufferThere'
        BY <1>1 DEF aiVars, AiIInv, FramesAccounted, BufferThere, Doing
    <2>. QED BY <2>1, <2>2, <2>3 DEF AiIInv
<1>2. CASE AiNext
    BY <1>2, TakesIInv, AlsaOpenIInv, PulseOpenIInv, PulseBufferIInv, AlsaCloseIInv, PulseCloseIInv,
       WritesIInv, LoopIInv, QuitsIInv, ReceiveIInv, SendIInv, CallbackIInv DEF AiNext
<1>. QED BY <1>1, <1>2

(* Whatever the server opens, reopens and closes, and however the          *)
(* recording thread and the channel's thread interleave: every frame read  *)
(* is sent in a full packet, held, or dropped at a stop; nobody records    *)
(* once the channel's callback is freed; a recording that is wanted goes   *)
(* on but in the named cases; and frames are gathered only into a buffer   *)
(* that exists.  For every packet size and any number of reads and opens.  *)
THEOREM RecordingSafe == AiSpec => []RecordingIsSafe
<1>1. AiIInv => RecordingIsSafe
    <2> SUFFICES ASSUME AiIInv PROVE RecordingIsSafe
        OBVIOUS
    <2>1. AiTypeOK /\ FramesAccounted /\ BufferThere
        BY DEF AiIInv, AiTypes, AiTypeOK
    <2>2. GoneWhenFreed
        BY DEF AiIInv, Phases, GoneWhenFreed
    <2>3. RecordsWhileWanted
        <3>1. aiDo = <<>> => At \notin {"wait", "open", "free"}
            BY DEF At, First
        <3>. QED BY <3>1 DEF AiIInv, Signals, RecordsWhileWanted, ByItself
    <2>. QED BY <2>1, <2>2, <2>3 DEF RecordingIsSafe
<1>. QED BY <1>1, AiInitIInv, AiNextIInv, PTL DEF AiSpec

(* A recording thread is started with the stop signal set only if an       *)
(* earlier thread has yet to clear it or ended by itself (thread.c).       *)
THEOREM SignalLeftOver == AiSpec => [][LeftOverSignal]_aiVars
<1> DEFINE Bad == aiQuits > 0 \/ aiWhy \in {"error", "short", "failed"}
<1>1. AiIInv /\ [AiNext]_aiVars => [LeftOverSignal]_aiVars
    <2> SUFFICES ASSUME AiIInv, AiNext, aiStart', ~aiStart PROVE Bad
        BY DEF LeftOverSignal
    <2>1. CASE audin_alsa_open
        <3>1. aiStop /\ aiDo # <<>> /\ At = "open"
            BY <2>1, DoingIs DEF AiIInv, audin_alsa_open
        <3>2. aiPc = "off" /\ aiOpened # 0
            BY <3>1, ClosingSteps DEF AiIInv, Phases, At, First
        <3>. QED BY <3>1, <3>2 DEF AiIInv, Signals, ByItself
    <2>2. CASE ~audin_alsa_open
        <3>1. audin_process_open \/ audin_process_format_change \/ audin_on_close => aiStart' = aiStart
            BY DEF audin_process_open, audin_process_format_change, audin_on_close
        <3>2. audin_pulse_open \/ PulseBuffer \/ audin_alsa_close \/ audin_pulse_close => aiStart' = aiStart
            BY DEF audin_pulse_open, PulseBuffer, audin_alsa_close, audin_pulse_close
        <3>3. Writes \/ FreeCallback \/ audin_alsa_thread_func \/ ThreadQuits => aiStart' = aiStart
            BY DEF Writes, FreeCallback, audin_alsa_thread_func, ThreadQuits
        <3>4. audin_alsa_thread_receive \/ audin_receive_wave_data \/ audin_pulse_stream_request_callback
                => aiStart' = aiStart
            BY DEF audin_alsa_thread_receive, audin_receive_wave_data, audin_pulse_stream_request_callback
        <3>. QED BY <2>2, <3>1, <3>2, <3>3, <3>4 DEF AiNext
    <2>. QED BY <2>1, <2>2
<1>. QED BY <1>1, AiInitIInv, AiNextIInv, PTL DEF AiSpec
=============================================================================
