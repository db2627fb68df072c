----------------------------- MODULE AudioInput -----------------------------
(***************************************************************************)
(* Recording for the server (channels/drdynvc/audin): the channel's thread *)
(* opens, reopens and closes a recording device, and the device's own      *)
(* thread - ALSA's capture thread or PulseAudio's main loop - gathers      *)
(* frames into packets of frames_per_packet and writes them to the same    *)
(* channel.  Frames are counted; thread.c's status and stop signal decide  *)
(* when the ALSA thread ends.                                              *)
(***************************************************************************)
EXTENDS Integers, Sequences

CONSTANTS
    Packet,   \* frames_per_packet
    Kinds,    \* devices: a subset of {"alsa", "pulse"}
    MaxReads, \* bound: reads of the device
    MaxOpens  \* bound: opens and format changes the server asks for

ASSUME AiAssumption ==
    Packet \in Nat \ {0} /\ Kinds \subseteq {"alsa", "pulse"} /\ MaxReads \in Nat /\ MaxOpens \in Nat

VARIABLES
    aiKind,    \* the device that was loaded
    aiDo,      \* steps of the message in hand: a sequence of step names
    aiOpened,  \* opens and format changes so far
    aiStatus,  \* thread->status
    aiStop,    \* thread->signals[0] is set
    aiPc,      \* the ALSA thread: "off", "loop", "take", "data"
    aiQuits,   \* ended ALSA threads that have yet to clear the signal
    aiHand,    \* frames read and not yet gathered
    aiFilled,  \* the read in hand has filled a packet
    aiBuffer,  \* buffer_frames
    aiStream,  \* pulse: the stream exists and calls back
    aiAlloc,   \* the packet buffer exists
    aiFreed,   \* the channel's callback was freed
    aiReads,   \* reads so far
    aiWire,    \* history: frames of each data PDU written to the channel
    aiRead,    \* history: frames read
    aiDropped, \* history: frames thrown away
    aiWhy,     \* history: why the last ALSA thread ended
    aiStart    \* history: signals[0] was set when the thread was started

aiVars == <<aiKind, aiDo, aiOpened, aiStatus, aiStop, aiPc, aiQuits, aiHand, aiFilled,
            aiBuffer, aiStream, aiAlloc, aiFreed, aiReads, aiWire, aiRead, aiDropped,
            aiWhy, aiStart>>
aiThread == <<aiStatus, aiPc, aiQuits, aiHand, aiFilled, aiBuffer, aiReads, aiRead, aiDropped>>

AiInit ==
    /\ aiKind \in Kinds /\ aiDo = <<>> /\ aiOpened = 0
    /\ aiStatus = 0 /\ aiStop = FALSE /\ aiPc = "off" /\ aiQuits = 0
    /\ aiHand = 0 /\ aiFilled = FALSE /\ aiBuffer = 0
    /\ aiStream = FALSE /\ aiAlloc = FALSE /\ aiFreed = FALSE /\ aiReads = 0
    /\ aiWire = <<>> /\ aiRead = 0 /\ aiDropped = 0 /\ aiWhy = "none" /\ aiStart = FALSE

-----------------------------------------------------------------------------
(* The channel's thread takes a message and works through its steps.       *)
Takes(steps) == aiDo = <<>> /\ ~aiFreed /\ aiDo' = steps

audin_process_open ==
    /\ aiOpened = 0 /\ MaxOpens > 0 /\ Takes(<<"open", "change", "reply">>)
    /\ aiOpened' = 1
    /\ UNCHANGED <<aiKind, aiStop, aiStream, aiAlloc, aiFreed, aiWire, aiWhy, aiStart, aiThread>>

audin_process_format_change ==
    /\ aiOpened \in 1 .. MaxOpens - 1 /\ Takes(<<"close", "open", "change">>)
    /\ aiOpened' = aiOpened + 1
    /\ UNCHANGED <<aiKind, aiStop, aiStream, aiAlloc, aiFreed, aiWire, aiWhy, aiStart, aiThread>>

(* Mutant: the device is not closed.                                       *)
audin_on_close_open ==
    /\ Takes(<<"free">>)
    /\ UNCHANGED <<aiKind, aiOpened, aiStop, aiStream, aiAlloc, aiFreed, aiWire, aiWhy,
                   aiStart, aiThread>>

audin_on_close ==
    /\ Takes(<<"close", "free">>)
    /\ UNCHANGED <<aiKind, aiOpened, aiStop, aiStream, aiAlloc, aiFreed, aiWire, aiWhy,
                   aiStart, aiThread>>

Doing(step) == aiDo # <<>> /\ Head(aiDo) = step
Done == aiDo' = Tail(aiDo)

audin_alsa_open ==
    /\ aiKind = "alsa" /\ Doing("open") /\ Done
    /\ aiStatus' = 1 /\ aiPc' = "loop" /\ aiBuffer' = 0 /\ aiAlloc' = TRUE
    /\ aiStart' = aiStop /\ aiWhy' = "none" /\ aiDropped' = aiDropped + aiBuffer
    /\ UNCHANGED <<aiKind, aiOpened, aiStop, aiQuits, aiHand, aiFilled, aiStream, aiFreed,
                   aiReads, aiWire, aiRead>>

(* The stream is ready and the main loop unlocked, or it could not be      *)
(* connected; the packet buffer is made only afterwards.                   *)
audin_pulse_open ==
    /\ aiKind = "pulse" /\ Doing("open")
    /\ \/ ~aiStream /\ aiStream' = TRUE /\ aiDo' = <<"buffer">> \o Tail(aiDo)
       \/ Done /\ UNCHANGED aiStream
    /\ UNCHANGED <<aiKind, aiOpened, aiStop, aiAlloc, aiFreed, aiWire, aiWhy, aiStart, aiThread>>

PulseBuffer ==
    /\ Doing("buffer") /\ Done /\ aiAlloc' = TRUE
    /\ aiBuffer' = 0 /\ aiDropped' = aiDropped + aiBuffer
    /\ UNCHANGED <<aiKind, aiOpened, aiStatus, aiStop, aiPc, aiQuits, aiHand, aiFilled,
                   aiStream, aiFreed, aiReads, aiWire, aiRead, aiWhy, aiStart>>

(* freerdp_thread_stop sets the signal and waits for the status.           *)
audin_alsa_close ==
    /\ aiKind = "alsa"
    /\ \/ /\ Doing("close") /\ aiStop' = TRUE /\ aiDo' = <<"wait">> \o Tail(aiDo)
       \/ /\ Doing("wait") /\ aiStatus <= 0 /\ Done /\ UNCHANGED aiStop
    /\ UNCHANGED <<aiKind, aiOpened, aiStream, aiAlloc, aiFreed, aiWire, aiWhy, aiStart, aiThread>>

audin_pulse_close ==
    /\ aiKind = "pulse" /\ Doing("close") /\ Done
    /\ aiStream' = FALSE
    /\ IF aiStream THEN /\ aiAlloc' = FALSE /\ aiBuffer' = 0
                        /\ aiDropped' = aiDropped + aiBuffer
                   ELSE UNCHANGED <<aiAlloc, aiBuffer, aiDropped>>
    /\ UNCHANGED <<aiKind, aiOpened, aiStatus, aiStop, aiPc, aiQuits, aiHand, aiFilled,
                   aiFreed, aiReads, aiWire, aiRead, aiWhy, aiStart>>

Writes == \E what \in {"change", "reply"} :
    /\ Doing(what) /\ Done
    /\ UNCHANGED <<aiKind, aiOpened, aiStop, aiStream, aiAlloc, aiFreed, aiWire, aiWhy,
                   aiStart, aiThread>>

FreeCallback ==
    /\ Doing("free") /\ Done /\ aiFreed' = TRUE
    /\ UNCHANGED <<aiKind, aiOpened, aiStop, aiStream, aiAlloc, aiWire, aiWhy, aiStart, aiThread>>

-----------------------------------------------------------------------------
(* The ALSA thread.  Leaving it sets the status, and then clears the stop  *)
(* signal; both are freerdp_thread_quit.                                   *)
Leave(why) ==
    /\ aiPc' = "off" /\ aiStatus' = -1 /\ aiQuits' = aiQuits + 1 /\ aiWhy' = why
    /\ aiDropped' = aiDropped + aiHand /\ aiHand' = 0 /\ aiAlloc' = FALSE
    /\ UNCHANGED <<aiBuffer, aiFilled, aiReads, aiRead, aiWire>>

(* One turn of the capture loop.  An overrun (EPIPE) is recovered from and *)
(* changes nothing here.                                                   *)
audin_alsa_thread_func ==
    /\ aiPc = "loop"
    /\ \/ aiStop /\ Leave("told")
       \/ ~aiStop /\ Leave("error")
       \/ /\ ~aiStop /\ aiReads < MaxReads
          /\ \E n \in 1 .. Packet :
               aiHand' = n /\ aiRead' = aiRead + n
          /\ aiPc' = "take" /\ aiFilled' = FALSE /\ aiReads' = aiReads + 1
          /\ UNCHANGED <<aiStatus, aiQuits, aiBuffer, aiAlloc, aiWire, aiDropped, aiWhy>>
    /\ UNCHANGED <<aiKind, aiDo, aiOpened, aiStop, aiStream, aiFreed, aiStart>>

ThreadQuits ==
    /\ aiQuits > 0 /\ aiQuits' = aiQuits - 1 /\ aiStop' = FALSE
    /\ UNCHANGED <<aiKind, aiDo, aiOpened, aiStatus, aiPc, aiHand, aiFilled, aiBuffer,
                   aiStream, aiAlloc, aiFreed, aiReads, aiWire, aiRead, aiDropped, aiWhy, aiStart>>

(* The frames in hand fill the packet; ret is what the last write gave, or *)
(* 0 if these frames completed no packet, and 0 ends the recording.        *)
audin_alsa_thread_receive ==
    LET c == IF aiHand < Packet - aiBuffer THEN aiHand ELSE Packet - aiBuffer IN
    /\ aiPc = "take"
    /\ \/ aiHand = 0 /\ aiFilled
          /\ aiPc' = "loop"
          /\ UNCHANGED <<aiStatus, aiQuits, aiHand, aiBuffer, aiAlloc, aiWire, aiDropped, aiWhy>>
       \/ aiHand = 0 /\ ~aiFilled /\ Leave("short")
       \/ aiHand > 0 /\ aiStop /\ ~aiFilled /\ Leave("told")
       \/ /\ aiHand > 0 /\ aiStop /\ aiFilled   \* ret is still the last write's
          /\ aiPc' = "loop" /\ aiDropped' = aiDropped + aiHand /\ aiHand' = 0
          /\ UNCHANGED <<aiStatus, aiQuits, aiBuffer, aiAlloc, aiWire, aiWhy>>
       \/ /\ aiHand > 0 /\ ~aiStop
          /\ aiHand' = aiHand - c /\ aiBuffer' = aiBuffer + c
          /\ aiPc' = IF aiBuffer + c >= Packet THEN "data" ELSE "take"
          /\ UNCHANGED <<aiStatus, aiQuits, aiAlloc, aiWire, aiDropped, aiWhy>>
    /\ UNCHANGED <<aiKind, aiDo, aiOpened, aiStop, aiFilled, aiStream, aiFreed, aiReads,
                   aiRead, aiStart>>

(* A full packet: announced and sent, unless the thread is to stop; the    *)
(* recording ends if that fails.                                           *)
audin_receive_wave_data ==
    /\ aiPc = "data"
    /\ \/ /\ aiPc' = "off" /\ aiStatus' = -1 /\ aiQuits' = aiQuits + 1
          /\ aiWhy' = (IF aiStop THEN "told" ELSE "failed") /\ aiAlloc' = FALSE
          /\ aiDropped' = aiDropped + aiHand + aiBuffer /\ aiHand' = 0 /\ aiBuffer' = 0
          /\ UNCHANGED <<aiFilled, aiWire>>
       \/ /\ ~aiStop
          /\ aiWire' = Append(aiWire, aiBuffer)
          /\ aiBuffer' = 0 /\ aiFilled' = TRUE /\ aiPc' = "take"
          /\ UNCHANGED <<aiStatus, aiQuits, aiWhy, aiAlloc, aiDropped, aiHand>>
    /\ UNCHANGED <<aiKind, aiDo, aiOpened, aiStop, aiStream, aiFreed, aiReads, aiRead, aiStart>>

(* PulseAudio calls back with its main loop locked: the frames fill q      *)
(* packets, which are sent, and the rest stays; or the next one cannot be  *)
(* sent, and is dropped with the frames behind it.                         *)
audin_pulse_stream_request_callback ==
    /\ aiStream /\ aiReads < MaxReads
    /\ \E n \in 1 .. 2 * Packet, q \in 0 .. 2 :
         /\ aiReads' = aiReads + 1 /\ aiRead' = aiRead + n
         /\ aiWire' = aiWire \o [k \in 1 .. q |-> Packet]
         /\ \/ /\ aiBuffer' = aiBuffer + n - q * Packet /\ aiBuffer' \in 0 .. Packet - 1
               /\ UNCHANGED aiDropped
            \/ /\ aiBuffer + n >= (q + 1) * Packet
               /\ aiBuffer' = 0 /\ aiDropped' = aiDropped + aiBuffer + n - q * Packet
    /\ UNCHANGED <<aiKind, aiDo, aiOpened, aiStatus, aiStop, aiPc, aiQuits, aiHand, aiFilled,
                   aiStream, aiAlloc, aiFreed, aiWhy, aiStart>>

AiNext ==
    \/ audin_process_open \/ audin_process_format_change \/ audin_on_close
    \/ audin_alsa_open \/ audin_pulse_open \/ PulseBuffer
    \/ audin_alsa_close \/ audin_pulse_close \/ Writes \/ FreeCallback
    \/ audin_alsa_thread_func \/ ThreadQuits \/ audin_alsa_thread_receive
    \/ audin_receive_wave_data \/ audin_pulse_stream_request_callback

AiSpec == AiInit /\ [][AiNext]_aiVars

-----------------------------------------------------------------------------
AiTypeOK ==
    /\ aiStatus \in {-1, 0, 1} /\ aiStop \in BOOLEAN /\ aiPc \in {"off", "loop", "take", "data"}
    /\ aiBuffer \in 0 .. Packet /\ aiHand \in 0 .. Packet /\ aiQuits \in Nat

(* Packets are full, and every frame read is sent, kept for the next       *)
(* packet, or dropped because recording was stopped.                       *)
FramesAccounted ==
    /\ \A k \in DOMAIN aiWire : aiWire[k] = Packet
    /\ aiRead = Len(aiWire) * Packet + aiBuffer + aiHand + aiDropped

(* Once the channel's callback is freed nobody records into it: Close has  *)
(* waited for the thread's status, and all an ended thread still does is   *)
(* clear its signal.                                                       *)
GoneWhenFreed == aiFreed => aiPc = "off" /\ ~aiStream

(* A recording goes on while it is wanted: it ends because it was told to, *)
(* because the device or the channel failed, because one read completed no *)
(* packet, or at once because an earlier Close's stop signal was still set.*)
RecordsWhileWanted ==
    aiPc = "off" /\ aiKind = "alsa" /\ aiOpened > 0 /\ aiDo = <<>> /\ ~aiFreed
        => aiWhy \in {"error", "short", "failed"} \/ aiStart

(* The stop signal is left over from a Close only if the thread had ended  *)
(* by itself, or has not yet got round to clearing it; a reopened device   *)
(* then records nothing.                                                   *)
LeftOverSignal ==
    aiStart' /\ ~aiStart => aiQuits > 0 \/ aiWhy \in {"error", "short", "failed"}

(* The packet buffer exists whenever frames may be gathered into it -      *)
(* except that PulseAudio may call back before Open has made it.           *)
BufferThere ==
    /\ aiPc # "off" => aiAlloc
    /\ aiStream => aiAlloc \/ Doing("buffer")

(* Audio input: frames recorded are sent, held or lost where named, nothing*)
(* records into a device that is freed, and recording goes on while the    *)
(* server wants it.                                                        *)
RecordingIsSafe ==
    /\ AiTypeOK /\ FramesAccounted /\ GoneWhenFreed
    /\ RecordsWhileWanted /\ BufferThere
=============================================================================
