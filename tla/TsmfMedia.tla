----------------------------- MODULE TsmfMedia -----------------------------
(***************************************************************************)
(* Playback of redirected video and audio in NeutrinoRDP                   *)
(* (channels/drdynvc/tsmf/tsmf_media.c): one presentation, a thread per    *)
(* stream that decodes, plays and acknowledges samples, and the thread of  *)
(* the channel, which pushes samples and starts, flushes, stops and frees. *)
(* An operation of the channel's thread is the sequence of its steps       *)
(* tsTodo, between any two of which the streams' threads may run.          *)
(*   freerdp_thread (libfreerdp-utils/thread.c): start, stop, quit         *)
(* Times are small numbers; when a queued acknowledgement is due, and how  *)
(* long a thread sleeps, is left open.                                     *)
(***************************************************************************)
EXTENDS Integers, Sequences, FiniteSets, SequencesExt, FiniteSetsExt

CONSTANTS
    Streams,        \* {"audio"}, {"video"} or both
    AUDIO_TOLERANCE,\* how far audio may be ahead of the other streams
    Latencies,      \* latencies of the audio device
    Budgets         \* bounds: samples pushed to a stream, operations and which,
                    \* places the video is moved to

Operations == {"start", "flush", "stop", "free", "remove", "end"}

ASSUME TsAssumption ==
    /\ Streams \subseteq {"audio", "video"}
    /\ AUDIO_TOLERANCE \in Nat /\ Latencies \subseteq Nat
    /\ Budgets \subseteq [push : Nat, ops : Nat, does : SUBSET Operations, places : Nat]

Sample == 1 .. Max({b.push : b \in Budgets}) * Cardinality(Streams)
NoSample == 0

VARIABLES
    tsBudget,  \* the bounds of this behaviour
    tsTodo,    \* what the channel's thread has still to do
    tsOps,     \* operations begun
    tsOf,      \* tsOf[k]: stream and end_time of sample k
    tsNumber,  \* samples pushed
    tsEndTime, \* end_time of the server's last sample, per stream
    tsList,    \* sample_list
    tsAckList, \* sample_ack_list
    tsLastEnd, \* last_end_time
    tsEos,     \* eos of the streams
    tsPEos,    \* eos of the presentation
    tsAudioEnd,\* audio_end_time
    tsStatus,  \* thread->status = 1
    tsSignal,  \* thread->signals[0]
    tsPc,      \* where the stream's thread is
    tsHand,    \* the sample it holds
    tsQuits,   \* an earlier thread has yet to clear signals[0]
    tsFreed,   \* streams freed
    tsOutput,  \* output_x, output_y, output_width, output_height
    tsShown,   \* last_x, ..., last_height
    tsAcked,   \* history: samples acknowledged, in that order
    tsDropped, \* history: samples flushed
    tsFailed,  \* history: samples that could not be decoded
    tsTold,    \* history: streams whose thread was told to stop
    tsEarly,   \* history: streams whose thread ended untold
    tsOverlap, \* history: streams started while the old thread was quitting
    tsDrawn,   \* history: places with a frame that was not redrawn
    tsCrossed  \* history: audio was flushed while a sample of it was playing

tsQueueVars  == <<tsOf, tsNumber, tsEndTime, tsList, tsAckList, tsHand>>
tsSyncVars   == <<tsLastEnd, tsEos, tsPEos, tsAudioEnd>>
tsThreadVars == <<tsStatus, tsSignal, tsPc, tsQuits, tsFreed>>
tsScreenVars == <<tsOutput, tsShown, tsDrawn>>
tsHistVars   == <<tsAcked, tsDropped, tsFailed, tsTold, tsEarly, tsOverlap, tsCrossed>>
tsVars == <<tsBudget, tsTodo, tsOps, tsQueueVars, tsSyncVars, tsThreadVars, tsScreenVars, tsHistVars>>

TsInit ==
    /\ tsBudget \in Budgets
    /\ tsTodo = <<>> /\ tsOps = 0
    /\ tsOf = [k \in Sample |-> [stream |-> "none", end |-> 0]] /\ tsNumber = 0
    /\ tsEndTime = [s \in Streams |-> 0]
    /\ tsList = [s \in Streams |-> <<>>] /\ tsAckList = [s \in Streams |-> <<>>]
    /\ tsHand = [s \in Streams |-> NoSample]
    /\ tsLastEnd = [s \in Streams |-> 0] /\ tsEos = [s \in Streams |-> FALSE]
    /\ tsPEos = FALSE /\ tsAudioEnd = 0
    /\ tsStatus = [s \in Streams |-> FALSE] /\ tsSignal = [s \in Streams |-> FALSE]
    /\ tsPc = [s \in Streams |-> "none"] /\ tsQuits = [s \in Streams |-> FALSE]
    /\ tsFreed = {} /\ tsOutput = 0 /\ tsShown = 0 /\ tsDrawn = {}
    /\ tsAcked = <<>> /\ tsDropped = {} /\ tsFailed = {}
    /\ tsTold = {} /\ tsEarly = {} /\ tsOverlap = {}
    /\ tsCrossed = FALSE

Live == Streams \ tsFreed
Free == tsTodo = <<>>      \* the channel's thread is between two messages

-----------------------------------------------------------------------------
(* The operations of the channel's thread.  stream_list is in the order    *)
(* the streams were added; here audio comes first.                         *)
InOrder(streams) == SetToSortSeq(streams, LAMBDA s, t : s = "audio" /\ t # s)
Steps(what, s) == [do |-> what, of |-> s]
ForEach(Does(_)) == FlattenSeq([k \in 1 .. Cardinality(Live) |-> Does(InOrder(Live)[k])])

tsmf_stream_start(s) == <<Steps("start", s)>>
tsmf_stream_stop(s)  == <<Steps("signal", s), Steps("wait", s)>>
tsmf_stream_flush(s) == <<Steps("drain", s), Steps("acks", s), Steps("reset", s)>>
(* Mutant: the stream is not stopped.                                      *)
tsmf_stream_free_running(s) == tsmf_stream_flush(s) \o <<Steps("remove", s)>>

tsmf_stream_free(s)  == tsmf_stream_stop(s) \o tsmf_stream_flush(s) \o <<Steps("remove", s)>>

tsmf_presentation_start == ForEach(tsmf_stream_start)
tsmf_presentation_flush == ForEach(tsmf_stream_flush) \o <<Steps("rewind", "all")>>
tsmf_presentation_stop ==
    tsmf_presentation_flush \o ForEach(tsmf_stream_stop) \o <<Steps("restore", "all")>>
tsmf_presentation_free == tsmf_presentation_stop \o ForEach(tsmf_stream_free)

Begin(what, steps) ==
    /\ what \in tsBudget.does
    /\ Free /\ tsOps < tsBudget.ops /\ Live # {}
    /\ tsTodo' = steps /\ tsOps' = tsOps + 1
    /\ UNCHANGED <<tsQueueVars, tsSyncVars, tsThreadVars, tsScreenVars, tsHistVars>>

Operation ==
    \/ Begin("start", tsmf_presentation_start)
    \/ Begin("flush", tsmf_presentation_flush)
    \/ Begin("stop", tsmf_presentation_stop)
    \/ Begin("free", tsmf_presentation_free)
    \/ \E s \in Live : Begin("remove", tsmf_stream_free(s))

(* ON_SAMPLE, and ON_END_OF_STREAM.                                        *)
tsmf_stream_push_sample(s) ==
    LET k == tsNumber + 1 IN
    /\ Free /\ s \in Live
    /\ Cardinality({j \in Sample : tsOf[j].stream = s}) < tsBudget.push
    /\ tsNumber' = k
    /\ tsEndTime' = [tsEndTime EXCEPT ![s] = @ + 1]
    /\ tsOf' = [tsOf EXCEPT ![k] = [stream |-> s, end |-> tsEndTime[s] + 1]]
    /\ tsList' = [tsList EXCEPT ![s] = Append(@, k)]
    /\ UNCHANGED <<tsTodo, tsOps, tsAckList, tsHand, tsSyncVars, tsThreadVars,
                   tsScreenVars, tsHistVars>>

tsmf_stream_end(s) ==
    /\ "end" \in tsBudget.does
    /\ Free /\ s \in Live /\ tsOps < tsBudget.ops /\ tsOps' = tsOps + 1
    /\ tsEos' = [tsEos EXCEPT ![s] = TRUE] /\ tsPEos' = TRUE
    /\ UNCHANGED <<tsTodo, tsQueueVars, tsLastEnd, tsAudioEnd, tsThreadVars,
                   tsScreenVars, tsHistVars>>

(* UPDATE_GEOMETRY_INFO.                                                   *)
tsmf_presentation_set_geometry_info(g) ==
    /\ Free /\ Live # {} /\ tsOutput # g
    /\ tsOutput' = g
    /\ UNCHANGED <<tsTodo, tsOps, tsQueueVars, tsSyncVars, tsThreadVars, tsShown,
                   tsDrawn, tsHistVars>>

-----------------------------------------------------------------------------
(* The steps of an operation.                                              *)
Step(what) == tsTodo # <<>> /\ Head(tsTodo).do = what /\ tsTodo' = Tail(tsTodo)
Of == Head(tsTodo).of

freerdp_thread_start ==
    /\ Step("start")
    /\ IF tsStatus[Of] THEN UNCHANGED <<tsThreadVars, tsTold, tsOverlap>>
       ELSE /\ tsStatus' = [tsStatus EXCEPT ![Of] = TRUE]
            /\ tsPc' = [tsPc EXCEPT ![Of] = "check"]
            /\ tsTold' = tsTold \ {Of}
            /\ tsOverlap' = IF tsQuits[Of] THEN tsOverlap \cup {Of} ELSE tsOverlap
            /\ UNCHANGED <<tsSignal, tsQuits, tsFreed>>
    /\ UNCHANGED <<tsOps, tsQueueVars, tsSyncVars, tsScreenVars, tsAcked,
                   tsDropped, tsFailed, tsEarly, tsCrossed>>

freerdp_thread_stop ==
    /\ Step("signal")
    /\ IF tsStatus[Of]
       THEN /\ tsSignal' = [tsSignal EXCEPT ![Of] = TRUE]
            /\ tsTold' = tsTold \cup {Of}
       ELSE UNCHANGED <<tsSignal, tsTold>>
    /\ UNCHANGED <<tsOps, tsQueueVars, tsSyncVars, tsStatus, tsPc, tsQuits, tsFreed,
                   tsScreenVars, tsAcked, tsDropped, tsFailed, tsEarly, tsOverlap, tsCrossed>>

(* The wait of freerdp_thread_stop, which gives up after 100 seconds; no   *)
(* step of a stream's thread takes as long.                                *)
StopWaits ==
    /\ Step("wait") /\ ~tsStatus[Of]
    /\ UNCHANGED <<tsOps, tsQueueVars, tsSyncVars, tsThreadVars, tsScreenVars, tsHistVars>>

(* tsmf_stream_flush, line by line: one sample at a time under the lock,   *)
(* then the acknowledgements without one, then the times.                  *)
FlushDrain ==
    /\ tsTodo # <<>> /\ Head(tsTodo).do = "drain"
    /\ IF tsList[Of] = <<>>
       THEN /\ tsTodo' = Tail(tsTodo)
            /\ UNCHANGED <<tsList, tsDropped, tsLastEnd>>
       ELSE /\ tsList' = [tsList EXCEPT ![Of] = Tail(@)]
            /\ tsDropped' = tsDropped \cup {Head(tsList[Of])}
            /\ tsLastEnd' = [tsLastEnd EXCEPT ![Of] = Max({@, tsOf[Head(tsList[Of])].end})]
            /\ UNCHANGED tsTodo
    /\ UNCHANGED <<tsOps, tsOf, tsNumber, tsEndTime, tsAckList, tsHand, tsEos, tsPEos,
                   tsAudioEnd, tsThreadVars, tsScreenVars, tsAcked, tsFailed,
                   tsTold, tsEarly, tsOverlap, tsCrossed>>

FlushAcks ==
    /\ Step("acks")
    /\ tsAckList' = [tsAckList EXCEPT ![Of] = <<>>]
    /\ tsDropped' = tsDropped \cup Range(tsAckList[Of])
    /\ UNCHANGED <<tsOps, tsOf, tsNumber, tsEndTime, tsList, tsHand, tsSyncVars,
                   tsThreadVars, tsScreenVars, tsAcked, tsFailed, tsTold, tsEarly, tsOverlap,
                   tsCrossed>>

FlushReset ==
    /\ Step("reset")
    /\ tsEos' = [tsEos EXCEPT ![Of] = FALSE]
    /\ tsLastEnd' = [tsLastEnd EXCEPT ![Of] = 0]
    /\ tsEndTime' = [tsEndTime EXCEPT ![Of] = 0]
    /\ tsAudioEnd' = IF Of = "audio" THEN 0 ELSE tsAudioEnd
    /\ tsCrossed' = (tsCrossed \/ (Of = "audio" /\ tsHand[Of] # NoSample))
    /\ UNCHANGED <<tsOps, tsOf, tsNumber, tsList, tsAckList, tsHand, tsPEos, tsThreadVars,
                   tsScreenVars, tsAcked, tsDropped, tsFailed, tsTold, tsEarly,
                   tsOverlap>>

Rewind ==
    /\ Step("rewind")
    /\ tsPEos' = FALSE /\ tsAudioEnd' = 0
    /\ UNCHANGED <<tsOps, tsQueueVars, tsLastEnd, tsEos, tsThreadVars, tsScreenVars, tsHistVars>>

(* The place of the last frame is redrawn and forgotten.                   *)
tsmf_presentation_restore_last_video_frame ==
    /\ Step("restore")
    /\ tsShown' = 0 /\ tsDrawn' = tsDrawn \ {tsShown}
    /\ UNCHANGED <<tsOps, tsQueueVars, tsSyncVars, tsThreadVars, tsOutput, tsHistVars>>

RemoveStream ==
    /\ Step("remove")
    /\ tsFreed' = tsFreed \cup {Of}
    /\ UNCHANGED <<tsOps, tsQueueVars, tsSyncVars, tsStatus, tsSignal, tsPc, tsQuits,
                   tsScreenVars, tsHistVars>>

-----------------------------------------------------------------------------
(* The thread of a stream.  Audio waits while another stream is behind it  *)
(* by more than the tolerance, video while it is ahead of the audio.       *)
Pending(s) ==
    IF s = "audio"
    THEN /\ tsLastEnd[s] > AUDIO_TOLERANCE
         /\ \E t \in Live \ {s} : /\ ~tsEos[t] /\ tsLastEnd[t] # 0
                                  /\ tsLastEnd[t] < tsLastEnd[s] - AUDIO_TOLERANCE
    ELSE tsLastEnd[s] > tsAudioEnd

Goes(s, from, to) == tsPc[s] = from /\ tsPc' = [tsPc EXCEPT ![s] = to]

(* Mutant: the stop signal is not looked at.                               *)
PlaybackCheck_deaf(s) ==
    /\ Goes(s, "check", "acks")
    /\ UNCHANGED <<tsTodo, tsOps, tsQueueVars, tsSyncVars, tsStatus, tsSignal, tsQuits,
                   tsFreed, tsScreenVars, tsHistVars>>

PlaybackCheck(s) ==
    /\ IF tsSignal[s]
       THEN Goes(s, "check", IF tsEos[s] \/ tsPEos THEN "last" ELSE "quit")
       ELSE Goes(s, "check", "acks")
    /\ UNCHANGED <<tsTodo, tsOps, tsQueueVars, tsSyncVars, tsStatus, tsSignal, tsQuits,
                   tsFreed, tsScreenVars, tsHistVars>>

(* One round of tsmf_stream_process_ack's loop.  It ends, and a sample is  *)
(* popped, when nothing is queued or due, or the thread is told to stop.   *)
tsmf_stream_process_ack(s) ==
    /\ Goes(s, "acks", "acks") /\ tsAckList[s] # <<>> /\ ~tsSignal[s]
    /\ tsAcked' = Append(tsAcked, Head(tsAckList[s]))
    /\ tsAckList' = [tsAckList EXCEPT ![s] = Tail(@)]
    /\ UNCHANGED <<tsTodo, tsOps, tsOf, tsNumber, tsEndTime, tsList, tsHand, tsSyncVars,
                      tsStatus, tsSignal, tsQuits, tsFreed, tsScreenVars, tsDropped,
                      tsFailed, tsTold, tsEarly, tsOverlap, tsCrossed>>

(* tsmf_stream_pop_sample: the sample is taken under the lock, its end     *)
(* time noted after it.  "last": the rest is played at the end of stream.  *)
tsmf_stream_pop_sample(s, pc, next, without) ==
    /\ IF tsList[s] = <<>> \/ Pending(s)
       THEN Goes(s, pc, without) /\ UNCHANGED <<tsList, tsHand>>
       ELSE /\ Goes(s, pc, next)
            /\ tsHand' = [tsHand EXCEPT ![s] = Head(tsList[s])]
            /\ tsList' = [tsList EXCEPT ![s] = Tail(@)]
    /\ UNCHANGED <<tsTodo, tsOps, tsOf, tsNumber, tsEndTime, tsAckList, tsSyncVars,
                   tsStatus, tsSignal, tsQuits, tsFreed, tsScreenVars, tsHistVars>>

PopNotes(s, pc, next) ==
    /\ Goes(s, pc, next)
    /\ tsLastEnd' = [tsLastEnd EXCEPT ![s] = Max({@, tsOf[tsHand[s]].end})]
    /\ UNCHANGED <<tsTodo, tsOps, tsQueueVars, tsEos, tsPEos, tsAudioEnd, tsStatus,
                   tsSignal, tsQuits, tsFreed, tsScreenVars, tsHistVars>>

(* tsmf_sample_playback.                                                   *)
tsmf_sample_playback_fails(s, pc, next) ==
    /\ Goes(s, pc, next)
    /\ tsAcked' = Append(tsAcked, tsHand[s]) /\ tsFailed' = tsFailed \cup {tsHand[s]}
    /\ tsHand' = [tsHand EXCEPT ![s] = NoSample]
    /\ UNCHANGED <<tsTodo, tsOps, tsOf, tsNumber, tsEndTime, tsList, tsAckList, tsSyncVars,
                   tsStatus, tsSignal, tsQuits, tsFreed, tsScreenVars, tsDropped,
                   tsTold, tsEarly, tsOverlap, tsCrossed>>

tsmf_sample_playback_video(s, pc, next) ==
    /\ Goes(s, pc, next) /\ s = "video"
    /\ tsShown' = tsOutput
    /\ tsDrawn' = (IF tsShown # tsOutput THEN tsDrawn \ {tsShown} ELSE tsDrawn)
                    \cup ({tsOutput} \ {0})
    /\ tsAcked' = Append(tsAcked, tsHand[s])
    /\ tsHand' = [tsHand EXCEPT ![s] = NoSample]
    /\ UNCHANGED <<tsTodo, tsOps, tsOf, tsNumber, tsEndTime, tsList, tsAckList, tsSyncVars,
                   tsStatus, tsSignal, tsQuits, tsFreed, tsOutput, tsDropped, tsFailed,
                   tsTold, tsEarly, tsOverlap, tsCrossed>>

tsmf_sample_playback_audio(s, pc, next, latency) ==
    /\ Goes(s, pc, next) /\ s = "audio"
    /\ tsLastEnd' = [tsLastEnd EXCEPT ![s] = tsOf[tsHand[s]].end + latency]
    /\ tsAudioEnd' = tsOf[tsHand[s]].end + latency
    /\ tsAckList' = [tsAckList EXCEPT ![s] = Append(@, tsHand[s])]
    /\ tsHand' = [tsHand EXCEPT ![s] = NoSample]
    /\ UNCHANGED <<tsTodo, tsOps, tsOf, tsNumber, tsEndTime, tsList, tsEos, tsPEos,
                   tsStatus, tsSignal, tsQuits, tsFreed, tsScreenVars, tsHistVars>>

tsmf_sample_playback(s, pc, next) ==
    \/ tsmf_sample_playback_fails(s, pc, next)
    \/ tsmf_sample_playback_video(s, pc, next)
    \/ \E latency \in Latencies : tsmf_sample_playback_audio(s, pc, next, latency)

(* freerdp_thread_quit: the status first, which lets a waiting stop go on, *)
(* then the signal.                                                        *)
QuitStatus(s) ==
    /\ Goes(s, "quit", "none")
    /\ tsStatus' = [tsStatus EXCEPT ![s] = FALSE]
    /\ tsQuits' = [tsQuits EXCEPT ![s] = TRUE]
    /\ tsEarly' = IF s \in tsTold THEN tsEarly ELSE tsEarly \cup {s}
    /\ UNCHANGED <<tsTodo, tsOps, tsQueueVars, tsSyncVars, tsSignal, tsFreed, tsScreenVars,
                   tsAcked, tsDropped, tsFailed, tsTold, tsOverlap, tsCrossed>>

QuitClears(s) ==
    /\ tsQuits[s]
    /\ tsQuits' = [tsQuits EXCEPT ![s] = FALSE]
    /\ tsSignal' = [tsSignal EXCEPT ![s] = FALSE]
    /\ UNCHANGED <<tsTodo, tsOps, tsQueueVars, tsSyncVars, tsStatus, tsPc, tsFreed,
                   tsScreenVars, tsHistVars>>

tsmf_stream_playback_func(s) ==
    \/ PlaybackCheck(s)
    \/ tsmf_stream_process_ack(s)
    \/ tsmf_stream_pop_sample(s, "acks", "popped", "check")
    \/ PopNotes(s, "popped", "play")
    \/ tsmf_sample_playback(s, "play", "check")
    \/ tsmf_stream_pop_sample(s, "last", "last popped", "quit")
    \/ PopNotes(s, "last popped", "last play")
    \/ tsmf_sample_playback(s, "last play", "last")
    \/ QuitStatus(s)

ChannelStep ==
    \/ freerdp_thread_start \/ freerdp_thread_stop \/ StopWaits
    \/ FlushDrain \/ FlushAcks \/ FlushReset \/ Rewind
    \/ tsmf_presentation_restore_last_video_frame \/ RemoveStream

TsStep ==
    \/ Operation \/ ChannelStep
    \/ \E s \in Streams : tsmf_stream_push_sample(s) \/ tsmf_stream_end(s)
    \/ \E g \in 1 .. tsBudget.places : tsmf_presentation_set_geometry_info(g)
    \/ \E s \in Streams : tsmf_stream_playback_func(s) \/ QuitClears(s)

TsNext == TsStep /\ UNCHANGED tsBudget

TsSpec == TsInit /\ [][TsNext]_tsVars

(* Every thread that can go on does.                                       *)
TsFairness ==
    /\ WF_tsVars(ChannelStep /\ UNCHANGED tsBudget)
    /\ \A s \in Streams : /\ WF_tsVars(tsmf_stream_playback_func(s) /\ UNCHANGED tsBudget)
                          /\ WF_tsVars(QuitClears(s) /\ UNCHANGED tsBudget)
TsFairSpec == TsSpec /\ TsFairness

-----------------------------------------------------------------------------
TsTypeOK ==
    /\ tsNumber \in {0} \cup Sample /\ tsOps \in 0 .. tsBudget.ops
    /\ \A s \in Streams :
        /\ Range(tsList[s]) \cup Range(tsAckList[s]) \subseteq Sample
        /\ tsHand[s] \in {NoSample} \cup Sample
        /\ tsLastEnd[s] \in Nat /\ tsStatus[s] \in BOOLEAN
        /\ (tsPc[s] = "none") = ~tsStatus[s]
    /\ tsAudioEnd \in Nat /\ tsFreed \subseteq Streams

(* Each sample is acknowledged or flushed exactly once, and until then it  *)
(* is in one place: pushed, flushed and played by different threads, none  *)
(* is lost or acknowledged twice.                                          *)
EachSampleOnce ==
    \A k \in 1 .. tsNumber :
        LET s == tsOf[k].stream
            Times(q) == Cardinality({i \in DOMAIN q : q[i] = k})
        IN  Times(tsList[s]) + Times(tsAckList[s]) + Times(tsAcked)
            + (IF tsHand[s] = k THEN 1 ELSE 0) + (IF k \in tsDropped THEN 1 ELSE 0) = 1

(* Samples of a stream are acknowledged in the order they came.  Only one  *)
(* that could not be decoded overtakes, because its acknowledgement is not *)
(* queued behind those of the samples still sounding.                      *)
AckedInOrder ==
    \A i, j \in DOMAIN tsAcked :
        (i < j /\ tsOf[tsAcked[i]].stream = tsOf[tsAcked[j]].stream
               /\ tsAcked[i] \notin tsFailed) => tsAcked[i] < tsAcked[j]

(* The streams never wait for each other, unless audio that could not be   *)
(* decoded was counted as played in last_end_time but not in               *)
(* audio_end_time, or the audio thread noted the times of a sample it had  *)
(* taken before a flush between the two resets of the flush: then both     *)
(* streams stand still.                                                    *)
Waits(s) == tsPc[s] \in {"check", "acks"} /\ tsList[s] # <<>> /\ Pending(s)
NoMutualWait ==
    (Streams = {"audio", "video"} /\ \A s \in Streams : Waits(s))
        => tsCrossed \/ \E k \in tsFailed : tsOf[k].stream = "audio"

(* A frame is left on the screen only where the presentation knows of it,  *)
(* however the server moves the video while its thread plays.              *)
FramesAreKnown == tsDrawn \subseteq {tsShown}

(* A stream is freed only after its thread has ended.                      *)
FreedWhenEnded == \A s \in tsFreed : tsPc[s] = "none" /\ tsHand[s] = NoSample

(* A stream's thread ends only when it is told to, unless it was started   *)
(* while its predecessor had not yet cleared the signal that ended it.     *)
EndsWhenTold == tsEarly \subseteq tsOverlap

(* Every start, flush, stop and free comes to its end: none waits for a    *)
(* thread that does not end.                                               *)
OperationsEnd == [](tsTodo # <<>> => <>(tsTodo = <<>>))

(* Media streams: samples are acknowledged once and in order, the streams  *)
(* do not wait for each other, and threads end when they are told and      *)
(* before what they use is freed, but in the named windows.                *)
StreamsAreSafe ==
    /\ TsTypeOK /\ EachSampleOnce /\ AckedInOrder
    /\ NoMutualWait /\ FramesAreKnown /\ FreedWhenEnded
    /\ EndsWhenTold
=============================================================================
