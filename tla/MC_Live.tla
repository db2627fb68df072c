------------------------------- MODULE MC_Live -------------------------------
(***************************************************************************)
(* What must happen in the end, and the refinements, on small instances.   *)
(* Each behaviour is one of a single component, part, which is scheduled   *)
(* fairly, while the others stay in their initial states.                  *)
(***************************************************************************)
EXTENDS WaitObjPipe, LinkedList, RdpConnection, RailWindows, RdpdrDevices, TsmfMedia, Sound, Clipboard

CONSTANTS Parts,      \* the components that behave
          p1, p2, p3

VARIABLE part

MCAddress == 1 .. 3
MCData == {-1, -2}
MCPlaces == {Rect(0, 5), Rect(1, 5), Rect(1, 4)}
MCKind == <<"disk", "scard">>
MCOffers == {<<"pcm", "adpcm">>, <<"alaw", "pcm">>}
MCBudgets == {[push |-> 0, ops |-> 3, does |-> {"start", "stop"}, places |-> 0],
              [push |-> 1, ops |-> 2, does |-> {"start", "flush"}, places |-> 0]}

(* A component that does not behave starts in one of its initial states,   *)
(* in which its fairness demands nothing: nothing has begun.               *)
LiveInit ==
    /\ part \in Parts
    /\ Init /\ RdInit /\ SeInit /\ SdInit /\ CoInit /\ CiInit
    /\ LlInit /\ (part = "list" \/ ~llWindows)
    /\ NgInit /\ (part = "nego" \/ ngEnabled \union ngServer = {})
    /\ CnInit /\ (part = "connection" \/ cn = NewClient(0, {}))
    /\ RwInit /\ (part = "rail" \/ rwServer = CHOOSE r \in Places : TRUE)
    /\ TsInit /\ (part = "media" \/ tsBudget = CHOOSE b \in Budgets : TRUE)
    /\ PdInit /\ (part = "pulse" \/ pdPlugin = "tsmf")

Others(p) ==
    /\ p # "waitobj" => UNCHANGED vars
    /\ p # "list" => UNCHANGED llVars
    /\ p # "nego" => UNCHANGED ngVars
    /\ p # "connection" => UNCHANGED cnVars
    /\ p # "rail" => UNCHANGED rwVars
    /\ p # "rdpdr" => UNCHANGED rdVars
    /\ p # "serial" => UNCHANGED seVars
    /\ p # "media" => UNCHANGED tsVars
    /\ p # "rdpsnd" => UNCHANGED sdVars
    /\ p # "pulse" => UNCHANGED pdVars
    /\ p # "copy" => UNCHANGED coVars
    /\ p # "paste" => UNCHANGED ciVars

OnlyOf(p) == part = p /\ UNCHANGED part /\ Others(p)

LiveNext ==
    \/ OnlyOf("waitobj") /\ Next
    \/ OnlyOf("list") /\ LlNext
    \/ OnlyOf("nego") /\ NgNext
    \/ OnlyOf("connection") /\ CnNext
    \/ OnlyOf("rail") /\ RwNext
    \/ OnlyOf("rdpdr") /\ RdNext
    \/ OnlyOf("serial") /\ SeNext
    \/ OnlyOf("media") /\ TsNext
    \/ OnlyOf("rdpsnd") /\ SdNext
    \/ OnlyOf("pulse") /\ PdNext
    \/ OnlyOf("copy") /\ CoNext
    \/ OnlyOf("paste") /\ CiNext

liveVars ==
    <<part, vars, llVars, ngVars, cnVars, rwVars, rdVars, seVars, tsVars, sdVars, pdVars, coVars, ciVars>>

LiveFairness ==
    /\ NgFairness /\ CnFairness /\ RwFairness /\ RdFairness /\ SeFairness /\ TsFairness
    /\ SdFairness /\ PdFairness /\ CoFairness /\ CiFairness

LiveSpec == LiveInit /\ [][LiveNext]_liveVars /\ LiveFairness

(* Everything begun comes to its end: negotiation, connection, local moves,*)
(* requests of devices, the end of their channel, operations of media      *)
(* streams, confirmations of waves, calls of PulseAudio and both directions*)
(* of the clipboard.                                                       *)
WaitsEnd ==
    /\ NegoEnds /\ ConnectEnds /\ LocalMoveEnds
    /\ ListedIsTaken /\ ChannelEnds /\ LoneIsAnswered
    /\ OperationsEnd /\ AllConfirmed /\ PulseCallsReturn
    /\ ProgramsAreAnswered /\ PasteIsAnswered

(* Nothing is missed where threads or programs hand over: the pipe of a    *)
(* wait object neither fills nor blocks its reader, the links of a list    *)
(* agree, no caller of PulseAudio sleeps through its wake-up, and the      *)
(* server gets whole answers and true offers from the X clipboard.         *)
NothingIsMissed ==
    /\ PipeNeverFull /\ ReadNeverBlocks /\ LlTypeOK
    /\ LinksAgree /\ PdTypeOK /\ NobodySleepsThrough
    /\ CiTypeOK /\ AnswerIsWhole /\ OfferIsTrue
=============================================================================
