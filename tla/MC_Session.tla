----------------------------- MODULE MC_Session -----------------------------
(***************************************************************************)
(* The components of a remote desktop session on small instances.  Each    *)
(* behaviour is one of a single component, part, while the others stay in  *)
(* their initial states: the invariants of all are checked in one run.     *)
(***************************************************************************)
EXTENDS RdpConnection, SecurityKeys, Mppc, OrderCaches, GdiPaint, XfInput, RailWindows

CONSTANT Parts       \* the components that behave

VARIABLE part

MCHistory == [k8 |-> 4, k64 |-> 5]
MCTexts == {<<0, 1, 255, 0, 2>>, <<0, 1, 255, 1, 1>>, <<254, 0, 0, 1>>, <<1, 254, 1>>, <<0, 255, 0, 1, 254, 0>>}
MCOrders == {Rgn(-1, 0, 2, 1), Rgn(0, 0, 2, 2), Rgn(1, -1, 1, 3), Rgn(0, 1, 2, 1), Rgn(2, 0, 1, 1)}
MCPlaces == {Rect(0, 5), Rect(1, 5), Rect(1, 4)}

(* A component that does not behave starts in one of its initial states.   *)
SessionInit ==
    /\ part \in Parts
    /\ CnInit /\ (part = "connection" \/ cn = NewClient(0, {}))
    /\ NgInit /\ (part = "nego" \/ ngEnabled \union ngServer = {})
    /\ SkInit /\ (part = "keys" \/ (skMethod = 1 /\ ~skChecksum))
    /\ MpInit /\ (part = "mppc" \/ mpType = "k8")
    /\ OcInit /\ (part = "caches" \/ ocPart = "brush")
    /\ GdInit /\ (part = "paint" \/ gdDepth = 8)
    /\ XiInit /\ (part = "input" \/ ~xiApp)
    /\ RwInit /\ (part = "rail" \/ rwServer = CHOOSE r \in Places : TRUE)

Others(p) ==
    /\ p # "connection" => UNCHANGED cnVars
    /\ p # "nego" => UNCHANGED ngVars
    /\ p # "keys" => UNCHANGED skVars
    /\ p # "mppc" => UNCHANGED mpVars
    /\ p # "caches" => UNCHANGED ocVars
    /\ p # "paint" => UNCHANGED gdVars
    /\ p # "input" => UNCHANGED xiVars
    /\ p # "rail" => UNCHANGED rwVars

Of(p) == part = p /\ UNCHANGED part /\ Others(p)

SessionNext ==
    \/ Of("connection") /\ CnNext
    \/ Of("nego") /\ NgNext
    \/ Of("keys") /\ SkNext
    \/ Of("mppc") /\ MpNext
    \/ Of("caches") /\ OcNext
    \/ Of("paint") /\ GdNext
    \/ Of("input") /\ XiNext
    \/ Of("rail") /\ RwNext

sessionVars == <<part, cnVars, ngVars, skVars, mpVars, ocVars, gdVars, xiVars, rwVars>>

SessionSpec == SessionInit /\ [][SessionNext]_sessionVars

(* Client and server agree through negotiation, connection, licence,       *)
(* redirection and reactivation: on the protocol, on whether and with which*)
(* key stream they encrypt, on the channels joined, on the features, and on*)
(* being active.                                                           *)
ConnectionAgrees ==
    /\ CnTypeOK /\ NgTypeOK /\ ChannelsJoined
    /\ CryptAgreed /\ KeyStreamInStep /\ ActiveIsFinal
    /\ FeaturesAgreed /\ SameProtocol /\ CommonIsFound

(* The histories and caches of both sides hold the same: what is           *)
(* decompressed is what was sent, a cache index draws what was stored under*)
(* it, and every cached object is freed exactly once.                      *)
StoresAgree ==
    /\ MpTypeOK /\ OcTypeOK /\ OutputIsSent
    /\ PointersAgree /\ DrawsWhatIsMeant /\ FreedOnce
    /\ NothingLost /\ FragmentsAgree

(* What the user does and what the server believes agree once events have  *)
(* been taken: keys held, the lock keys, the places of windows.            *)
UserAgrees ==
    /\ XiTypeOK /\ RwTypeOK /\ NoKeyHangs
    /\ CapsLockAgrees /\ PlacesAgree
=============================================================================
