----------------------------- MODULE MC_Devices -----------------------------
(***************************************************************************)
(* The redirected devices, the dynamic channels and the media on small     *)
(* instances.  Each behaviour is one of a single component, part, while    *)
(* the others stay in their initial states: the invariants of all are      *)
(* checked in one run.                                                     *)
(***************************************************************************)
EXTENDS RdpdrDevices, DiskFiles, Dvc, TsmfMedia, AudioInput

CONSTANTS Parts,      \* the components that behave
          p1, p2

VARIABLE part

MCKind == <<"disk", "printer", "scard">>
MCNames == <<<<"a">>, <<"d">>, <<"d", "a">>>>
MCBudgets == {[push |-> 2, ops |-> 2, does |-> {"start", "flush"}, places |-> 0],
              [push |-> 0, ops |-> 3, does |-> {"start", "stop"}, places |-> 0],
              [push |-> 1, ops |-> 3, does |-> {"start", "end", "remove"}, places |-> 0],
              [push |-> 1, ops |-> 2, does |-> {"start", "stop", "free"}, places |-> 1],
              [push |-> 2, ops |-> 1, does |-> {"start"}, places |-> 2]}

(* A component that does not behave starts in one of its initial states.   *)
DevicesInit ==
    /\ part \in Parts
    /\ RdInit /\ SeInit /\ DvInit
    /\ DfInit /\ (part = "disk" \/ dfTree = << >>)
    /\ TsInit /\ (part = "media" \/ tsBudget = CHOOSE b \in Budgets : TRUE)
    /\ AiInit /\ (part = "audin" \/ aiKind = "alsa")

Others(p) ==
    /\ p # "rdpdr" => UNCHANGED rdVars
    /\ p # "serial" => UNCHANGED seVars
    /\ p # "disk" => UNCHANGED dfvars
    /\ p # "drdynvc" => UNCHANGED dvVars
    /\ p # "media" => UNCHANGED tsVars
    /\ p # "audin" => UNCHANGED aiVars

OnlyOf(p) == part = p /\ UNCHANGED part /\ Others(p)

DevicesNext ==
    \/ OnlyOf("rdpdr") /\ RdNext
    \/ OnlyOf("serial") /\ SeNext
    \/ OnlyOf("disk") /\ DfNext
    \/ OnlyOf("drdynvc") /\ DvNext
    \/ OnlyOf("media") /\ TsNext
    \/ OnlyOf("audin") /\ AiNext

devicesVars == <<part, rdVars, seVars, dfvars, dvVars, tsVars, aiVars>>

DevicesSpec == DevicesInit /\ [][DevicesNext]_devicesVars

(* Serial requests are completed once, none is overlooked and a new mask   *)
(* cancels the wait; an open file keeps the name under which it is found.  *)
DriversAreSafe ==
    /\ SeTypeOK /\ DfTypeOK /\ SerialOnce
    /\ NoneOverlooked /\ MaskCancels /\ NameFollowsFile

(* A file is only ever removed when an open file was told so, and a stop   *)
(* signal is only ever left over by a thread that ended by itself.         *)
ChangesAreAsked ==
    [][OnlyAskedIsRemoved /\ LeftOverSignal]_<<dfvars, aiVars>>
=============================================================================
