------------------------------ MODULE WaitObj ------------------------------
(***************************************************************************)
(* What libfreerdp-utils/wait_obj.c promises its users: a flag that any    *)
(* thread may set and that one thread (the one that sleeps on it) tests    *)
(* and clears.  Each call takes effect at one instant between its start    *)
(* and its return, as SetEvent, ResetEvent and WaitForSingleObject of the  *)
(* Windows build do.                                                       *)
(***************************************************************************)
CONSTANTS Setters      \* the threads that set the object

VARIABLES
    flag,      \* the object is set
    setting,   \* setting[p]: state of p's call of wait_obj_set
    clearing,  \* state of the consumer's call of wait_obj_clear
    seen       \* result of its last wait_obj_is_set

vars == <<flag, setting, clearing, seen>>

Calls == {"idle", "called", "done"}

Init ==
    /\ flag = FALSE /\ setting = [p \in Setters |-> "idle"]
    /\ clearing = "idle" /\ seen = FALSE

SetStep(p, from, to) ==
    /\ setting[p] = from /\ setting' = [setting EXCEPT ![p] = to]
    /\ UNCHANGED <<clearing, seen>>

SetCall(p)   == SetStep(p, "idle", "called") /\ UNCHANGED flag
SetDo(p)     == SetStep(p, "called", "done") /\ flag' = TRUE
SetReturn(p) == SetStep(p, "done", "idle") /\ UNCHANGED flag

ClearStep(from, to) ==
    clearing = from /\ clearing' = to /\ UNCHANGED <<setting, seen>>

ClearCall   == ClearStep("idle", "called") /\ UNCHANGED flag
ClearDo     == ClearStep("called", "done") /\ flag' = FALSE
ClearReturn == ClearStep("done", "idle") /\ UNCHANGED flag

Test ==
    clearing = "idle" /\ seen' = flag /\ UNCHANGED <<flag, setting, clearing>>

Next ==
    \/ \E p \in Setters : SetCall(p) \/ SetDo(p) \/ SetReturn(p)
    \/ ClearCall \/ ClearDo \/ ClearReturn \/ Test

Spec == Init /\ [][Next]_vars
=============================================================================
