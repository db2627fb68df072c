---------------------------- MODULE WaitObjPipe ----------------------------
(***************************************************************************)
(* libfreerdp-utils/wait_obj.c on POSIX systems: the object is a pipe, set *)
(* while there is something to read.  Setting is a test followed by a      *)
(* write of four bytes, clearing a loop of tests and reads of four bytes;  *)
(* several setters and the consumer interleave between those system calls. *)
(***************************************************************************)
EXTENDS Naturals, FiniteSets

CONSTANTS Setters      \* threads that call wait_obj_set; one more clears

ASSUME SettersAssumption == IsFiniteSet(Setters)

VARIABLES
    pipe,   \* number of four-byte tokens in the pipe
    spc,    \* spc[p]: where p is in wait_obj_set
    cpc,    \* where the consumer is in wait_obj_clear; "recheck" is the
            \* loop's test after a read
    seen    \* result of the consumer's last wait_obj_is_set

vars == <<pipe, spc, cpc, seen>>

(* wait_obj_new: an empty pipe.                                            *)
Init ==
    /\ pipe = 0 /\ spc = [p \in Setters |-> "idle"]
    /\ cpc = "idle" /\ seen = FALSE

(* select reports the read end as ready.                                   *)
is_set == pipe # 0

SetterTo(p, l) == spc' = [spc EXCEPT ![p] = l] /\ UNCHANGED <<cpc, seen>>

set_call(p) == spc[p] = "idle" /\ SetterTo(p, "check") /\ UNCHANGED pipe

set_check(p) ==
    /\ spc[p] = "check"
    /\ SetterTo(p, IF is_set THEN "return" ELSE "write")
    /\ UNCHANGED pipe

set_write(p) ==
    /\ spc[p] = "write" /\ pipe' = pipe + 1
    /\ SetterTo(p, "return")

set_return(p) == spc[p] = "return" /\ SetterTo(p, "idle") /\ UNCHANGED pipe

clear_call == cpc = "idle" /\ cpc' = "check" /\ UNCHANGED <<pipe, spc, seen>>

clear_check ==
    /\ cpc \in {"check", "recheck"}
    /\ cpc' = IF is_set THEN "read" ELSE "return"
    /\ UNCHANGED <<pipe, spc, seen>>

(* Mutant: one read instead of a loop.                                     *)
clear_read_once ==
    /\ cpc = "read" /\ pipe > 0
    /\ pipe' = pipe - 1 /\ cpc' = "return"
    /\ UNCHANGED <<spc, seen>>

(* The read blocks while the pipe is empty.                                *)
clear_read ==
    /\ cpc = "read" /\ pipe > 0
    /\ pipe' = pipe - 1 /\ cpc' = "recheck"
    /\ UNCHANGED <<spc, seen>>

clear_return == cpc = "return" /\ cpc' = "idle" /\ UNCHANGED <<pipe, spc, seen>>

wait_obj_is_set ==
    cpc = "idle" /\ seen' = is_set /\ UNCHANGED <<pipe, spc, cpc>>

Next ==
    \/ \E p \in Setters :
          set_call(p) \/ set_check(p) \/ set_write(p) \/ set_return(p)
    \/ clear_call \/ clear_check \/ clear_read \/ clear_return
    \/ wait_obj_is_set

Spec == Init /\ [][Next]_vars

-----------------------------------------------------------------------------
(* Type correctness.                                                       *)
TypeOK ==
    /\ pipe \in Nat
    /\ spc \in [Setters -> {"idle", "check", "write", "return"}]
    /\ cpc \in {"idle", "check", "read", "recheck", "return"}
    /\ seen \in BOOLEAN

(* wait_obj_set never fills the pipe: it holds at most one token of each   *)
(* setter, so its write cannot block the caller.                           *)
PipeNeverFull == pipe <= Cardinality(Setters)

(* wait_obj_clear never blocks in read: its test was right, since nobody   *)
(* else reads from the pipe.                                               *)
ReadNeverBlocks == cpc = "read" => pipe > 0

(* The pipe behaves like an atomic flag.  A set takes effect with its      *)
(* successful test or its write; a clear with the test that ends its loop, *)
(* so while the loop runs the flag counts as set.                          *)
flag == is_set \/ cpc = "recheck"

setting == [p \in Setters |->
    IF spc[p] = "idle" THEN "idle"
    ELSE IF spc[p] = "return" THEN "done" ELSE "called"]

clearing ==
    IF cpc = "idle" THEN "idle" ELSE IF cpc = "return" THEN "done" ELSE "called"

WO == INSTANCE WaitObj WITH flag <- flag, setting <- setting, clearing <- clearing

(* Every call of the pipe's operations has the effect wait_obj.h's users   *)
(* rely on.                                                                *)
AtomicFlag == WO!Spec
=============================================================================
