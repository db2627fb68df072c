------------------------------ MODULE ItemQueue ------------------------------
(***************************************************************************)
(* What the lists of the client promise: a sequence to which data is added *)
(* at the end, taken from the front, or removed wherever it first is, and  *)
(* what each call answers.                                                 *)
(***************************************************************************)
EXTENDS Integers, Sequences, SequencesExt

CONSTANT Data, None

VARIABLES items, answer

First(d) == CHOOSE i \in DOMAIN items : items[i] = d /\ \A j \in 1 .. i - 1 : items[j] # d
Has(d) == \E i \in DOMAIN items : items[i] = d

IqInit == items = <<>> /\ answer = None

Adds(d) == items' = Append(items, d) /\ answer' = None

Takes ==
    \/ items = <<>> /\ items' = items /\ answer' = None
    \/ items # <<>> /\ items' = Tail(items) /\ answer' = Head(items)

Removes(d) ==
    \/ ~Has(d) /\ items' = items /\ answer' = None
    \/ Has(d) /\ items' = RemoveAt(items, First(d)) /\ answer' = d

(* The datum behind the first d.                                           *)
Follows(d) ==
    /\ items' = items
    /\ answer' = IF Has(d) /\ First(d) < Len(items) THEN items[First(d) + 1] ELSE None

Counts == items' = items /\ answer' = Len(items)
Looks == items' = items /\ answer' = IF items = <<>> THEN None ELSE Head(items)
Empties == items' = <<>> /\ answer' = None

IqNext ==
    \/ Takes \/ Counts \/ Looks \/ Empties
    \/ \E d \in Data : Adds(d) \/ Removes(d) \/ Follows(d)

IqSpec == IqInit /\ [][IqNext]_<<items, answer>>
=============================================================================
