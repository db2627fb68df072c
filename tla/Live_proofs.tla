---------------------------- MODULE Live_proofs -----------------------------
(***************************************************************************)
(* Proofs about two parts of a live session.  The wait object              *)
(* (WaitObjPipe), for any finite set of setters: the pipe never fills, the *)
(* read never blocks, and the pipe implements the atomic flag of WaitObj.  *)
(* The sound channel (Sound), for any offers of formats, any delay and any *)
(* number of waves.                                                        *)
(***************************************************************************)
EXTENDS WaitObjPipe, Sound, FiniteSetTheorems, TLAPS

(* The wait object.                                                        *)

(* The setters that found the pipe empty and are about to write.           *)
Writers == {p \in Setters : spc[p] = "write"}

(* A token is in the pipe or on its way: together they are at most one for *)
(* each setter.  A setter that joins the writers found the pipe empty.     *)
IInv ==
    /\ TypeOK
    /\ ReadNeverBlocks
    /\ pipe + Cardinality(Writers) <= Cardinality(Setters)

(* The cardinality of any set of setters is a number, at most that of all. *)
LEMMA SubsetCard ==
    ASSUME NEW S \in SUBSET Setters
    PROVE  /\ IsFiniteSet(S) /\ Cardinality(S) \in Nat
           /\ Cardinality(S) <= Cardinality(Setters)
           /\ Cardinality(Setters) \in Nat
  BY SettersAssumption, FS_Subset, FS_CardinalityType

(* wait_obj_new establishes the invariant.                                 *)
LEMMA InitIInv == Init => IInv
<1> SUFFICES ASSUME Init PROVE IInv
  OBVIOUS
<1>1. TypeOK /\ ReadNeverBlocks
  BY DEF Init, TypeOK, ReadNeverBlocks
<1>2. Writers = {}
  BY DEF Init, Writers
<1>3. Cardinality(Writers) = 0
  BY <1>2, FS_EmptySet
<1>4. Cardinality(Setters) \in Nat
  BY SubsetCard
<1> QED
  BY <1>1, <1>3, <1>4 DEF IInv, Init

(* Every system call of a setter or of the consumer preserves it.          *)
LEMMA NextIInv == IInv /\ [Next]_vars => IInv'
<1> SUFFICES ASSUME IInv, [Next]_vars PROVE IInv'
  OBVIOUS
<1> USE DEF IInv, TypeOK, ReadNeverBlocks
<1>a. /\ Writers \in SUBSET Setters /\ Writers' \in SUBSET Setters
      /\ Cardinality(Writers) \in Nat /\ Cardinality(Setters) \in Nat
  BY SubsetCard DEF Writers
<1>b. /\ Cardinality(Writers') \in Nat
      /\ Cardinality(Writers') <= Cardinality(Setters)
  BY <1>a, SubsetCard
<1>1. ASSUME NEW p \in Setters, set_call(p) \/ set_return(p) PROVE IInv'
  <2>1. Writers' = Writers
    BY <1>1 DEF set_call, set_return, SetterTo, Writers
  <2> QED
    BY <1>1, <2>1 DEF set_call, set_return, SetterTo
<1>2. ASSUME NEW p \in Setters, set_check(p), is_set PROVE IInv'
  <2>1. Writers' = Writers
    BY <1>2 DEF set_check, SetterTo, Writers
  <2> QED
    BY <1>2, <2>1 DEF set_check, SetterTo
<1>3. ASSUME NEW p \in Setters, set_check(p), ~is_set PROVE IInv'
  <2>1. pipe' = 0
    BY <1>3 DEF set_check, is_set
  <2> QED
    BY <1>3, <1>b, <2>1 DEF set_check, SetterTo, is_set
<1>4. ASSUME NEW p \in Setters, set_write(p) PROVE IInv'
  <2>1. p \in Writers /\ Writers' = Writers \ {p}
    BY <1>4 DEF set_write, SetterTo, Writers
  <2>2. Cardinality(Writers') = Cardinality(Writers) - 1
    BY <1>a, <2>1, SubsetCard, FS_RemoveElement
  <2> QED
    BY <1>4, <1>a, <2>2 DEF set_write, SetterTo
<1>5. ASSUME clear_call \/ clear_check \/ clear_return \/ wait_obj_is_set
      PROVE  IInv'
  <2>1. Writers' = Writers
    BY <1>5 DEF clear_call, clear_check, clear_return, wait_obj_is_set, Writers
  <2>2. seen' \in BOOLEAN
    BY <1>5, Zenon
    DEF clear_call, clear_check, clear_return, wait_obj_is_set, is_set
  <2>3. pipe' = pipe /\ spc' = spc
    BY <1>5 DEF clear_call, clear_check, clear_return, wait_obj_is_set
  <2>4. /\ cpc' \in {"idle", "check", "read", "recheck", "return"}
        /\ cpc' = "read" => pipe > 0
    BY <1>5 DEF clear_call, clear_check, clear_return, wait_obj_is_set, is_set
  <2> QED
    BY <2>1, <2>2, <2>3, <2>4
<1>6. ASSUME clear_read PROVE IInv'
  <2>1. Writers' = Writers
    BY <1>6 DEF clear_read, Writers
  <2> QED
    BY <1>6, <1>a, <2>1 DEF clear_read
<1>7. ASSUME UNCHANGED vars PROVE IInv'
  <2>1. Writers' = Writers
    BY <1>7 DEF vars, Writers
  <2> QED
    BY <1>7, <2>1 DEF vars
<1> QED
  BY <1>1, <1>2, <1>3, <1>4, <1>5, <1>6, <1>7 DEF Next

(* The inductive invariant holds in every reachable state.                 *)
LEMMA Invariance == Spec => []IInv
  BY InitIInv, NextIInv, PTL DEF Spec

(* The pipe's contents and the threads' positions stay in their types.     *)
THEOREM TypeCorrect == Spec => []TypeOK
<1>1. IInv => TypeOK
  BY DEF IInv
<1> QED
  BY <1>1, Invariance, PTL

(* However many threads set the object at once, wait_obj_set leaves at     *)
(* most one token of each in the pipe: its write never waits for room.     *)
THEOREM NeverFull == Spec => []PipeNeverFull
<1>1. IInv => PipeNeverFull
  <2>1. Cardinality(Writers) \in Nat /\ Cardinality(Setters) \in Nat
    BY SubsetCard DEF Writers
  <2> QED
    BY <2>1 DEF IInv, TypeOK, PipeNeverFull
<1> QED
  BY <1>1, Invariance, PTL

(* wait_obj_clear's read always finds a token.                             *)
THEOREM NeverBlocks == Spec => []ReadNeverBlocks
<1>1. IInv => ReadNeverBlocks
  BY DEF IInv
<1> QED
  BY <1>1, Invariance, PTL

(* An empty pipe is a flag that is not set.                                *)
LEMMA InitFlag == Init => WO!Init
  BY DEF Init, WO!Init, flag, setting, clearing, is_set

(* Every step of the pipe is a step of the flag or leaves it alone.        *)
LEMMA StepFlag == IInv /\ [Next]_vars => [WO!Next]_(WO!vars)
<1> SUFFICES ASSUME IInv, [Next]_vars PROVE WO!Next \/ UNCHANGED WO!vars
  OBVIOUS
<1> USE DEF IInv, TypeOK, ReadNeverBlocks
<1>1. ASSUME NEW p \in Setters, set_call(p) PROVE WO!SetCall(p)
  BY <1>1 DEF set_call, SetterTo, WO!SetCall, WO!SetStep, flag, setting,
              clearing, is_set
<1>2. ASSUME NEW p \in Setters, set_check(p), is_set PROVE WO!SetDo(p)
  BY <1>2 DEF set_check, SetterTo, WO!SetDo, WO!SetStep, flag, setting,
              clearing, is_set
<1>3. ASSUME NEW p \in Setters, set_check(p), ~is_set PROVE UNCHANGED WO!vars
  BY <1>3 DEF set_check, SetterTo, WO!vars, flag, setting, clearing, is_set
<1>4. ASSUME NEW p \in Setters, set_write(p) PROVE WO!SetDo(p)
  <2>1. pipe' > 0
    BY <1>4 DEF set_write
  <2>2. flag' = TRUE
    BY <2>1 DEF flag, is_set
  <2> QED
    BY <1>4, <2>2 DEF set_write, SetterTo, WO!SetDo, WO!SetStep, setting,
                      clearing
<1>5. ASSUME NEW p \in Setters, set_return(p) PROVE WO!SetReturn(p)
  BY <1>5 DEF set_return, SetterTo, WO!SetReturn, WO!SetStep, flag, setting,
              clearing, is_set
<1>6. ASSUME clear_call PROVE WO!ClearCall
  BY <1>6 DEF clear_call, WO!ClearCall, WO!ClearStep, flag, setting, clearing,
              is_set
<1>7. ASSUME clear_check, is_set PROVE UNCHANGED WO!vars
  BY <1>7 DEF clear_check, WO!vars, flag, setting, clearing, is_set
<1>8. ASSUME clear_check, ~is_set PROVE WO!ClearDo
  BY <1>8 DEF clear_check, WO!ClearDo, WO!ClearStep, flag, setting, clearing,
              is_set
<1>9. ASSUME clear_read PROVE UNCHANGED WO!vars
  BY <1>9 DEF clear_read, WO!vars, flag, setting, clearing, is_set
<1>10. ASSUME clear_return PROVE WO!ClearReturn
  BY <1>10 DEF clear_return, WO!ClearReturn, WO!ClearStep, flag, setting,
               clearing, is_set
<1>11. ASSUME wait_obj_is_set PROVE WO!Test
  BY <1>11 DEF wait_obj_is_set, WO!Test, flag, setting, clearing, is_set
<1>12. ASSUME UNCHANGED vars PROVE UNCHANGED WO!vars
  BY <1>12 DEF vars, WO!vars, flag, setting, clearing, is_set
<1> QED
  BY <1>1, <1>2, <1>3, <1>4, <1>5, <1>6, <1>7, <1>8, <1>9, <1>10, <1>11, <1>12
  DEF Next, WO!Next

(* wait_obj.c's test-then-write and its loop of reads implement an atomic  *)
(* flag for every number of setters: no set is lost, no clear leaves the   *)
(* object set by an earlier call.                                          *)
THEOREM Refinement == Spec => AtomicFlag
  BY InitFlag, StepFlag, Invariance, PTL DEF Spec, AtomicFlag, WO!Spec

-----------------------------------------------------------------------------
(* The sound channel.                                                      *)

Item == [block : Wave, at : Nat]
Blocks(s) == [k \in DOMAIN s |-> s[k].block]

SdTypes ==
    /\ sdExpecting \in BOOLEAN /\ sdIsOpen \in BOOLEAN /\ sdInterval \in BOOLEAN
    /\ sdOver \in BOOLEAN /\ sdStale \in BOOLEAN
    /\ sdBlock \in 0 .. MaxWaves /\ sdNow \in 0 .. MaxTime /\ sdStamp \in 0 .. sdNow
    /\ sdOut \in Seq(Item) /\ sdWhole \in Seq(Wave) /\ sdConfirmed \in Seq(Wave)
    /\ \E V : sdMeant \in Seq(V)
    /\ Len(sdMeant) <= MaxWaves /\ sdPlayed = [w \in Wave |-> sdPlayed[w]]
    /\ sdOver => sdOut = <<>>

(* The device is set to the format the current index stands for, and the   *)
(* wave that is expected was meant for that format, until formats are      *)
(* negotiated while it is open.                                            *)
InFormat ==
    ~sdOver /\ ~sdStale =>
      /\ sdIsOpen => sdDevice \in {sdFormats[sdCurrent], "closed"}
      /\ sdExpecting => sdIsOpen /\ sdMeant[sdBlock] = sdFormats[sdCurrent]

(* The wave that is expected is the last one announced, and those to come  *)
(* have not been played.                                                   *)
LastMeant ==
    /\ sdExpecting => sdBlock = Len(sdMeant) /\ sdBlock > 0
    /\ \A w \in Wave : w > Len(sdMeant) => sdPlayed[w] = "not"

SdIInv ==
    SdTypes /\ InFormat /\ LastMeant /\ PlayedAsMeant /\ ConfirmedInOrder /\ IntervalRuns

(* Sequences with the same items are the same.                             *)
LEMMA ItemByItem ==
    ASSUME NEW V, NEW s \in Seq(V), NEW t \in Seq(V),
           Len(s) = Len(t), \A i \in 1 .. Len(s) : s[i] = t[i]
    PROVE  s = t
    OBVIOUS

(* The length and the items of two sequences that are joined.              *)
LEMMA Joined ==
    ASSUME NEW V, NEW s \in Seq(V), NEW t \in Seq(V)
    PROVE  /\ s \o t \in Seq(V) /\ Len(s \o t) = Len(s) + Len(t)
           /\ \A i \in 1 .. Len(s) + Len(t) :
                 (s \o t)[i] = IF i <= Len(s) THEN s[i] ELSE t[i - Len(s)]
    OBVIOUS

(* Appending an item joins a sequence of one.                              *)
LEMMA AppendJoins ==
    ASSUME NEW V, NEW s \in Seq(V), NEW e \in V
    PROVE  Append(s, e) = s \o <<e>>
    OBVIOUS

(* A sequence over a set is one over any larger set.                       *)
LEMMA OverMore ==
    ASSUME NEW V, NEW T, NEW s \in Seq(V), V \subseteq T
    PROVE  s \in Seq(T)
    OBVIOUS

USE SdAssumption

(* Nothing has been offered or announced at the beginning.                 *)
LEMMA SdInitIInv == SdInit => SdIInv
<1> SUFFICES ASSUME SdInit PROVE SdIInv
    OBVIOUS
<1>1. /\ sdOut \in Seq(Item) /\ sdWhole \in Seq(Wave) /\ sdConfirmed \in Seq(Wave)
      /\ sdMeant \in Seq({}) /\ Len(sdMeant) = 0 /\ DOMAIN sdMeant = {} /\ DOMAIN sdOut = {}
    BY DEF SdInit
<1>2. SdTypes
    <2>1. sdPlayed = [w \in Wave |-> sdPlayed[w]]
        BY DEF SdInit
    <2>2. \E V : sdMeant \in Seq(V)
        BY <1>1
    <2>3. sdBlock \in 0 .. MaxWaves /\ sdNow \in 0 .. MaxTime /\ sdStamp \in 0 .. sdNow
        BY DEF SdInit
    <2>4. Len(sdMeant) <= MaxWaves
        BY <1>1
    <2>. QED BY <1>1, <2>1, <2>2, <2>3, <2>4 DEF SdInit, SdTypes
<1>3. InFormat /\ LastMeant /\ PlayedAsMeant /\ IntervalRuns
    BY <1>1 DEF SdInit, InFormat, LastMeant, PlayedAsMeant, IntervalRuns
<1>4. ConfirmedInOrder
    <2>1. [k \in DOMAIN sdOut |-> sdOut[k].block] = <<>>
        BY <1>1
    <2>2. <<>> \o <<>> = <<>>
        OBVIOUS
    <2>. QED BY <2>1, <2>2 DEF SdInit, ConfirmedInOrder
<1>. QED BY <1>2, <1>3, <1>4 DEF SdIInv

(* New formats: nothing of the device changes, and if it is open its       *)
(* format is no longer known to be the one meant.                          *)
LEMMA FormatsIInv ==
    ASSUME SdIInv, NEW offer, rdpsnd_process_message_formats(offer) PROVE SdIInv'
<1> USE DEF rdpsnd_process_message_formats, SdReceives
<1>1. SdTypes'
    BY DEF SdIInv, SdTypes
<1>2. InFormat' /\ LastMeant'
    BY DEF SdIInv, SdTypes, InFormat, LastMeant
<1>3. PlayedAsMeant' /\ ConfirmedInOrder' /\ IntervalRuns'
    BY DEF SdIInv, SdTypes, PlayedAsMeant, ConfirmedInOrder, IntervalRuns
<1>. QED BY <1>1, <1>2, <1>3 DEF SdIInv

(* A wave is announced with the index of its format.                       *)
LEMMA WaveInfoIInv ==
    ASSUME SdIInv, NEW no, rdpsnd_process_message_wave_info(no) PROVE SdIInv'
<1> USE DEF rdpsnd_process_message_wave_info, SdReceives
<1> DEFINE n == Len(sdMeant)
<1>1. PICK V : sdMeant \in Seq(V)
    BY DEF SdIInv, SdTypes
<1>2. sdMeant \in Seq(V \union {sdFormats[no]})
    BY <1>1, OverMore
<1>3. /\ sdMeant' \in Seq(V \union {sdFormats[no]}) /\ n \in Nat /\ Len(sdMeant') = n + 1
      /\ sdMeant'[n + 1] = sdFormats[no] /\ DOMAIN sdMeant' = 1 .. n + 1 /\ DOMAIN sdMeant = 1 .. n
      /\ \A w \in 1 .. n : sdMeant'[w] = sdMeant[w]
    BY <1>2
<1>4. n + 1 \in Wave /\ sdBlock' = n + 1
    BY <1>3 DEF Wave
<1>5. SdTypes'
    <2>1. sdBlock' \in 0 .. MaxWaves /\ Len(sdMeant') <= MaxWaves
        BY <1>3, <1>4 DEF Wave
    <2>2. \E W : sdMeant' \in Seq(W)
        BY <1>3
    <2>. QED BY <2>1, <2>2 DEF SdIInv, SdTypes
<1>6. InFormat'
    <2>1. ~sdStale /\ ~sdOver => sdDevice' \in {sdFormats[no], "closed"}
        BY DEF SdIInv, InFormat, DeviceSet
    <2>. QED BY <1>3, <1>4, <2>1 DEF InFormat
<1>7. LastMeant'
    BY <1>3, <1>4 DEF SdIInv, LastMeant, Wave
<1>8. PlayedAsMeant'
    <2>1. sdPlayed[n + 1] = "not"
        BY <1>3, <1>4 DEF SdIInv, LastMeant
    <2>. QED BY <1>3, <2>1 DEF SdIInv, PlayedAsMeant
<1>9. ConfirmedInOrder' /\ IntervalRuns'
    BY DEF SdIInv, ConfirmedInOrder, IntervalRuns
<1>. QED BY <1>5, <1>6, <1>7, <1>8, <1>9 DEF SdIInv

(* Concatenation of lists of waves is associative.                         *)
LEMMA Associates ==
    ASSUME NEW x \in Seq(Wave), NEW y \in Seq(Wave), NEW z \in Seq(Wave)
    PROVE  (x \o y) \o z = x \o (y \o z)
<1> DEFINE l == (x \o y) \o z
           r == x \o (y \o z)
<1>1. /\ x \o y \in Seq(Wave) /\ y \o z \in Seq(Wave) /\ l \in Seq(Wave) /\ r \in Seq(Wave)
      /\ Len(x) \in Nat /\ Len(y) \in Nat /\ Len(z) \in Nat
    OBVIOUS
<1>2. Len(x \o y) = Len(x) + Len(y) /\ Len(y \o z) = Len(y) + Len(z)
    OBVIOUS
<1>3. Len(l) = Len(x) + Len(y) + Len(z) /\ Len(r) = Len(x) + Len(y) + Len(z)
    BY <1>1, <1>2
<1>4. \A i \in 1 .. Len(l) : l[i] = r[i]
    BY <1>1, <1>2, <1>3
<1>. QED BY <1>1, <1>3, <1>4, ItemByItem

(* So is appending one to the second of two lists.                         *)
LEMMA AppendAssociates ==
    ASSUME NEW x \in Seq(Wave), NEW y \in Seq(Wave), NEW e \in Wave
    PROVE  Append(x \o y, e) = x \o Append(y, e)
<1>1. <<e>> \in Seq(Wave)
    OBVIOUS
<1>2. Append(y, e) = y \o <<e>>
    BY AppendJoins
<1>3. x \o y \in Seq(Wave)
    OBVIOUS
<1>4. Append(x \o y, e) = (x \o y) \o <<e>>
    BY <1>3, AppendJoins
<1>. QED BY <1>1, <1>2, <1>4, Associates

(* A block appended to the list is appended to the blocks owed.            *)
LEMMA BlocksAppend ==
    ASSUME NEW s \in Seq(Item), NEW e \in Item
    PROVE  Blocks(s) \in Seq(Wave) /\ Blocks(Append(s, e)) = Append(Blocks(s), e.block)
<1> DEFINE t == Append(s, e)
<1>1. t \in Seq(Item) /\ Len(t) = Len(s) + 1 /\ Len(s) \in Nat
    OBVIOUS
<1>0. \A i \in Item : i.block \in Wave
    BY DEF Item
<1>2. \A k \in 1 .. Len(s) : t[k] = s[k] /\ s[k].block \in Wave
    BY <1>0
<1>3. t[Len(s) + 1] = e /\ e.block \in Wave
    BY DEF Item
<1>4. Blocks(s) \in Seq(Wave) /\ Len(Blocks(s)) = Len(s)
    BY <1>1, <1>2 DEF Blocks
<1>5. \A k \in 1 .. Len(s) : Blocks(s)[k] = s[k].block
    BY <1>1 DEF Blocks
<1>6. DOMAIN Append(Blocks(s), e.block) = 1 .. Len(s) + 1
    BY <1>4, <1>3
<1>7. \A k \in 1 .. Len(s) + 1 : Append(Blocks(s), e.block)[k] = t[k].block
    BY <1>1, <1>2, <1>3, <1>4, <1>5
<1>8. Append(Blocks(s), e.block) = [k \in 1 .. Len(s) + 1 |-> Append(Blocks(s), e.block)[k]]
    BY <1>4, <1>3, <1>6
<1>9. Blocks(t) = [k \in 1 .. Len(s) + 1 |-> t[k].block]
    BY <1>1 DEF Blocks
<1>. QED BY <1>4, <1>7, <1>8, <1>9

(* The blocks of a list are those of its first n items followed by those   *)
(* of the rest.                                                            *)
LEMMA BlocksSplit ==
    ASSUME NEW s \in Seq(Item), NEW n \in 0 .. Len(s), NEW c \in Seq(Wave)
    PROVE  /\ [k \in 1 .. n |-> s[k].block] \in Seq(Wave)
           /\ SubSeq(s, n + 1, Len(s)) \in Seq(Item)
           /\ Len(SubSeq(s, n + 1, Len(s))) = Len(s) - n
           /\ (c \o [k \in 1 .. n |-> s[k].block]) \o Blocks(SubSeq(s, n + 1, Len(s)))
                = c \o Blocks(s)
<1> DEFINE a == [k \in 1 .. n |-> s[k].block]
           r == SubSeq(s, n + 1, Len(s))
           b == Blocks(r)
           m == Len(s) - n
<1>0. Len(s) \in Nat /\ n \in Nat /\ n <= Len(s) /\ m \in Nat /\ Len(c) \in Nat
    OBVIOUS
<1>i. \A i \in Item : i.block \in Wave
    BY DEF Item
<1>1. \A k \in 1 .. Len(s) : s[k] \in Item /\ s[k].block \in Wave
    BY <1>i
<1>2. a \in Seq(Wave) /\ Len(a) = n /\ \A k \in 1 .. n : a[k] = s[k].block
    BY <1>0, <1>1
<1>3. r \in Seq(Item) /\ Len(r) = m /\ \A k \in 1 .. m : r[k] = s[n + k]
    BY <1>0
<1>4. b \in Seq(Wave) /\ Len(b) = m /\ \A k \in 1 .. m : b[k] = s[n + k].block
    <2> HIDE DEF r
    <2>1. DOMAIN r = 1 .. m
        BY <1>3, <1>0
    <2>2. \A k \in 1 .. m : r[k].block \in Wave
        BY <1>3, <1>0, <1>i
    <2>3. b = [k \in 1 .. m |-> r[k].block]
        BY <2>1 DEF Blocks
    <2>. QED BY <2>2, <2>3, <1>3, <1>0
<1>5. Blocks(s) \in Seq(Wave) /\ Len(Blocks(s)) = Len(s)
      /\ \A k \in 1 .. Len(s) : Blocks(s)[k] = s[k].block
    BY <1>0, <1>1 DEF Blocks
<1> HIDE DEF a, r, b
<1>6. a \o b \in Seq(Wave) /\ Len(a \o b) = Len(s)
    <2>1. a \o b \in Seq(Wave) /\ Len(a \o b) = Len(a) + Len(b)
        BY <1>2, <1>4, Joined
    <2>2. Len(a) + Len(b) = Len(s)
        BY <1>0, <1>2, <1>4
    <2>. QED BY <2>1, <2>2
<1>7. \A k \in 1 .. Len(s) : (a \o b)[k] = Blocks(s)[k]
    <2> TAKE k \in 1 .. Len(s)
    <2>0. (a \o b)[k] = IF k <= Len(a) THEN a[k] ELSE b[k - Len(a)]
        <3>1. k \in 1 .. Len(a) + Len(b)
            BY <1>0, <1>2, <1>4
        <3>2. \A i \in 1 .. Len(a) + Len(b) :
                (a \o b)[i] = IF i <= Len(a) THEN a[i] ELSE b[i - Len(a)]
            BY <1>2, <1>4, Joined
        <3>. QED BY <3>1, <3>2
    <2>1. CASE k <= n
        BY <2>0, <2>1, <1>0, <1>2, <1>5
    <2>2. CASE ~(k <= n)
        <3>1. k - n \in 1 .. m /\ n + (k - n) = k
            BY <2>2, <1>0
        <3>2. (a \o b)[k] = b[k - n]
            BY <2>0, <2>2, <1>2
        <3>. QED BY <3>1, <3>2, <1>4, <1>5
    <2>. QED BY <2>1, <2>2
<1>8. a \o b = Blocks(s)
    BY <1>5, <1>6, <1>7, ItemByItem
<1>9. (c \o a) \o b = c \o (a \o b)
    BY <1>2, <1>4, Associates
<1>. QED BY <1>2, <1>3, <1>8, <1>9 DEF a, r, b

(* The wave comes: played on the device as it is set, and listed, unless   *)
(* it is not whole.                                                        *)
LEMMA WaveIInv ==
    ASSUME SdIInv, NEW whole, rdpsnd_process_message_wave(whole) PROVE SdIInv'
<1> USE DEF rdpsnd_process_message_wave
<1>1. CASE ~whole
    <2>1. SdTypes' /\ InFormat' /\ LastMeant'
        BY <1>1 DEF SdIInv, SdTypes, InFormat, LastMeant
    <2>2. PlayedAsMeant' /\ ConfirmedInOrder' /\ IntervalRuns'
        BY <1>1 DEF SdIInv, PlayedAsMeant, ConfirmedInOrder, IntervalRuns
    <2>. QED BY <2>1, <2>2 DEF SdIInv
<1>2. CASE whole
    <2> DEFINE e == [block |-> sdBlock, at |-> sdStamp + Delay]
    <2>1. sdBlock \in Wave /\ sdBlock = Len(sdMeant) /\ sdStamp + Delay \in Nat /\ sdNow \in Nat
        <3>1. sdBlock \in 0 .. MaxWaves /\ sdBlock > 0 /\ sdBlock = Len(sdMeant)
            BY DEF SdIInv, SdTypes, LastMeant
        <3>2. sdNow \in Nat /\ sdStamp \in Nat
            BY DEF SdIInv, SdTypes
        <3>. QED BY <3>1, <3>2 DEF Wave
    <2>2. e \in Item
        BY <2>1 DEF Item
    <2>3. sdOut \in Seq(Item) /\ sdWhole \in Seq(Wave) /\ sdConfirmed \in Seq(Wave)
        BY DEF SdIInv, SdTypes
    <2>4. /\ sdOut' = Append(sdOut, e) /\ sdOut' \in Seq(Item)
          /\ sdWhole' = Append(sdWhole, sdBlock) /\ sdWhole' \in Seq(Wave)
        <3>1. sdOut' = Append(sdOut, e) /\ sdWhole' = Append(sdWhole, sdBlock)
            BY <1>2
        <3> HIDE DEF e
        <3>. QED BY <3>1, <2>1, <2>2, <2>3
    <2> HIDE DEF e
    <2>5. /\ sdPlayed' = [w \in Wave |-> sdPlayed'[w]]
          /\ sdPlayed'[sdBlock] = sdDevice
          /\ \A w \in Wave : w # sdBlock => sdPlayed'[w] = sdPlayed[w]
        BY <1>2, <2>1 DEF SdIInv, SdTypes
    <2>6. SdTypes'
        BY <1>2, <2>1, <2>4, <2>5 DEF SdIInv, SdTypes
    <2>7. InFormat'
        BY <1>2 DEF SdIInv, InFormat
    <2>8. LastMeant'
        <3>1. \A w \in Wave : w > Len(sdMeant) => w # sdBlock
            BY <2>1 DEF Wave
        <3>. QED BY <3>1, <2>5 DEF SdIInv, LastMeant
    <2>9. PlayedAsMeant'
        <3> SUFFICES ASSUME ~sdStale', NEW w \in DOMAIN sdMeant'
                     PROVE  sdPlayed'[w] \in {"not", "closed", sdMeant'[w]}
            BY DEF PlayedAsMeant
        <3>1. w \in DOMAIN sdMeant /\ sdMeant' = sdMeant /\ ~sdStale
            OBVIOUS
        <3>2. w \in Wave
            <4>1. PICK V : sdMeant \in Seq(V)
                BY DEF SdIInv, SdTypes
            <4>2. w \in 1 .. Len(sdMeant) /\ Len(sdMeant) \in Nat
                BY <4>1, <3>1
            <4>3. Len(sdMeant) <= MaxWaves
                BY DEF SdIInv, SdTypes
            <4>. QED BY <4>2, <4>3 DEF Wave
        <3>3. CASE w = sdBlock
            BY <3>3, <3>1, <2>5 DEF SdIInv, InFormat
        <3>4. CASE w # sdBlock
            BY <3>4, <3>1, <3>2, <2>5 DEF SdIInv, PlayedAsMeant
        <3>. QED BY <3>3, <3>4
    <2>10. ConfirmedInOrder'
        <3>1. sdWhole = sdConfirmed \o Blocks(sdOut)
            BY DEF SdIInv, ConfirmedInOrder, Blocks
        <3>2. Blocks(sdOut) \in Seq(Wave) /\ Blocks(sdOut') = Append(Blocks(sdOut), sdBlock)
            <4>1. e.block = sdBlock
                BY DEF e
            <4>. QED BY <4>1, <2>2, <2>3, <2>4, BlocksAppend
        <3>3. Append(sdConfirmed \o Blocks(sdOut), sdBlock)
                = sdConfirmed \o Append(Blocks(sdOut), sdBlock)
            BY <3>2, <2>1, <2>3, AppendAssociates
        <3>. QED BY <3>1, <3>2, <3>3, <2>4 DEF ConfirmedInOrder, Blocks
    <2>11. IntervalRuns'
        BY <1>2 DEF IntervalRuns
    <2>. QED BY <2>6, <2>7, <2>8, <2>9, <2>10, <2>11 DEF SdIInv
<1>. QED BY <1>1, <1>2

(* The interval callback moves confirmations from the front of the list to *)
(* the server, and stops only when the list is empty.                      *)
LEMMA IntervalIInv == ASSUME SdIInv, rdpsnd_process_interval PROVE SdIInv'
<1> USE DEF rdpsnd_process_interval
<1>1. PICK n \in 0 .. Len(sdOut) :
        /\ sdConfirmed' = sdConfirmed \o [k \in 1 .. n |-> sdOut[k].block]
        /\ sdOut' = SubSeq(sdOut, n + 1, Len(sdOut))
        /\ sdInterval' = ~(n = Len(sdOut) /\ ~sdIsOpen)
    OBVIOUS
<1>2. sdOut \in Seq(Item) /\ sdConfirmed \in Seq(Wave) /\ Len(sdOut) \in Nat
    BY DEF SdIInv, SdTypes
<1>3. /\ [k \in 1 .. n |-> sdOut[k].block] \in Seq(Wave)
      /\ sdOut' \in Seq(Item) /\ Len(sdOut') = Len(sdOut) - n
      /\ sdConfirmed' \o Blocks(sdOut') = sdConfirmed \o Blocks(sdOut)
    BY <1>1, <1>2, BlocksSplit
<1>4. sdConfirmed' \in Seq(Wave)
    BY <1>1, <1>2, <1>3, Joined
<1>5. SdTypes'
    BY <1>1, <1>3, <1>4 DEF SdIInv, SdTypes
<1>6. InFormat' /\ LastMeant' /\ PlayedAsMeant'
    BY DEF SdIInv, InFormat, LastMeant, PlayedAsMeant
<1>7. ConfirmedInOrder'
    BY <1>3 DEF SdIInv, ConfirmedInOrder, Blocks
<1>8. IntervalRuns'
    <2>1. n = Len(sdOut) => sdOut' = <<>>
        BY <1>2, <1>3
    <2>. QED BY <1>1, <2>1 DEF IntervalRuns
<1>. QED BY <1>5, <1>6, <1>7, <1>8 DEF SdIInv

(* Every step of the sound channel keeps the invariant.                    *)
LEMMA SdNextIInv == SdIInv /\ [SdNext]_sdVars => SdIInv'
<1> SUFFICES ASSUME SdIInv, [SdNext]_sdVars PROVE SdIInv'
    OBVIOUS
<1>1. CASE UNCHANGED sdVars
    <2>1. SdTypes' /\ InFormat' /\ LastMeant'
        BY <1>1 DEF SdIInv, SdTypes, InFormat, LastMeant, sdVars
    <2>2. PlayedAsMeant' /\ ConfirmedInOrder' /\ IntervalRuns'
        BY <1>1 DEF SdIInv, PlayedAsMeant, ConfirmedInOrder, IntervalRuns, sdVars
    <2>. QED BY <2>1, <2>2 DEF SdIInv
<1>2. CASE \E offer \in Offers : rdpsnd_process_message_formats(offer)
    BY <1>2, FormatsIInv
<1>3. CASE \E no \in DOMAIN sdFormats : rdpsnd_process_message_wave_info(no)
    BY <1>3, WaveInfoIInv
<1>4. CASE \E whole \in BOOLEAN : rdpsnd_process_message_wave(whole)
    BY <1>4, WaveIInv
<1>5. CASE rdpsnd_process_message_close
    <2>1. SdTypes' /\ InFormat' /\ LastMeant'
        BY <1>5 DEF SdIInv, SdTypes, InFormat, LastMeant, SdReceives, rdpsnd_process_message_close
    <2>2. PlayedAsMeant' /\ ConfirmedInOrder' /\ IntervalRuns'
        BY <1>5 DEF SdIInv, PlayedAsMeant, ConfirmedInOrder, IntervalRuns, rdpsnd_process_message_close
    <2>. QED BY <2>1, <2>2 DEF SdIInv
<1>6. CASE rdpsnd_process_interval
    BY <1>6, IntervalIInv
<1>7. CASE SdTick
    <2>1. SdTypes' /\ InFormat' /\ LastMeant'
        BY <1>7 DEF SdIInv, SdTypes, InFormat, LastMeant, SdTick
    <2>2. PlayedAsMeant' /\ ConfirmedInOrder' /\ IntervalRuns'
        BY <1>7 DEF SdIInv, PlayedAsMeant, ConfirmedInOrder, IntervalRuns, SdTick
    <2>. QED BY <2>1, <2>2 DEF SdIInv
<1>8. CASE rdpsnd_process_terminate
    <2>1. SdTypes' /\ InFormat' /\ LastMeant'
        BY <1>8 DEF SdIInv, SdTypes, InFormat, LastMeant, rdpsnd_process_terminate
    <2>2. PlayedAsMeant' /\ ConfirmedInOrder' /\ IntervalRuns'
        BY <1>8 DEF SdIInv, PlayedAsMeant, ConfirmedInOrder, IntervalRuns, rdpsnd_process_terminate
    <2>. QED BY <2>1, <2>2 DEF SdIInv
<1>. QED BY <1>1, <1>2, <1>3, <1>4, <1>5, <1>6, <1>7, <1>8 DEF SdNext

(* A wave is heard in the format the server meant or not at all, complete  *)
(* waves are confirmed once each in their order, and the callback that     *)
(* confirms them runs while any is listed: for every list of formats,      *)
(* every delay and any number of waves (rdpsnd_main.c).                    *)
THEOREM SoundSafe == SdSpec => []SoundIsSafe
<1>1. SdIInv => SoundIsSafe
    <2> SUFFICES ASSUME SdIInv PROVE SoundIsSafe
        OBVIOUS
    <2>1. \A i \in Item : i.block \in Wave /\ i.at \in Nat
        BY DEF Item
    <2>2. \A k \in DOMAIN sdOut : sdOut[k] \in Item
        BY DEF SdIInv, SdTypes
    <2>3. sdStamp <= sdNow
        BY DEF SdIInv, SdTypes
    <2>4. SdTypeOK
        BY <2>1, <2>2, <2>3 DEF SdIInv, SdTypes, SdTypeOK
    <2>. QED BY <2>4 DEF SdIInv, SoundIsSafe
<1>. QED BY <1>1, SdInitIInv, SdNextIInv, PTL DEF SdSpec

-----------------------------------------------------------------------------
(* The PulseAudio plugins.                                                 *)

(* A callback signals, and who was waiting looks again: a step that        *)
(* signals leaves nobody waiting.                                          *)
LEMMA NobodyWaits ==
    ASSUME Signalled PROVE pdPc' \notin {"context?", "stream?", "room?", "drained?"}
BY DEF Signalled

(* A call begins to wait only for what has not happened, and what it waits *)
(* for happens only in a callback.                                         *)
LEMMA CallsWait ==
    ASSUME PdTypeOK, NobodySleepsThrough, Calls PROVE NobodySleepsThrough'
<1> USE DEF NobodySleepsThrough
<1>1. ASSUME NEW p, Connects(p) PROVE NobodySleepsThrough'
    BY <1>1 DEF Connects
<1>2. CASE Entered \/ tsmf_pulse_open
    BY <1>2 DEF Entered, tsmf_pulse_open
<1>3. ASSUME NEW p, OpensStream(p) PROVE NobodySleepsThrough'
    BY <1>3 DEF OpensStream
<1>4. CASE rdpsnd_pulse_play
    BY <1>4 DEF rdpsnd_pulse_play
<1>5. ASSUME NEW p, Closes(p) PROVE NobodySleepsThrough'
    BY <1>5 DEF Closes
<1>. QED
    BY <1>1, <1>2, <1>3, <1>4, <1>5
       DEF Calls, rdpsnd_pulse_connect, tsmf_pulse_connect, audin_pulse_connect,
           rdpsnd_pulse_open, audin_pulse_opens, rdpsnd_pulse_close, audin_pulse_closes

(* A piece being played and the room for it stay in their ranges.          *)
LEMMA PdNextTypes == ASSUME PdTypeOK, [PdNext]_pdVars PROVE PdTypeOK'
<1> USE PdAssumption DEF PdTypeOK
<1>1. ASSUME NEW p, Connects(p) PROVE PdTypeOK'
    BY <1>1 DEF Connects
<1>2. CASE Entered \/ tsmf_pulse_open
    BY <1>2 DEF Entered, tsmf_pulse_open
<1>3. ASSUME NEW p, OpensStream(p) PROVE PdTypeOK'
    BY <1>3 DEF OpensStream
<1>4. CASE rdpsnd_pulse_play
    <2>1. pdLeft' \in 0 .. Size /\ pdRoom' \in 0 .. MaxRoom
        BY <1>4 DEF rdpsnd_pulse_play
    <2>. QED BY <1>4, <2>1 DEF rdpsnd_pulse_play
<1>5. ASSUME NEW p, Closes(p) PROVE PdTypeOK'
    BY <1>5 DEF Closes
<1>6. CASE Calls
    BY <1>1, <1>2, <1>3, <1>4, <1>5, <1>6
       DEF Calls, rdpsnd_pulse_connect, tsmf_pulse_connect, audin_pulse_connect,
           rdpsnd_pulse_open, audin_pulse_opens, rdpsnd_pulse_close, audin_pulse_closes
<1>7. CASE rdpsnd_pulse_context_state_callback
    BY <1>7 DEF rdpsnd_pulse_context_state_callback
<1>8. CASE rdpsnd_pulse_stream_state_callback
    BY <1>8 DEF rdpsnd_pulse_stream_state_callback
<1>9. CASE rdpsnd_pulse_stream_request_callback
    BY <1>9 DEF rdpsnd_pulse_stream_request_callback
<1>10. CASE rdpsnd_pulse_stream_success_callback
    BY <1>10 DEF rdpsnd_pulse_stream_success_callback
<1>11. CASE UNCHANGED pdVars
    BY <1>11 DEF pdVars
<1>. QED BY <1>6, <1>7, <1>8, <1>9, <1>10, <1>11 DEF PdNext

(* A caller in pa_threaded_mainloop_wait waits for something that has not  *)
(* happened, for every size of sound and buffer: every state, request and  *)
(* success callback of the three plugins signals after its change.         *)
THEOREM NobodySleeps == PdSpec => [](PdTypeOK /\ NobodySleepsThrough)
<1>1. PdInit => PdTypeOK /\ NobodySleepsThrough
    BY PdAssumption DEF PdInit, PdTypeOK, NobodySleepsThrough
<1>2. PdTypeOK /\ NobodySleepsThrough /\ [PdNext]_pdVars => (PdTypeOK /\ NobodySleepsThrough)'
    <2> SUFFICES ASSUME PdTypeOK, NobodySleepsThrough, [PdNext]_pdVars
                 PROVE  NobodySleepsThrough'
        BY PdNextTypes
    <2>1. CASE Calls
        BY <2>1, CallsWait
    <2>2. CASE UNCHANGED pdVars
        BY <2>2 DEF pdVars, NobodySleepsThrough
    <2>3. CASE Signalled
        BY <2>3, NobodyWaits DEF NobodySleepsThrough
    <2>. QED BY <2>1, <2>2, <2>3
            DEF PdNext, rdpsnd_pulse_context_state_callback, rdpsnd_pulse_stream_state_callback,
                rdpsnd_pulse_stream_request_callback, rdpsnd_pulse_stream_success_callback
<1>. QED BY <1>1, <1>2, PTL DEF PdSpec
=============================================================================
