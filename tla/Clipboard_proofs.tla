-------------------------- MODULE Clipboard_proofs --------------------------
(***************************************************************************)
(* Proofs about the server's clipboard as X programs see it (the first     *)
(* half of Clipboard), for any formats and any number of copies and        *)
(* requests.                                                               *)
(***************************************************************************)
EXTENDS Clipboard, TLAPS

Copy == [v : Nat, formats : SUBSET Formats]
ListMsg == [is : {"list"}, copy : Copy]
DataMsg == [is : {"data"}, v : Nat, good : BOOLEAN]
Answer == [with : Int, list : Nat]

CoTypes ==
    /\ coCopy \in Copy /\ coList \in Copy /\ coDown \in Seq(ListMsg \union DataMsg)
    /\ coUp \in Seq(Formats) /\ coOwner \in BOOLEAN /\ coData \in Nat
    /\ coFormat \in Formats \union {"none"} /\ coRespond \in 0 .. Len(coAsked)
    /\ coAsked \in Seq(Formats) /\ coAnswers \in Seq(Seq(Answer))
    /\ Len(coAnswers) = Len(coAsked) /\ coCopy.v <= MaxCopies

(* 1 if an answer of the server is on its way before place k.              *)
Before(k) == IF \E j \in DataIn : j < k THEN 1 ELSE 0

(* Lists and data cross, yet what is on its way follows from the list in   *)
(* force: lists carry the copies after it one by one, data the copy of the *)
(* last list before it.                                                    *)
InStep ==
    /\ \A k \in DOMAIN coDown :
         /\ coDown[k].is = "list" => coDown[k].copy.v = coList.v + k - Before(k)
         /\ coDown[k].is = "data" => coDown[k].v \in {0, coList.v + k - 1}
    /\ coCopy.v = coList.v + Len(coDown) - (IF DataIn = {} THEN 0 ELSE 1)

(* The delayed request has not been answered.                              *)
WaitsForIt == coRespond # 0 => coAnswers[coRespond] = <<>>

CoIInv == CoTypes /\ OneUnderWay /\ InStep /\ WaitsForIt /\ CacheIsCurrent /\ PastedIsCurrent

(* A sequence in which one item is replaced.                               *)
LEMMA ItemReplaced ==
    ASSUME NEW V, NEW s \in Seq(V), NEW i \in 1 .. Len(s), NEW e \in V
    PROVE  [s EXCEPT ![i] = e] \in Seq(V) /\ Len([s EXCEPT ![i] = e]) = Len(s)
    OBVIOUS

USE CoAssumption

(* Nothing has been copied or asked for at the beginning.                  *)
LEMMA CoInitIInv == CoInit => CoIInv
<1> SUFFICES ASSUME CoInit PROVE CoIInv
    OBVIOUS
<1>1. CoTypes
    <2>1. [v |-> 0, formats |-> {}] \in Copy
        BY DEF Copy
    <2>2. coDown \in Seq(ListMsg \union DataMsg) /\ coUp \in Seq(Formats)
        BY DEF CoInit
    <2>3. coAsked \in Seq(Formats) /\ coAnswers \in Seq(Seq(Answer)) /\ Len(coAsked) = 0 /\ Len(coAnswers) = 0
        BY DEF CoInit
    <2>4. coCopy \in Copy /\ coList \in Copy /\ coCopy.v = 0 /\ coRespond = 0
        BY <2>1 DEF CoInit
    <2>5. coOwner \in BOOLEAN /\ coData \in Nat /\ coFormat \in Formats \union {"none"}
        BY DEF CoInit
    <2>. QED BY <2>2, <2>3, <2>4, <2>5 DEF CoTypes
<1>2. DOMAIN coDown = {} /\ DOMAIN coAnswers = {}
    BY DEF CoInit
<1>3. OneUnderWay /\ InStep /\ PastedIsCurrent
    BY <1>2 DEF CoInit, OneUnderWay, DataIn, InStep, PastedIsCurrent
<1>4. WaitsForIt /\ CacheIsCurrent
    BY DEF CoInit, WaitsForIt, CacheIsCurrent
<1>. QED BY <1>1, <1>3, <1>4 DEF CoIInv

(* The server announces a copy: the list goes behind everything else.      *)
LEMMA CopiesIInv ==
    ASSUME CoIInv, NEW formats \in SUBSET Formats, ServerCopies(formats) PROVE CoIInv'
<1>1. coCopy' \in Copy /\ coCopy'.v = coCopy.v + 1 /\ coCopy'.v <= MaxCopies
    BY DEF CoIInv, CoTypes, Copy, ServerCopies
<1> DEFINE m == [is |-> "list", copy |-> coCopy']
           n == Len(coDown)
<1>2. m \in ListMsg /\ coDown' = Append(coDown, m) /\ coDown \in Seq(ListMsg \union DataMsg)
    BY <1>1 DEF CoIInv, CoTypes, ServerCopies, ListMsg
<1>3. /\ coDown' \in Seq(ListMsg \union DataMsg) /\ n \in Nat /\ Len(coDown') = n + 1
      /\ DOMAIN coDown = 1 .. n /\ DOMAIN coDown' = 1 .. n + 1
      /\ coDown'[n + 1] = m /\ \A k \in 1 .. n : coDown'[k] = coDown[k]
    BY <1>2
<1>4. CoTypes'
    BY <1>1, <1>3 DEF CoIInv, CoTypes, ServerCopies
<1>5. DataIn' = DataIn
    BY <1>3 DEF DataIn
<1>6. OneUnderWay'
    <2>1. \A k \in DOMAIN coDown : k \in DOMAIN coDown'
        BY <1>3
    <2>. QED BY <1>5, <2>1 DEF CoIInv, OneUnderWay, ServerCopies
<1>7. InStep'
    <2>1. coList' = coList
        BY DEF ServerCopies
    <2>2. Before(n + 1) = IF DataIn = {} THEN 0 ELSE 1
        BY <1>3 DEF Before, DataIn
    <2>3. \A k \in 1 .. n : /\ coDown'[k].is = "list" => coDown'[k].copy.v = coList.v + k - Before(k)
                            /\ coDown'[k].is = "data" => coDown'[k].v \in {0, coList.v + k - 1}
        BY <1>3 DEF CoIInv, InStep
    <2>4. coDown'[n + 1].is = "list" /\ coDown'[n + 1].copy.v = coList.v + (n + 1) - Before(n + 1)
        <3>1. coCopy.v = coList.v + n - Before(n + 1) /\ coList.v \in Nat /\ Before(n + 1) \in {0, 1}
            BY <2>2 DEF CoIInv, InStep, CoTypes, Copy
        <3>2. coDown'[n + 1].is = "list" /\ coDown'[n + 1].copy.v = coCopy.v + 1
            BY <1>1, <1>3
        <3>3. n \in Nat
            BY <1>3
        <3>. HIDE DEF n
        <3>. QED BY <3>1, <3>2, <3>3
    <2>5. \A k : Before(k)' = Before(k)
        BY <1>5 DEF Before
    <2>6. \A k \in 1 .. n + 1 : k \in 1 .. n \/ k = n + 1
        BY <1>3
    <2>7. coCopy'.v = coList.v + (n + 1) - (IF DataIn = {} THEN 0 ELSE 1)
        <3>1. coCopy.v = coList.v + n - (IF DataIn = {} THEN 0 ELSE 1) /\ coList.v \in Nat /\ n \in Nat
            BY <1>3 DEF CoIInv, InStep, CoTypes, Copy
        <3>. QED BY <1>1, <3>1
    <2>. QED BY <1>3, <1>5, <2>1, <2>3, <2>4, <2>5, <2>6, <2>7 DEF InStep
<1>8. WaitsForIt' /\ CacheIsCurrent' /\ PastedIsCurrent'
    BY DEF CoIInv, ServerCopies, WaitsForIt, CacheIsCurrent, PastedIsCurrent
<1>. QED BY <1>4, <1>6, <1>7, <1>8 DEF CoIInv

(* The server answers the request under way, from the copy it holds: that  *)
(* of the last list on its way, or of the list in force.                   *)
LEMMA AnswersIInv == ASSUME CoIInv, ServerAnswers PROVE CoIInv'
<1> DEFINE n == Len(coDown)
<1>1. /\ coUp \in Seq(Formats) /\ coUp # <<>> /\ coUp' = Tail(coUp)
      /\ coDown \in Seq(ListMsg \union DataMsg) /\ coCopy \in Copy /\ n \in Nat
    BY DEF CoIInv, CoTypes, ServerAnswers
<1>2. Len(coUp) = 1 /\ coRespond # 0 /\ DataIn = {} /\ coUp' = <<>>
    BY <1>1 DEF CoIInv, OneUnderWay
<1>3. PICK m \in DataMsg : coDown' = Append(coDown, m) /\ m.v \in {0, coCopy.v}
    <2>1. PICK good \in BOOLEAN : coDown' = Append(coDown,
            IF Head(coUp) \in coCopy.formats
            THEN [is |-> "data", v |-> coCopy.v, good |-> good] ELSE [is |-> "data", v |-> 0, good |-> TRUE])
        BY DEF ServerAnswers
    <2>2. /\ [is |-> "data", v |-> coCopy.v, good |-> good] \in DataMsg
          /\ [is |-> "data", v |-> 0, good |-> TRUE] \in DataMsg
        BY <1>1 DEF DataMsg, Copy
    <2>3. CASE Head(coUp) \in coCopy.formats
        BY <2>1, <2>2, <2>3
    <2>4. CASE Head(coUp) \notin coCopy.formats
        BY <2>1, <2>2, <2>4
    <2>. QED BY <2>3, <2>4
<1>4. m.is = "data"
    BY DEF DataMsg
<1>5. /\ coDown' \in Seq(ListMsg \union DataMsg) /\ Len(coDown') = n + 1
      /\ DOMAIN coDown = 1 .. n /\ DOMAIN coDown' = 1 .. n + 1
      /\ coDown'[n + 1] = m /\ \A k \in 1 .. n : coDown'[k] = coDown[k]
    BY <1>1, <1>3
<1>6. DataIn' = {n + 1}
    <2>1. \A k \in 1 .. n : coDown[k].is # "data"
        BY <1>2, <1>5 DEF DataIn
    <2>2. \A k \in DOMAIN coDown' : coDown'[k].is = "data" <=> k = n + 1
        BY <1>4, <1>5, <2>1
    <2>3. n + 1 \in DOMAIN coDown'
        BY <1>1, <1>5
    <2>. QED BY <2>2, <2>3 DEF DataIn
<1>7. CoTypes'
    BY <1>2, <1>5 DEF CoIInv, CoTypes, ServerAnswers
<1>8. OneUnderWay'
    <2>1. n + 1 \in DOMAIN coDown'
        BY <1>1, <1>5
    <2>2. coRespond' = coRespond
        BY DEF ServerAnswers
    <2>3. \E k \in DOMAIN coDown' : DataIn' = {k}
        BY <1>6, <2>1
    <2>. QED BY <1>2, <2>2, <2>3 DEF OneUnderWay
<1>9. InStep'
    <2>1. coCopy.v = coList.v + n /\ coList.v \in Nat
        BY <1>1, <1>2 DEF CoIInv, InStep, CoTypes, Copy
    <2>2. coList' = coList /\ coCopy' = coCopy
        BY DEF ServerAnswers
    <2>3. \A k : Before(k) = 0
        BY <1>2 DEF Before
    <2>4. \A k \in 1 .. n + 1 : Before(k)' = 0
        BY <1>1, <1>6 DEF Before
    <2>5. \A k \in 1 .. n : /\ coDown'[k].is = "list" => coDown'[k].copy.v = coList.v + k - 0
                            /\ coDown'[k].is = "data" => coDown'[k].v \in {0, coList.v + k - 1}
        BY <1>5, <2>3 DEF CoIInv, InStep
    <2>6. coDown'[n + 1].is = "data" /\ coDown'[n + 1].v \in {0, coList.v + (n + 1) - 1}
        <3>1. coDown'[n + 1] = m
            BY <1>5
        <3>. HIDE DEF n
        <3>. QED BY <1>1, <1>3, <1>4, <2>1, <3>1
    <2>7. \A k \in 1 .. n + 1 : k \in 1 .. n \/ k = n + 1
        BY <1>1
    <2>8. coCopy'.v = coList'.v + (n + 1) - 1 /\ DataIn' # {}
        BY <1>1, <1>6, <2>1, <2>2
    <2>9. \A k \in DOMAIN coDown' :
            /\ coDown'[k].is = "list" => coDown'[k].copy.v = coList'.v + k - Before(k)'
            /\ coDown'[k].is = "data" => coDown'[k].v \in {0, coList'.v + k - 1}
        BY <1>5, <2>2, <2>4, <2>5, <2>6, <2>7
    <2>. QED BY <1>5, <2>8, <2>9 DEF InStep
<1>10. WaitsForIt' /\ CacheIsCurrent' /\ PastedIsCurrent'
    BY DEF CoIInv, ServerAnswers, WaitsForIt, CacheIsCurrent, PastedIsCurrent
<1>. QED BY <1>7, <1>8, <1>9, <1>10 DEF CoIInv

(* What is on its way moves up by one place when the first message is      *)
(* taken.                                                                  *)
LEMMA TakenDown ==
    ASSUME CoIInv, coDown # <<>>, coDown' = Tail(coDown)
    PROVE  /\ coDown' \in Seq(ListMsg \union DataMsg) /\ Head(coDown) = coDown[1]
           /\ Len(coDown) \in Nat \ {0} /\ Len(coDown') = Len(coDown) - 1
           /\ DOMAIN coDown = 1 .. Len(coDown) /\ DOMAIN coDown' = 1 .. Len(coDown) - 1
           /\ \A k \in DOMAIN coDown' : k + 1 \in DOMAIN coDown /\ coDown'[k] = coDown[k + 1]
<1>1. coDown \in Seq(ListMsg \union DataMsg)
    BY DEF CoIInv, CoTypes
<1>. QED BY <1>1

(* Moving up by one place makes up for the next list being in force.       *)
LEMMA Shift ==
    ASSUME NEW a \in Nat, NEW k \in Nat, NEW b \in {0, 1}
    PROVE  a + (k + 1) - b = (a + 1) + k - b /\ a + (k + 1) - 1 = (a + 1) + k - 1
    OBVIOUS

(* A list: it carries the copy after the one in force.                     *)
LEMMA ListIInv == ASSUME CoIInv, xf_cliprdr_process_cb_format_list_event PROVE CoIInv'
<1> USE DEF xf_cliprdr_process_cb_format_list_event
<1>1. /\ coDown' \in Seq(ListMsg \union DataMsg) /\ Head(coDown) = coDown[1]
      /\ Len(coDown) \in Nat \ {0} /\ Len(coDown') = Len(coDown) - 1
      /\ DOMAIN coDown = 1 .. Len(coDown) /\ DOMAIN coDown' = 1 .. Len(coDown) - 1
      /\ \A k \in DOMAIN coDown' : k + 1 \in DOMAIN coDown /\ coDown'[k] = coDown[k + 1]
    BY TakenDown
<1>2. 1 \in DOMAIN coDown /\ coDown[1].is = "list" /\ coList' = coDown[1].copy /\ coList.v \in Nat
    BY <1>1 DEF CoIInv, CoTypes, Copy
<1>3. coDown[1] \in ListMsg
    BY <1>2 DEF CoIInv, CoTypes, DataMsg
<1>4. coList' \in Copy
    BY <1>2, <1>3 DEF ListMsg
<1>5. CoTypes'
    BY <1>1, <1>4 DEF CoIInv, CoTypes
<1>6. \A j \in DataIn : j \in DOMAIN coDown /\ j # 1 /\ j \in Nat /\ j - 1 \in DataIn'
    BY <1>1, <1>2 DEF DataIn
<1>7. \A j \in DataIn' : j \in Nat /\ j + 1 \in DataIn
    BY <1>1 DEF DataIn
<1>8. OneUnderWay'
    <2>1. DataIn = {} => DataIn' = {}
        BY <1>7
    <2>2. ASSUME NEW k \in DOMAIN coDown, DataIn = {k} PROVE \E j \in DOMAIN coDown' : DataIn' = {j}
        <3>1. k - 1 \in DataIn' /\ k \in Nat
            BY <1>6, <2>2
        <3>2. \A j \in DataIn' : j = k - 1
            BY <1>7, <2>2, <3>1
        <3>3. k - 1 \in DOMAIN coDown' /\ DataIn' = {k - 1}
            BY <3>1, <3>2 DEF DataIn
        <3>. QED BY <3>3
    <2>. QED BY <2>1, <2>2 DEF CoIInv, OneUnderWay
<1>9. InStep'
    <2>1. Before(1) = 0
        BY <1>1 DEF Before, DataIn
    <2>2. coList'.v = coList.v + 1
        BY <1>2, <2>1 DEF CoIInv, InStep
    <2>3. \A k \in DOMAIN coDown' : Before(k)' = Before(k + 1) /\ Before(k + 1) \in {0, 1} /\ k \in Nat
        <3>1. ASSUME NEW k \in DOMAIN coDown' PROVE Before(k)' = Before(k + 1)
            <4>1. ASSUME NEW j \in DataIn', j < k PROVE \E i \in DataIn : i < k + 1
                BY <1>1, <1>7, <4>1
            <4>2. ASSUME NEW i \in DataIn, i < k + 1 PROVE \E j \in DataIn' : j < k
                BY <1>1, <1>6, <4>2
            <4>. QED BY <4>1, <4>2 DEF Before
        <3>2. \A k : Before(k) \in {0, 1}
            BY DEF Before
        <3>. QED BY <1>1, <3>1, <3>2
    <2>4. ASSUME NEW k \in DOMAIN coDown'
          PROVE  /\ coDown'[k].is = "list" => coDown'[k].copy.v = coList'.v + k - Before(k)'
                 /\ coDown'[k].is = "data" => coDown'[k].v \in {0, coList'.v + k - 1}
        <3>1. /\ coDown[k + 1].is = "list" => coDown[k + 1].copy.v = coList.v + (k + 1) - Before(k + 1)
              /\ coDown[k + 1].is = "data" => coDown[k + 1].v \in {0, coList.v + (k + 1) - 1}
            BY <1>1 DEF CoIInv, InStep
        <3>2. coDown'[k] = coDown[k + 1] /\ k \in Nat /\ Before(k)' = Before(k + 1) /\ Before(k + 1) \in {0, 1}
            BY <1>1, <2>3
        <3>3. /\ coList.v + (k + 1) - Before(k + 1) = (coList.v + 1) + k - Before(k + 1)
              /\ coList.v + (k + 1) - 1 = (coList.v + 1) + k - 1
            <4>1. coList.v \in Nat
                BY <1>2
            <4>. QED BY <3>2, <4>1, Shift
        <3>. QED BY <2>2, <3>1, <3>2, <3>3
    <2>5. DataIn = {} <=> DataIn' = {}
        BY <1>6, <1>7
    <2>6. coCopy'.v = coList'.v + Len(coDown') - (IF DataIn' = {} THEN 0 ELSE 1)
        <3>1. coCopy.v = coList.v + Len(coDown) - (IF DataIn = {} THEN 0 ELSE 1)
            BY DEF CoIInv, InStep
        <3>. QED BY <1>1, <1>2, <2>2, <2>5, <3>1
    <2>. QED BY <2>4, <2>6 DEF InStep
<1>10. WaitsForIt' /\ CacheIsCurrent' /\ PastedIsCurrent'
    BY DEF CoIInv, WaitsForIt, CacheIsCurrent, PastedIsCurrent
<1>. QED BY <1>5, <1>8, <1>9, <1>10 DEF CoIInv

(* An answer given to request r is its only one.                           *)
LEMMA Answered ==
    ASSUME CoTypes, coRespond # 0, coAnswers[coRespond] = <<>>, PastedIsCurrent,
           NEW what \in Int, what \in {Nothing, NullData, coList.v},
           coAnswers' = AnswerData(coRespond, what), coRespond' = 0
    PROVE  coAnswers' \in Seq(Seq(Answer)) /\ Len(coAnswers') = Len(coAnswers) /\ PastedIsCurrent'
<1> DEFINE a == [with |-> what, list |-> coList.v]
<1>1. coRespond \in DOMAIN coAnswers /\ coAnswers \in Seq(Seq(Answer)) /\ coList.v \in Nat
    BY DEF CoTypes, Copy
<1>2. a \in Answer /\ Append(coAnswers[coRespond], a) = <<a>>
    BY <1>1 DEF Answer
<1>3. coAnswers' = [coAnswers EXCEPT ![coRespond] = <<a>>]
    BY <1>2 DEF AnswerData
<1>. HIDE DEF a
<1>4. <<a>> \in Seq(Answer)
    BY <1>2
<1>5. coAnswers' \in Seq(Seq(Answer)) /\ Len(coAnswers') = Len(coAnswers) /\ DOMAIN coAnswers' = DOMAIN coAnswers
    <2>1. coRespond \in 1 .. Len(coAnswers)
        BY <1>1
    <2>2. coAnswers' \in Seq(Seq(Answer)) /\ Len(coAnswers') = Len(coAnswers)
        BY <1>1, <1>3, <1>4, <2>1, ItemReplaced
    <2>. QED BY <1>1, <2>2
<1>6. \A r \in DOMAIN coAnswers : coAnswers'[r] = IF r = coRespond THEN <<a>> ELSE coAnswers[r]
    BY <1>1, <1>3
<1>7. ASSUME NEW r \in DOMAIN coAnswers'
      PROVE  /\ Len(coAnswers'[r]) <= 1
             /\ \A k \in DOMAIN coAnswers'[r] : coAnswers'[r][k].with \in {Nothing, NullData, coAnswers'[r][k].list}
             /\ coAnswers'[r] = <<>> => coRespond' = r
    <2>1. CASE r = coRespond
        <3>1. coAnswers'[r] = <<a>> /\ a.with = what /\ a.list = coList.v
            BY <1>5, <1>6, <2>1 DEF a
        <3>2. Len(<<a>>) = 1 /\ DOMAIN <<a>> = {1} /\ <<a>>[1] = a /\ <<a>> # <<>>
            OBVIOUS
        <3>. QED BY <3>1, <3>2
    <2>2. CASE r # coRespond
        <3>1. coAnswers'[r] = coAnswers[r]
            BY <1>5, <1>6, <2>2
        <3>. QED BY <1>5, <2>2, <3>1 DEF PastedIsCurrent
    <2>. QED BY <2>1, <2>2
<1>. QED BY <1>5, <1>7 DEF PastedIsCurrent

(* Data: it answers the delayed request, and belongs to the list in force. *)
LEMMA DataIInv == ASSUME CoIInv, xf_cliprdr_process_cb_data_response_event PROVE CoIInv'
<1> USE DEF xf_cliprdr_process_cb_data_response_event
<1> DEFINE m == Head(coDown)
<1>1. /\ coDown' \in Seq(ListMsg \union DataMsg) /\ Head(coDown) = coDown[1]
      /\ Len(coDown) \in Nat \ {0} /\ Len(coDown') = Len(coDown) - 1
      /\ DOMAIN coDown = 1 .. Len(coDown) /\ DOMAIN coDown' = 1 .. Len(coDown) - 1
      /\ \A k \in DOMAIN coDown' : k + 1 \in DOMAIN coDown /\ coDown'[k] = coDown[k + 1]
    BY TakenDown
<1>2. /\ 1 \in DOMAIN coDown /\ m = coDown[1] /\ m.is = "data" /\ 1 \in DataIn
      /\ coList.v \in Nat /\ m.v \in {0, coList.v}
    <2>1. 1 \in DOMAIN coDown /\ m = coDown[1] /\ m.is = "data" /\ coList.v \in Nat
        BY <1>1 DEF CoIInv, CoTypes, Copy
    <2>2. m.v \in {0, coList.v + 1 - 1}
        BY <2>1 DEF CoIInv, InStep
    <2>. QED BY <2>1, <2>2 DEF DataIn
<1>3. coRespond # 0 /\ coUp = <<>> /\ DataIn = {1}
    BY <1>2 DEF CoIInv, OneUnderWay
<1>4. DataIn' = {}
    <2>1. ASSUME NEW k \in DataIn' PROVE FALSE
        <3>1. k \in DOMAIN coDown' /\ coDown'[k].is = "data" /\ k \in Nat \ {0}
            BY <1>1 DEF DataIn
        <3>2. k + 1 \in DataIn
            BY <1>1, <3>1 DEF DataIn
        <3>. QED BY <1>3, <3>1, <3>2
    <2>. QED BY <2>1
<1>5. PICK what \in Int : /\ what \in {Nothing, NullData, coList.v}
                          /\ coAnswers' = AnswerData(coRespond, what)
    BY <1>2, <1>3 DEF Nothing, NullData
<1>6. coData' \in {coData, 0, coList.v}
    BY <1>2, <1>3
<1>7. coAnswers' \in Seq(Seq(Answer)) /\ Len(coAnswers') = Len(coAnswers) /\ PastedIsCurrent'
    <2>1. CoTypes /\ PastedIsCurrent /\ coAnswers[coRespond] = <<>> /\ coRespond' = 0
        BY <1>3 DEF CoIInv, WaitsForIt
    <2>. QED BY <1>3, <1>5, <2>1, Answered
<1>8. CoTypes'
    <2>1. coRespond' \in 0 .. Len(coAsked') /\ coData' \in Nat
        BY <1>2, <1>6 DEF CoIInv, CoTypes
    <2>. QED BY <1>1, <1>7, <2>1 DEF CoIInv, CoTypes
<1>9. OneUnderWay' /\ WaitsForIt'
    BY <1>3, <1>4 DEF OneUnderWay, WaitsForIt
<1>10. InStep'
    <2>1. ASSUME NEW k \in DOMAIN coDown'
          PROVE  /\ coDown'[k].is = "list" => coDown'[k].copy.v = coList'.v + k - Before(k)'
                 /\ coDown'[k].is = "data" => coDown'[k].v \in {0, coList'.v + k - 1}
        <3>1. k \in Nat /\ k > 0 /\ k + 1 \in DOMAIN coDown /\ coDown'[k] = coDown[k + 1] /\ coDown'[k].is # "data"
            BY <1>1, <1>4 DEF DataIn
        <3>2. Before(k)' = 0 /\ Before(k + 1) = 1
            BY <1>3, <1>4, <3>1 DEF Before
        <3>3. coDown[k + 1].is = "list" => coDown[k + 1].copy.v = coList.v + (k + 1) - Before(k + 1)
            BY <3>1 DEF CoIInv, InStep
        <3>4. coList.v + (k + 1) - 1 = coList.v + k - 0
            BY <1>2, <3>1
        <3>. QED BY <3>1, <3>2, <3>3, <3>4
    <2>2. coCopy.v = coList.v + Len(coDown) - 1
        BY <1>3 DEF CoIInv, InStep
    <2>3. coCopy'.v = coList'.v + Len(coDown') - 0
        BY <1>1, <1>2, <2>2
    <2>. QED BY <1>4, <2>1, <2>3 DEF InStep
<1>11. CacheIsCurrent'
    BY <1>2, <1>6 DEF CoIInv, CacheIsCurrent
<1>. QED BY <1>7, <1>8, <1>9, <1>10, <1>11 DEF CoIInv

(* A request answered at once, or delayed, joins those answered before.    *)
LEMMA Asks ==
    ASSUME CoTypes, PastedIsCurrent, NEW b \in Seq(Answer), coAnswers' = Append(coAnswers, b),
           \/ coRespond' = coRespond /\ \E a \in Answer : b = <<a>> /\ a.with \in {Nothing, NullData, a.list}
           \/ coRespond = 0 /\ coRespond' = Len(coAnswers) + 1 /\ b = <<>>
    PROVE  /\ coAnswers' \in Seq(Seq(Answer)) /\ Len(coAnswers') = Len(coAnswers) + 1 /\ PastedIsCurrent'
           /\ coAnswers'[Len(coAnswers) + 1] = b
           /\ \A r \in 1 .. Len(coAnswers) : coAnswers'[r] = coAnswers[r]
<1> DEFINE n == Len(coAnswers)
<1>1. coAnswers \in Seq(Seq(Answer)) /\ n \in Nat /\ DOMAIN coAnswers = 1 .. n
    BY DEF CoTypes
<1>2. /\ coAnswers' \in Seq(Seq(Answer)) /\ Len(coAnswers') = n + 1 /\ DOMAIN coAnswers' = 1 .. n + 1
      /\ coAnswers'[n + 1] = b /\ \A r \in 1 .. n : coAnswers'[r] = coAnswers[r]
    BY <1>1
<1>3. ASSUME NEW r \in DOMAIN coAnswers'
      PROVE  /\ Len(coAnswers'[r]) <= 1
             /\ \A k \in DOMAIN coAnswers'[r] : coAnswers'[r][k].with \in {Nothing, NullData, coAnswers'[r][k].list}
             /\ coAnswers'[r] = <<>> => coRespond' = r
    <2>1. CASE r = n + 1 /\ b = <<>>
        <3>1. Len(<<>>) = 0 /\ DOMAIN <<>> = {} /\ coRespond' = n + 1
            BY <2>1
        <3>. QED BY <1>2, <2>1, <3>1
    <2>2. CASE r = n + 1 /\ b # <<>>
        <3>1. PICK a \in Answer : b = <<a>> /\ a.with \in {Nothing, NullData, a.list}
            BY <2>2
        <3>2. Len(<<a>>) = 1 /\ DOMAIN <<a>> = {1} /\ <<a>>[1] = a
            OBVIOUS
        <3>3. coAnswers'[r] = <<a>>
            BY <1>2, <2>2, <3>1
        <3>. QED BY <2>2, <3>1, <3>2, <3>3
    <2>3. CASE r # n + 1
        <3>1. r \in 1 .. n /\ coAnswers'[r] = coAnswers[r] /\ r \in DOMAIN coAnswers
            BY <1>1, <1>2, <2>3
        <3>2. coAnswers[r] = <<>> => coRespond = r /\ r # 0
            BY <1>1, <3>1 DEF PastedIsCurrent
        <3>. QED BY <3>1, <3>2 DEF PastedIsCurrent
    <2>. QED BY <2>1, <2>2, <2>3
<1>. QED BY <1>2, <1>3 DEF PastedIsCurrent

(* A request of an X program: refused, answered from what is cached, or    *)
(* passed on to the server if no other is.                                 *)
LEMMA RequestIInv ==
    ASSUME CoIInv, NEW f \in Formats, xf_cliprdr_process_selection_request(f) PROVE CoIInv'
<1> USE DEF xf_cliprdr_process_selection_request
<1> DEFINE n == Len(coAnswers)
<1>1. /\ coAnswers \in Seq(Seq(Answer)) /\ n \in Nat /\ coList.v \in Nat /\ coData \in Nat
      /\ coAsked \in Seq(Formats) /\ Len(coAsked) = n /\ coUp \in Seq(Formats) /\ coRespond \in 0 .. n
    BY DEF CoIInv, CoTypes, Copy
<1>2. coAsked' = Append(coAsked, f) /\ coAsked' \in Seq(Formats) /\ Len(coAsked') = n + 1
    BY <1>1
<1>3. UNCHANGED <<coCopy, coDown, coOwner, coList>>
    OBVIOUS
<1>4. DataIn' = DataIn /\ InStep'
    <2>1. DataIn' = DataIn
        BY <1>3 DEF DataIn
    <2>2. \A k : Before(k)' = Before(k)
        BY <2>1 DEF Before
    <2>. QED BY <1>3, <2>1, <2>2 DEF CoIInv, InStep
<1>d. \/ /\ UNCHANGED <<coUp, coData, coFormat, coRespond>>
         /\ \E what \in {Nothing, coData} :
               coAnswers' = Append(coAnswers, <<[with |-> what, list |-> coList.v]>>)
      \/ /\ coRespond = 0 /\ coAnswers' = Append(coAnswers, <<>>)
         /\ coRespond' = Len(coAsked) + 1 /\ coFormat' = f /\ coData' = 0 /\ coUp' = Append(coUp, f)
    OBVIOUS
<1> HIDE DEF xf_cliprdr_process_selection_request
<1>5. CASE /\ UNCHANGED <<coUp, coData, coFormat, coRespond>>
           /\ \E what \in {Nothing, coData} :
                 coAnswers' = Append(coAnswers, <<[with |-> what, list |-> coList.v]>>)
    <2>1. PICK what \in {Nothing, coData} :
             coAnswers' = Append(coAnswers, <<[with |-> what, list |-> coList.v]>>)
        BY <1>5
    <2>2. [with |-> what, list |-> coList.v] \in Answer /\ what \in {Nothing, coList.v}
        BY <1>1, <2>1 DEF Answer, Nothing, CoIInv, CacheIsCurrent
    <2>3. PICK a \in Answer : a.with \in {Nothing, NullData, a.list} /\ coAnswers' = Append(coAnswers, <<a>>)
        BY <2>1, <2>2
    <2>4. <<a>> \in Seq(Answer)
        OBVIOUS
    <2>5. CoTypes /\ PastedIsCurrent
        BY DEF CoIInv
    <2>6. /\ coAnswers' \in Seq(Seq(Answer)) /\ Len(coAnswers') = n + 1 /\ PastedIsCurrent'
          /\ \A r \in 1 .. n : coAnswers'[r] = coAnswers[r]
        BY <1>5, <2>3, <2>4, <2>5, Asks
    <2>7. CoTypes'
        <3>1. coRespond' \in 0 .. Len(coAsked')
            BY <1>1, <1>2, <1>5
        <3>2. /\ coCopy' \in Copy /\ coList' \in Copy /\ coDown' \in Seq(ListMsg \union DataMsg)
              /\ coUp' \in Seq(Formats) /\ coOwner' \in BOOLEAN /\ coData' \in Nat
              /\ coFormat' \in Formats \union {"none"} /\ coCopy'.v <= MaxCopies
            BY <1>3, <1>5, <2>5 DEF CoTypes
        <3>. QED BY <1>2, <2>6, <3>1, <3>2 DEF CoTypes
    <2>8. OneUnderWay' /\ CacheIsCurrent'
        BY <1>3, <1>4, <1>5 DEF CoIInv, OneUnderWay, CacheIsCurrent
    <2>9. WaitsForIt'
        <3>1. coRespond' = coRespond /\ (coRespond # 0 => coRespond \in 1 .. n)
            BY <1>1, <1>5
        <3>2. coRespond # 0 => coAnswers'[coRespond] = coAnswers[coRespond]
            BY <2>6, <3>1
        <3>. QED BY <3>1, <3>2 DEF CoIInv, WaitsForIt
    <2>. QED BY <1>4, <2>6, <2>7, <2>8, <2>9 DEF CoIInv
<1>6. CASE /\ coRespond = 0 /\ coAnswers' = Append(coAnswers, <<>>)
           /\ coRespond' = Len(coAsked) + 1 /\ coFormat' = f /\ coData' = 0 /\ coUp' = Append(coUp, f)
    <2>1. <<>> \in Seq(Answer) /\ coRespond' = n + 1
        BY <1>1, <1>6
    <2>2. CoTypes /\ PastedIsCurrent
        BY DEF CoIInv
    <2>3. /\ coAnswers' \in Seq(Seq(Answer)) /\ Len(coAnswers') = n + 1 /\ PastedIsCurrent'
          /\ coAnswers'[n + 1] = <<>>
        BY <1>6, <2>1, <2>2, Asks
    <2>4. coUp = <<>> /\ DataIn = {} /\ coUp' \in Seq(Formats) /\ Len(coUp') = 1
        BY <1>1, <1>6 DEF CoIInv, OneUnderWay
    <2>5. CoTypes'
        <3>1. coRespond' \in 0 .. Len(coAsked')
            BY <1>1, <1>2, <2>1
        <3>2. /\ coCopy' \in Copy /\ coList' \in Copy /\ coDown' \in Seq(ListMsg \union DataMsg)
              /\ coOwner' \in BOOLEAN /\ coCopy'.v <= MaxCopies
            BY <1>3, <2>2 DEF CoTypes
        <3>3. coData' \in Nat /\ coFormat' \in Formats \union {"none"}
            BY <1>6
        <3>. QED BY <1>2, <2>3, <2>4, <3>1, <3>2, <3>3 DEF CoTypes
    <2>6. OneUnderWay' /\ CacheIsCurrent'
        BY <1>1, <1>4, <1>6, <2>1, <2>4 DEF OneUnderWay, CacheIsCurrent
    <2>7. WaitsForIt'
        BY <2>1, <2>3 DEF WaitsForIt
    <2>. QED BY <1>4, <2>3, <2>5, <2>6, <2>7 DEF CoIInv
<1>. QED BY <1>d, <1>5, <1>6

(* Every step preserves it.                                                *)
LEMMA CoNextIInv == ASSUME CoIInv, [CoNext]_coVars PROVE CoIInv'
<1>1. ASSUME xf_cliprdr_process_selection_clear PROVE CoIInv'
    <2>1. /\ UNCHANGED <<coCopy, coDown, coUp, coList, coData, coFormat, coRespond, coAsked, coAnswers>>
          /\ coOwner' \in BOOLEAN
        BY <1>1 DEF xf_cliprdr_process_selection_clear
    <2>2. DataIn' = DataIn /\ \A k : Before(k)' = Before(k)
        BY <2>1 DEF DataIn, Before
    <2>3. CoTypes'
        BY <2>1 DEF CoIInv, CoTypes
    <2>4. OneUnderWay' /\ InStep'
        BY <2>1, <2>2 DEF CoIInv, OneUnderWay, InStep
    <2>5. WaitsForIt' /\ CacheIsCurrent' /\ PastedIsCurrent'
        BY <2>1 DEF CoIInv, WaitsForIt, CacheIsCurrent, PastedIsCurrent
    <2>. QED BY <2>3, <2>4, <2>5 DEF CoIInv
<1>2. ASSUME UNCHANGED coVars PROVE CoIInv'
    <2>1. DataIn' = DataIn /\ \A k : Before(k)' = Before(k)
        BY <1>2 DEF coVars, DataIn, Before
    <2>2. CoTypes'
        BY <1>2 DEF coVars, CoIInv, CoTypes
    <2>3. OneUnderWay' /\ InStep'
        BY <1>2, <2>1 DEF coVars, CoIInv, OneUnderWay, InStep
    <2>4. WaitsForIt' /\ CacheIsCurrent' /\ PastedIsCurrent'
        BY <1>2 DEF coVars, CoIInv, WaitsForIt, CacheIsCurrent, PastedIsCurrent
    <2>. QED BY <2>2, <2>3, <2>4 DEF CoIInv
<1>. QED BY <1>1, <1>2, CopiesIInv, AnswersIInv, ListIInv, DataIInv, RequestIInv DEF CoNext

(* What the X11 client caches, and what X programs paste, is the copy the  *)
(* server announced last; one request is under way at most, and each gets  *)
(* one answer: for any number of formats, copies and requests.             *)
THEOREM ClipboardCurrent == CoSpec => []OfferedIsCurrent
<1>1. CoIInv => OfferedIsCurrent
    <2> SUFFICES ASSUME CoIInv PROVE OfferedIsCurrent
        OBVIOUS
    <2>1. coList.v <= coCopy.v
        BY DEF CoIInv, CoTypes, Copy, InStep, DataIn
    <2>2. CoTypeOK
        BY <2>1 DEF CoIInv, CoTypes, Copy, CacheIsCurrent, CoTypeOK
    <2>. QED BY <2>2 DEF CoIInv, OfferedIsCurrent
<1>. QED BY <1>1, CoInitIInv, CoNextIInv, PTL DEF CoSpec
=============================================================================
