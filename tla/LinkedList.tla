----------------------------- MODULE LinkedList -----------------------------
(***************************************************************************)
(* The doubly linked lists: libfreerdp-utils/list.c, of which the channels'*)
(* queues are made, and libfreerdp-rail/window_list.c, the remote          *)
(* application's windows, which links its entries the same way but takes   *)
(* them out differently.  Entries are addresses of a heap that hands out   *)
(* any free one, so an address comes back after it was freed.              *)
(***************************************************************************)
EXTENDS Integers, Sequences

CONSTANTS
    Address,  \* the heap: positive numbers
    Data      \* what is put in a list, or the window ids: negative numbers

ASSUME LlAssumption == Address \subseteq Nat \ {0} /\ Data \subseteq Int \ Nat

VARIABLES
    llWindows,  \* the list is the list of windows
    llHead, llTail,
    llHeap,     \* address -> [data, prev, next], or a free cell
    llCount,
    llAnswer    \* what the last call returned

llVars == <<llWindows, llHead, llTail, llHeap, llCount, llAnswer>>

Null == 0
None == 0 - 1000
Cell(d, p, n) == [data |-> d, prev |-> p, next |-> n]
FreeCell == Cell(None, Null, Null)
InUse(a) == llHeap[a] # FreeCell

LlInit ==
    /\ llWindows \in BOOLEAN /\ llHead = Null /\ llTail = Null
    /\ llHeap = [a \in Address |-> FreeCell] /\ llCount = 0 /\ llAnswer = None

(* The heap with the fields of one cell set, unless the cell is NULL.      *)
SetNext(heap, a, n) == IF a = Null THEN heap ELSE [heap EXCEPT ![a].next = n]
SetPrev(heap, a, p) == IF a = Null THEN heap ELSE [heap EXCEPT ![a].prev = p]

(* The data from a cell on, read along the next pointers; a chain longer   *)
(* than the heap would be a loop.                                          *)
Walked[n \in 0 .. 8, a \in Address \union {Null}] ==
    IF a = Null \/ n = 0 THEN <<>> ELSE <<a>> \o Walked[n - 1, llHeap[a].next]
Chain == Walked[8, llHead]

list_item_find(d) ==
    LET at == {i \in DOMAIN Chain : llHeap[Chain[i]].data = d}
    IN  IF at = {} THEN Null ELSE Chain[CHOOSE i \in at : \A j \in at : i <= j]

-----------------------------------------------------------------------------
list_enqueue(d) ==
    /\ ~llWindows
    /\ \E a \in Address :
         /\ ~InUse(a)
         /\ llHeap' = (IF llTail = Null THEN [llHeap EXCEPT ![a] = Cell(d, Null, Null)]
                       ELSE SetNext([llHeap EXCEPT ![a] = Cell(d, llTail, Null)], llTail, a))
         /\ llHead' = (IF llTail = Null THEN a ELSE llHead)
         /\ llTail' = a
    /\ llCount' = llCount + 1 /\ llAnswer' = None /\ UNCHANGED llWindows

list_dequeue ==
    /\ ~llWindows
    /\ \/ llHead = Null /\ llAnswer' = None /\ UNCHANGED <<llHead, llTail, llHeap, llCount>>
       \/ /\ llHead # Null
          /\ LET item == llHeap[llHead] IN
             /\ llHead' = item.next
             /\ llTail' = (IF item.next = Null THEN Null ELSE llTail)
             /\ llHeap' = SetPrev([llHeap EXCEPT ![llHead] = FreeCell], item.next, Null)
             /\ llAnswer' = item.data
          /\ llCount' = llCount - 1
    /\ UNCHANGED llWindows

list_peek ==
    /\ ~llWindows /\ llAnswer' = (IF llHead = Null THEN None ELSE llHeap[llHead].data)
    /\ UNCHANGED <<llWindows, llHead, llTail, llHeap, llCount>>

(* Mutant: the entry before is returned.                                   *)
list_next_prev(d) ==
    LET a == list_item_find(d) IN
    /\ ~llWindows
    /\ llAnswer' = (IF a = Null \/ llHeap[a].prev = Null THEN None ELSE llHeap[llHeap[a].prev].data)
    /\ UNCHANGED <<llWindows, llHead, llTail, llHeap, llCount>>

list_next(d) ==
    LET a == list_item_find(d) IN
    /\ ~llWindows
    /\ llAnswer' = (IF a = Null \/ llHeap[a].next = Null THEN None ELSE llHeap[llHeap[a].next].data)
    /\ UNCHANGED <<llWindows, llHead, llTail, llHeap, llCount>>

Unlinked(a) == SetPrev(SetNext(llHeap, llHeap[a].prev, llHeap[a].next), llHeap[a].next, llHeap[a].prev)

list_remove(d) ==
    LET a == list_item_find(d) IN
    /\ ~llWindows
    /\ \/ a = Null /\ llAnswer' = None /\ UNCHANGED <<llHead, llTail, llHeap, llCount>>
       \/ /\ a # Null
          /\ llHeap' = [Unlinked(a) EXCEPT ![a] = FreeCell]
          /\ llHead' = (IF llHead = a THEN llHeap[a].next ELSE llHead)
          /\ llTail' = (IF llTail = a THEN llHeap[a].prev ELSE llTail)
          /\ llCount' = llCount - 1 /\ llAnswer' = d
    /\ UNCHANGED llWindows

list_size == ~llWindows /\ llAnswer' = llCount /\ UNCHANGED <<llWindows, llHead, llTail, llHeap, llCount>>

list_free ==
    /\ ~llWindows /\ llHead' = Null /\ llTail' = Null /\ llCount' = 0 /\ llAnswer' = None
    /\ llHeap' = [a \in Address |-> IF \E i \in DOMAIN Chain : Chain[i] = a THEN FreeCell ELSE llHeap[a]]
    /\ UNCHANGED llWindows

-----------------------------------------------------------------------------
window_list_create(id) ==
    /\ llWindows
    /\ \E a \in Address :
         /\ ~InUse(a)
         /\ llHeap' = (IF llHead = Null THEN [llHeap EXCEPT ![a] = Cell(id, Null, Null)]
                       ELSE SetNext([llHeap EXCEPT ![a] = Cell(id, llTail, Null)], llTail, a))
         /\ llHead' = (IF llHead = Null THEN a ELSE llHead)
         /\ llTail' = a
    /\ llAnswer' = None /\ UNCHANGED <<llWindows, llCount>>

(* The window is taken out; a list of one is emptied.                      *)
window_list_delete(id) ==
    LET a == list_item_find(id) IN
    /\ llWindows
    /\ \/ a = Null /\ llAnswer' = None /\ UNCHANGED <<llHead, llTail, llHeap>>
       \/ /\ a # Null
          /\ llHeap' = [Unlinked(a) EXCEPT ![a] = FreeCell]
          /\ llHead' = (IF llHead = llTail THEN Null ELSE IF llHead = a THEN llHeap[a].next ELSE llHead)
          /\ llTail' = (IF llHead = llTail THEN Null ELSE IF llTail = a THEN llHeap[a].prev ELSE llTail)
          /\ llAnswer' = id
    /\ UNCHANGED <<llWindows, llCount>>

LlNext ==
    \/ list_dequeue \/ list_peek \/ list_size \/ list_free
    \/ \E d \in Data : list_enqueue(d) \/ list_next(d) \/ list_remove(d)
                       \/ window_list_create(d) \/ window_list_delete(d)

LlSpec == LlInit /\ [][LlNext]_llVars

-----------------------------------------------------------------------------
LlTypeOK ==
    /\ {llHead, llTail} \subseteq Address \union {Null}
    /\ llHeap \in [Address -> [data : Data \union {None}, prev : Address \union {Null},
                               next : Address \union {Null}]]
    /\ llCount \in 0 .. 8

(* Read backwards the list is the same, its ends are its ends, every cell  *)
(* in use is in it, and the count is its length: after any calls nothing   *)
(* is lost and no freed cell is still reached.                             *)
LinksAgree ==
    /\ {a \in Address : InUse(a)} = {Chain[i] : i \in DOMAIN Chain}
    /\ \A i \in DOMAIN Chain :
         llHeap[Chain[i]].prev = IF i = 1 THEN Null ELSE Chain[i - 1]
    /\ llTail = IF Chain = <<>> THEN Null ELSE Chain[Len(Chain)]
    /\ llWindows \/ llCount = Len(Chain)

(* The linked cells are a sequence: each call of list.c and of             *)
(* window_list.c does to the data along the chain, and answers, what       *)
(* ItemQueue says.                                                         *)
AQ == INSTANCE ItemQueue
        WITH items <- [i \in DOMAIN Chain |-> llHeap[Chain[i]].data], answer <- llAnswer
ListIsASequence == AQ!IqSpec
=============================================================================
