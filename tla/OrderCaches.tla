---------------------------- MODULE OrderCaches ----------------------------
(***************************************************************************)
(* The client's caches (libfreerdp-cache): bitmaps, offscreen bitmaps and  *)
(* the surface drawn on, brushes, glyphs and their fragments, pointers.    *)
(* The server names a cached thing by its index, so the client draws the   *)
(* right thing only while its entries and the values it retains between    *)
(* orders agree with what the server remembers of them.                    *)
(*                                                                         *)
(* A cached thing is an object of the heap, a number; 0 is NULL.  The      *)
(* caches share nothing but the heap, except the bitmap and the offscreen  *)
(* cache, so each behaviour exercises one part (ocPart).  ocServer is what *)
(* the server remembers (external); it names only what it has sent.        *)
(***************************************************************************)
EXTENDS Integers, Sequences, FiniteSets, TLC

CONSTANTS
    Entries,        \* entries of every cache
    MaxObjects,     \* bound on the objects ever allocated
    Texts           \* the glyph strings the server sends

ASSUME OcAssumption == Entries \in Nat \ {0} /\ MaxObjects \in Nat

VARIABLES ocPart, ocHeap, ocCache, ocOrder, ocServer, ocDraw

ocVars == <<ocPart, ocHeap, ocCache, ocOrder, ocServer, ocDraw>>

NULL == 0
PRIMARY == -1          \* the screen as the surface drawn on
P8X8 == -1             \* brush->data points to the order's own pattern
SCREEN_BITMAP_SURFACE == Entries
BITMAP_CACHE_WAITING_LIST_INDEX == Entries
GLYPH_FRAGMENT_USE == 254
GLYPH_FRAGMENT_ADD == 255
Indexes == 0 .. (Entries - 1)
Empty == [i \in Indexes |-> NULL]

(* xmalloc and xfree.  "twice": something was freed that was not there.    *)
Alloc(h) == [h EXCEPT !.next = @ + 1, !.live = @ \cup {h.next}]
Free(h, o) ==
    IF o = NULL THEN h
    ELSE [h EXCEPT !.live = @ \ {o}, !.twice = @ \/ o \notin h.live]
CanAlloc == ocHeap.next <= MaxObjects

NoDraw == [meant |-> 0, used |-> 0, safe |-> TRUE, whole |-> TRUE]

(* The empty caches; a bitmap cell has one more entry, the waiting list.   *)
bitmap_cache_new == [bitmap |-> [i \in 0 .. Entries |-> NULL], ephemeral |-> NULL, made |-> FALSE]
offscreen_cache_new ==
    [offscreen |-> Empty, currentSurface |-> SCREEN_BITMAP_SURFACE, drawing |-> PRIMARY]
brush_cache_new == [brush |-> Empty]
pointer_cache_new == [pointer |-> Empty, shown |-> NULL]
glyph_cache_new == [glyph |-> Empty, fragment |-> [i \in Indexes |-> <<>>], store |-> Empty]
cache_new ==
    glyph_cache_new @@ brush_cache_new @@ pointer_cache_new @@ bitmap_cache_new
      @@ offscreen_cache_new @@ [open |-> TRUE]

OcInit ==
    /\ ocPart \in {"bitmap", "brush", "pointer", "glyph"}
    /\ ocHeap = [next |-> 1, live |-> {}, twice |-> FALSE]
    /\ ocCache = cache_new
    /\ ocOrder = [style |-> "solid", hatch |-> 0, data |-> NULL, p8x8 |-> <<0, 0>>]
    /\ ocServer = [bitmap |-> [i \in 0 .. Entries |-> NULL], offscreen |-> Empty,
                   surface |-> SCREEN_BITMAP_SURFACE, hatch |-> 0,
                   rest |-> 0, kept |-> FALSE, brush |-> Empty, pointer |-> Empty,
                   glyph |-> Empty, fragment |-> [i \in Indexes |-> <<>>],
                   partial |-> {}, emptyFirst |-> FALSE]
    /\ ocDraw = NoDraw

In(part) == ocPart = part /\ ocCache.open /\ UNCHANGED ocPart

----------------------------------------------------------------------------
(* Bitmaps and offscreen bitmaps                                           *)

bitmap_cache_get(index) == ocCache.bitmap[index]
bitmap_cache_put(cache, index, bitmap) == [cache EXCEPT !.bitmap[index] = bitmap]

(* The three versions of the order differ only in how the pixels are read. *)
Caches(index) ==
    /\ In("bitmap") /\ CanAlloc
    /\ ocHeap' = Free(Alloc(ocHeap), bitmap_cache_get(index))
    /\ ocCache' = bitmap_cache_put(ocCache, index, ocHeap.next)
    /\ ocServer' = [ocServer EXCEPT !.bitmap[index] = ocHeap.next]
    /\ ocDraw' = NoDraw /\ UNCHANGED ocOrder

update_gdi_cache_bitmap(index) == Caches(index)
update_gdi_cache_bitmap_v2(index) == Caches(index)
update_gdi_cache_bitmap_v3(index) == Caches(index)

offscreen_cache_get(index) == ocCache.offscreen[index]

(* A drawing order: the source it names, on the surface chosen before.     *)
Blit(meant, used) ==
    /\ ocServer.surface # SCREEN_BITMAP_SURFACE => ocServer.offscreen[ocServer.surface] # NULL
    /\ ocDraw' = [meant |-> <<meant, IF ocServer.surface = SCREEN_BITMAP_SURFACE THEN PRIMARY
                                     ELSE ocServer.offscreen[ocServer.surface]>>,
                  used  |-> <<used, ocCache.drawing>>,
                  safe  |-> {used, ocCache.drawing} \subseteq ocHeap.live \cup {PRIMARY},
                  whole |-> TRUE]
    /\ UNCHANGED <<ocHeap, ocCache, ocServer, ocOrder>>

(* A cell's bitmap, or an offscreen bitmap when cacheId is 0xFF.           *)
Blits ==
    /\ In("bitmap")
    /\ \/ \E i \in 0 .. Entries :
            ocServer.bitmap[i] # NULL /\ Blit(ocServer.bitmap[i], bitmap_cache_get(i))
       \/ \E i \in Indexes :
            ocServer.offscreen[i] # NULL /\ Blit(ocServer.offscreen[i], offscreen_cache_get(i))

update_gdi_memblt == Blits
update_gdi_mem3blt == Blits

(* Mutant: the pixels of a bitmap that is used again are freed and not made*)
(* again.                                                                  *)
update_gdi_bitmap_update_reused(number) ==
    LET fresh == ocCache.ephemeral = NULL
    IN  /\ In("bitmap") /\ (fresh => CanAlloc)
        /\ ocHeap' = LET h == IF fresh THEN Alloc(ocHeap) ELSE ocHeap
                     IN  [h EXCEPT !.twice = @ \/ (number > 0 /\ ~fresh /\ ~ocCache.made)]
        /\ ocCache' = [ocCache EXCEPT !.ephemeral = IF fresh THEN ocHeap.next ELSE @,
                                      !.made = number > 0 /\ fresh]
        /\ ocServer' = [ocServer EXCEPT !.emptyFirst = @ \/ (fresh /\ number = 0)]
        /\ ocDraw' = NoDraw /\ UNCHANGED ocOrder

(* One ephemeral bitmap serves all bitmap updates.  Its pixels are freed   *)
(* before they are made again, except by the update that allocates it.     *)
update_gdi_bitmap_update(number) ==
    LET fresh == ocCache.ephemeral = NULL
    IN  /\ In("bitmap") /\ (fresh => CanAlloc)
        /\ ocHeap' = LET h == IF fresh THEN Alloc(ocHeap) ELSE ocHeap
                     IN  [h EXCEPT !.twice = @ \/ (number > 0 /\ ~fresh /\ ~ocCache.made)]
        /\ ocCache' = [ocCache EXCEPT !.ephemeral = IF fresh THEN ocHeap.next ELSE @,
                                      !.made = @ \/ number > 0]
        /\ ocServer' = [ocServer EXCEPT !.emptyFirst = @ \/ (fresh /\ number = 0)]
        /\ ocDraw' = NoDraw /\ UNCHANGED ocOrder

offscreen_cache_delete(state, index) ==
    [heap |-> Free(state.heap, state.cache.offscreen[index]),
     cache |-> [state.cache EXCEPT !.offscreen[index] = NULL]]

offscreen_cache_put(state, index, bitmap) ==
    LET deleted == offscreen_cache_delete(state, index)
    IN  [deleted EXCEPT !.cache.offscreen[index] = bitmap]

(* "gone" is the bitmap of the delete list; SCREEN_BITMAP_SURFACE: none.   *)
update_gdi_create_offscreen_bitmap(id, gone) ==
    LET bitmap  == ocHeap.next
        put     == offscreen_cache_put(
                     offscreen_cache_delete([heap |-> Alloc(ocHeap), cache |-> ocCache], id),
                     id, bitmap)
        set     == IF ocCache.currentSurface = id THEN [put EXCEPT !.cache.drawing = bitmap] ELSE put
        deleted == IF gone \in Indexes THEN offscreen_cache_delete(set, gone) ELSE set
    IN  /\ In("bitmap") /\ CanAlloc /\ gone # id
        /\ ocHeap' = deleted.heap /\ ocCache' = deleted.cache
        /\ ocServer' = [ocServer EXCEPT !.offscreen = [i \in Indexes |->
                            IF i = id THEN bitmap ELSE IF i = gone THEN NULL ELSE @[i]]]
        /\ ocDraw' = NoDraw /\ UNCHANGED ocOrder

Bitmap_SetSurface(cache, bitmap, primary) ==
    [cache EXCEPT !.drawing = IF primary THEN PRIMARY ELSE bitmap]

update_gdi_switch_surface(id) ==
    /\ In("bitmap")
    /\ id \in Indexes => ocServer.offscreen[id] # NULL
    /\ ocCache' = [(IF id = SCREEN_BITMAP_SURFACE THEN Bitmap_SetSurface(ocCache, NULL, TRUE)
                    ELSE Bitmap_SetSurface(ocCache, offscreen_cache_get(id), FALSE))
                   EXCEPT !.currentSurface = id]
    /\ ocServer' = [ocServer EXCEPT !.surface = id]
    /\ ocDraw' = NoDraw /\ UNCHANGED <<ocHeap, ocOrder>>

----------------------------------------------------------------------------
(* Brushes.  A pattern is its first row (the hatch byte) and the others.   *)

brush_cache_get(index) == ocCache.brush[index]
brush_cache_put(cache, index, entry) == [cache EXCEPT !.brush[index] = entry]

update_gdi_cache_brush(index) ==
    /\ In("brush") /\ CanAlloc
    /\ ocHeap' = Free(Alloc(ocHeap), brush_cache_get(index))
    /\ ocCache' = brush_cache_put(ocCache, index, ocHeap.next)
    /\ ocServer' = [ocServer EXCEPT !.brush[index] = ocHeap.next]
    /\ ocDraw' = NoDraw /\ UNCHANGED ocOrder

(* The order carries the fields that differ from the previous one, field 5 *)
(* (the other rows) possibly though it does not.                           *)
update_read_brush(order, style, hatch, rest, field5) ==
    [order EXCEPT !.style = style, !.hatch = hatch,
                  !.data = IF field5 THEN P8X8 ELSE @,
                  !.p8x8 = IF field5 THEN <<hatch, rest>> ELSE @]

update_gdi_patblt(style, hatch, rest, field5) ==
    LET read   == update_read_brush(ocOrder, style, hatch, rest, field5)
        cached == style = "cached"
        brush  == IF cached THEN [read EXCEPT !.data = brush_cache_get(hatch)] ELSE read
        own    == brush.data = P8X8
    IN  /\ In("brush")
        /\ cached => hatch \in Indexes /\ ocServer.brush[hatch] # NULL
        /\ rest # ocServer.rest => field5
        /\ ocOrder' = brush
        /\ ocDraw' = [meant |-> IF cached THEN <<ocServer.brush[hatch]>> ELSE <<hatch, rest>>,
                      used  |-> IF own THEN brush.p8x8 ELSE <<brush.data>>,
                      safe  |-> own \/ brush.data \in ocHeap.live,
                      whole |-> cached \/ field5 \/ (ocServer.kept /\ hatch = ocServer.hatch)]
        /\ ocServer' = [ocServer EXCEPT !.rest = rest,
                          !.hatch = IF field5 \/ ocServer.kept THEN hatch ELSE @,
                          !.kept = IF cached THEN FALSE
                                   ELSE field5 \/ (ocServer.kept /\ hatch = ocServer.hatch)]
        /\ UNCHANGED <<ocHeap, ocCache>>

----------------------------------------------------------------------------
(* Pointers                                                                *)

pointer_cache_get(index) == ocCache.pointer[index]
pointer_cache_put(state, index, pointer) ==
    [heap |-> Free(state.heap, state.cache.pointer[index]),
     cache |-> [state.cache EXCEPT !.pointer[index] = pointer]]

Shows(meant, cache, heap) ==
    ocDraw' = [meant |-> meant, used |-> cache.shown, safe |-> cache.shown \in heap.live,
               whole |-> TRUE]

(* The two orders differ in the colour depth of the mask.                  *)
NewPointer(index) ==
    LET put == pointer_cache_put([heap |-> Alloc(ocHeap), cache |-> ocCache], index, ocHeap.next)
    IN  /\ In("pointer") /\ CanAlloc
        /\ ocHeap' = put.heap
        /\ ocCache' = [put.cache EXCEPT !.shown = ocHeap.next]
        /\ ocServer' = [ocServer EXCEPT !.pointer[index] = ocHeap.next]
        /\ Shows(ocHeap.next, ocCache', ocHeap') /\ UNCHANGED ocOrder

update_pointer_color(index) == NewPointer(index)
update_pointer_new(index) == NewPointer(index)

update_pointer_cached(index) ==
    /\ In("pointer") /\ ocServer.pointer[index] # NULL
    /\ ocCache' = [ocCache EXCEPT !.shown = IF pointer_cache_get(index) # NULL
                                            THEN pointer_cache_get(index) ELSE @]
    /\ Shows(ocServer.pointer[index], ocCache', ocHeap)
    /\ UNCHANGED <<ocHeap, ocServer, ocOrder>>

----------------------------------------------------------------------------
(* Glyphs.  A string names glyphs by index; USE draws a stored fragment,   *)
(* ADD stores one, and the string goes on behind it.                       *)

glyph_cache_get(cache, index) == cache.glyph[index]
glyph_cache_put(state, index, glyph) ==
    [state EXCEPT !.heap = Free(state.heap, state.cache.glyph[index]),
                  !.cache.glyph[index] = glyph]

update_process_glyph(state, index) ==
    LET glyph == glyph_cache_get(state.cache, index)
    IN  IF glyph = NULL THEN state ELSE [state EXCEPT !.drawn = Append(@, glyph)]

RECURSIVE ProcessRun(_, _)
ProcessRun(state, run) ==
    IF run = <<>> THEN state ELSE ProcessRun(update_process_glyph(state, Head(run)), Tail(run))

glyph_cache_fragment_get(state, id) == state.cache.fragment[id]
glyph_cache_fragment_put(state, id, fragment) ==
    LET heap == Alloc(state.heap)
    IN  [state EXCEPT !.heap = Free(heap, state.cache.store[id]),
                      !.cache.fragment[id] = fragment,
                      !.cache.store[id] = state.heap.next]

(* index counts the bytes of data already processed, from 0.               *)
RECURSIVE update_process_glyph_fragments(_, _, _)
update_process_glyph_fragments(state, data, index) ==
    LET length == Len(data)
        Behind(n) == SubSeq(data, index + n + 1, length)
        id == data[index + 2]
        size == data[index + 3]
    IN  IF index >= length THEN state
        ELSE IF data[index + 1] = GLYPH_FRAGMENT_USE
        THEN IF index + 2 > length THEN state
             ELSE update_process_glyph_fragments(
                    ProcessRun(state, glyph_cache_fragment_get(state, id)),
                    Behind(IF index + 2 < length THEN 3 ELSE 2), 0)
        ELSE IF data[index + 1] = GLYPH_FRAGMENT_ADD
        THEN IF index + 3 > length THEN state
             ELSE update_process_glyph_fragments(
                    [glyph_cache_fragment_put(state, id, SubSeq(data, 1, size))
                     EXCEPT !.meant[id] = SubSeq(data, index - size + 1, index),
                            !.partial = IF size = index THEN @ \ {id} ELSE @ \cup {id}],
                    Behind(3), 0)
        ELSE update_process_glyph_fragments(
                    update_process_glyph(state, data[index + 1]), data, index + 1)

TextState(heap, cache) ==
    [heap |-> heap, cache |-> cache, drawn |-> <<>>, meant |-> ocServer.fragment,
     partial |-> ocServer.partial]

Draws(done, server) ==
    /\ done.heap.next <= MaxObjects + 1
    /\ ocHeap' = done.heap /\ ocCache' = done.cache
    /\ ocServer' = [server EXCEPT !.fragment = done.meant, !.partial = done.partial]
    /\ ocDraw' = [meant |-> 0, used |-> 0, whole |-> TRUE,
                  safe |-> \A i \in DOMAIN done.drawn : done.drawn[i] \in done.heap.live]

DrawsText(text) ==
    /\ In("glyph")
    /\ Draws(update_process_glyph_fragments(TextState(ocHeap, ocCache), text, 0), ocServer)
    /\ UNCHANGED ocOrder

update_gdi_glyph_index(text) == DrawsText(text)
update_gdi_fast_index(text) == DrawsText(text)

CachesGlyph(index) ==
    LET put == glyph_cache_put([heap |-> Alloc(ocHeap), cache |-> ocCache], index, ocHeap.next)
    IN  /\ In("glyph") /\ CanAlloc
        /\ ocHeap' = put.heap /\ ocCache' = put.cache
        /\ ocServer' = [ocServer EXCEPT !.glyph[index] = ocHeap.next]
        /\ ocDraw' = NoDraw /\ UNCHANGED ocOrder

update_gdi_cache_glyph(index) == CachesGlyph(index)
update_gdi_cache_glyph_v2(index) == CachesGlyph(index)

(* The order's string is one glyph; the glyph itself follows when it is    *)
(* not cached yet ("carried").                                             *)
update_gdi_fast_glyph(index, carried) ==
    LET start == TextState(IF carried THEN Alloc(ocHeap) ELSE ocHeap, ocCache)
        put   == IF carried THEN glyph_cache_put(start, index, ocHeap.next) ELSE start
        done  == update_process_glyph_fragments(put, <<index>>, 0)
        meant == IF carried THEN ocHeap.next ELSE ocServer.glyph[index]
    IN  /\ In("glyph") /\ (carried => CanAlloc)
        /\ carried \/ ocServer.glyph[index] # NULL
        /\ ocHeap' = done.heap /\ ocCache' = done.cache
        /\ ocServer' = [ocServer EXCEPT !.glyph[index] = meant]
        /\ ocDraw' = [meant |-> <<meant>>, used |-> done.drawn, whole |-> TRUE,
                      safe |-> \A i \in DOMAIN done.drawn : done.drawn[i] \in done.heap.live]
        /\ UNCHANGED ocOrder

----------------------------------------------------------------------------
(* A reactivation forgets what orders retain and draws on the screen; the  *)
(* caches stay.                                                            *)
update_reset_state ==
    /\ ocCache.open /\ UNCHANGED <<ocPart, ocHeap>>
    /\ ocCache' = [Bitmap_SetSurface(ocCache, NULL, TRUE)
                   EXCEPT !.currentSurface = SCREEN_BITMAP_SURFACE]
    /\ ocOrder' = [style |-> "solid", hatch |-> 0, data |-> NULL, p8x8 |-> <<0, 0>>]
    /\ ocServer' = [ocServer EXCEPT !.surface = SCREEN_BITMAP_SURFACE,
                                    !.hatch = 0, !.rest = 0, !.kept = FALSE]
    /\ ocDraw' = NoDraw

RECURSIVE FreeAll(_, _)
FreeAll(heap, objects) ==
    IF objects = <<>> THEN heap ELSE FreeAll(Free(heap, Head(objects)), Tail(objects))

Listed(entries, count) == [i \in 1 .. count |-> entries[i - 1]]

(* Every cache frees its entries; of the fragments all but the last.       *)
bitmap_cache_free(heap) ==
    Free(FreeAll(heap, Listed(ocCache.bitmap, Entries + 1)), ocCache.ephemeral)
offscreen_cache_free(heap) == FreeAll(heap, Listed(ocCache.offscreen, Entries))
brush_cache_free(heap) == FreeAll(heap, Listed(ocCache.brush, Entries))
pointer_cache_free(heap) == FreeAll(heap, Listed(ocCache.pointer, Entries))
glyph_cache_free(heap) ==
    FreeAll(FreeAll(heap, Listed(ocCache.glyph, Entries)), Listed(ocCache.store, Entries - 1))

cache_free ==
    /\ ocCache.open
    /\ ocHeap' = offscreen_cache_free(bitmap_cache_free(
                   pointer_cache_free(brush_cache_free(glyph_cache_free(ocHeap)))))
    /\ ocCache' = [ocCache EXCEPT !.open = FALSE]
    /\ ocDraw' = NoDraw /\ UNCHANGED <<ocPart, ocOrder, ocServer>>

----------------------------------------------------------------------------
OcNext ==
    \/ \E i \in 0 .. Entries :
         \/ update_gdi_cache_bitmap(i)
         \/ update_gdi_cache_bitmap_v2(i)
         \/ update_gdi_cache_bitmap_v3(i)
    \/ update_gdi_memblt \/ update_gdi_mem3blt
    \/ \E n \in 0 .. 1 : update_gdi_bitmap_update(n)
    \/ \E i \in Indexes, g \in 0 .. Entries : update_gdi_create_offscreen_bitmap(i, g)
    \/ \E i \in 0 .. Entries : update_gdi_switch_surface(i)
    \/ \E i \in Indexes : update_gdi_cache_brush(i)
    \/ \E style \in {"pattern", "cached"}, hatch \in 0 .. 1, rest \in 1 .. 2, f \in BOOLEAN :
         update_gdi_patblt(style, hatch, rest, f)
    \/ \E i \in Indexes : update_pointer_color(i) \/ update_pointer_new(i) \/ update_pointer_cached(i)
    \/ \E i \in Indexes : update_gdi_cache_glyph(i) \/ update_gdi_cache_glyph_v2(i)
    \/ \E i \in Indexes, c \in BOOLEAN : update_gdi_fast_glyph(i, c)
    \/ \E text \in Texts : update_gdi_glyph_index(text) \/ update_gdi_fast_index(text)
    \/ update_reset_state
    \/ cache_free

OcSpec == OcInit /\ [][OcNext]_ocVars

----------------------------------------------------------------------------
(* Type invariant: entries are objects or NULL, the heap counts objects.   *)
OcTypeOK ==
    /\ ocHeap.next \in 1 .. (MaxObjects + 1)
    /\ ocHeap.live \subseteq 1 .. MaxObjects /\ ocHeap.twice \in BOOLEAN
    /\ ocCache.bitmap \in [0 .. Entries -> 0 .. MaxObjects]
    /\ \A c \in {ocCache.offscreen, ocCache.brush, ocCache.pointer, ocCache.glyph, ocCache.store} :
         c \in [Indexes -> 0 .. MaxObjects]
    /\ ocCache.currentSurface \in 0 .. Entries
    /\ ocCache.drawing \in 0 .. MaxObjects \cup {PRIMARY}

(* Every order draws what the server means by it, with and on memory that  *)
(* is still there.  The one exception is a pattern brush whose rows the    *)
(* order leaves out although the client no longer has them: a cached brush *)
(* was drawn in between, or only the first row changed (update_gdi_patblt  *)
(* leaves brush->data in the cache; update_read_brush copies the hatch     *)
(* byte only together with field 5).                                       *)
DrawsWhatIsMeant ==
    ocDraw.whole => ocDraw.used = ocDraw.meant /\ ocDraw.safe

(* Nothing is freed twice or before it was made: replacing an entry,       *)
(* deleting and creating an offscreen bitmap under one id, and the final   *)
(* cache_free together free each object once.  Only a first bitmap update  *)
(* without rectangles makes the next one free pixels that were never made. *)
FreedOnce == ocHeap.twice => ocServer.emptyFirst

(* No object is lost: while the caches are open every live object is an    *)
(* entry of one, and cache_free leaves only the last fragment behind.      *)
NothingLost ==
    LET Held == {ocCache.bitmap[i] : i \in 0 .. Entries} \cup {ocCache.ephemeral}
                \cup UNION {{c[i] : i \in Indexes} : c \in {ocCache.offscreen, ocCache.brush,
                              ocCache.pointer, ocCache.glyph, ocCache.store}}
    IN  ocHeap.live = IF ocCache.open THEN Held \ {NULL}
                      ELSE {ocCache.store[Entries - 1]} \ {NULL}

(* A stored fragment is the run of glyphs in front of its ADD, unless the  *)
(* ADD covers only the end of the string: the client copies the beginning. *)
FragmentsAgree ==
    \A id \in Indexes : ocCache.fragment[id] = ocServer.fragment[id] \/ id \in ocServer.partial

=============================================================================
