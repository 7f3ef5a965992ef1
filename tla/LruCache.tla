------------------------------- MODULE LruCache -------------------------------
(***************************************************************************)
(* The cache of file metadata of cell/cell_lru_cache.c, at the level of    *)
(* its pointers and locks.                                                 *)
(*                                                                         *)
(* An item is reached in two ways: from the hash table, whose chains are   *)
(* protected by a row lock, and from one of two circular lists ("younger"  *)
(* and "older"), which the cache lock protects together with reference     *)
(* counts and sizes.  No operation holds both locks, so between its two    *)
(* halves an operation keeps a bare pointer to an item: these are the      *)
(* states in which pc[w] is not "idle".  What runs under one lock touches  *)
(* nothing the other protects and waits for nothing, hence is one step.    *)
(*                                                                         *)
(* A block is the memory of an item; free makes it dead, malloc may reuse  *)
(* it.  Touching a dead block, following a NULL pointer or failing an      *)
(* assert sets c.fault, after which the process does nothing more.         *)
(***************************************************************************)
EXTENDS Integers, FiniteSets, FiniteSetsExt

CONSTANTS Worker,     \* the threads that use the cache
          Key,
          Block,      \* memory blocks: bounds how many items may be alive
          Null,
          Bytes,      \* the sizes an item may have
          Limit,      \* max_size
          Threshold,  \* CEEDOUT_THROLD, 864000 seconds in the code
          VMod,       \* the modulus of vcount, 2^16 in the code
          MaxClock    \* bound on the clock

Younger == "younger"
Older == "older"
Head == {Younger, Older}
Node == Block \cup Head

ASSUME LruAssumption ==
          /\ Worker # {} /\ IsFiniteSet(Worker)
          /\ IsFiniteSet(Block) /\ Null \notin Node
          /\ Block \cap Head = {}
          /\ Limit \in Nat /\ MaxClock \in Nat
          /\ Bytes \subseteq Nat \ {0}
          /\ \A n \in Bytes : n <= Limit
          /\ VMod \in Nat \ (0 .. 3)

VARIABLES table,      \* table[k]: the item found under key k, or Null
          c,          \* what the cache lock protects, see Init
          pc,         \* pc[w]: where worker w is
          item,       \* item[w]: the item w has a pointer to
          old,        \* old[w]: the item insert_cache displaced from the table
          now,        \* now[w]: the time insert_cache stamped its item with
          clock       \* time(NULL), in days if Threshold is

vars == <<table, c, pc, item, old, now, clock>>
local == <<pc, item, old, now>>

\* create_cache: an empty table, both lists empty
Init ==
    /\ table = [k \in Key |-> Null]
    /\ c = [live   |-> {},                      \* blocks malloc has given out
            key    |-> [b \in Block |-> Null],
            bytes  |-> [b \in Block |-> 0],     \* the item's size field
            time   |-> [b \in Block |-> 0],
            next   |-> [n \in Node |-> IF n \in Head THEN n ELSE Null],
            prev   |-> [n \in Node |-> IF n \in Head THEN n ELSE Null],
            ref    |-> [b \in Block |-> 0],     \* refcount
            vcount |-> [b \in Block |-> 0],
            size   |-> 0,                       \* curr_size
            items  |-> 0,                       \* items_number
            fault  |-> "none"]
    /\ pc = [w \in Worker |-> "idle"]
    /\ item = [w \in Worker |-> Null]
    /\ old = [w \in Worker |-> Null]
    /\ now = [w \in Worker |-> 0]
    /\ clock = 0

-------------------------------------------------------------------------------
(***************************************************************************)
(* The static helpers, as functions from cache to cache: an operation of   *)
(* the program composes several of them under one lock.                    *)
(***************************************************************************)
Fault(d, f) == IF d.fault = "none" THEN [d EXCEPT !.fault = f] ELSE d

Reachable(d, n) == n \in d.live \cup Head

\* remove_list: the item's own pointers stay as they were
RemoveList(d, b) ==
    LET p == d.prev[b]
        n == d.next[b]
    IN  IF b \notin d.live THEN Fault(d, "use_after_free")
        ELSE IF Null \in {p, n} THEN Fault(d, "null_pointer")
        ELSE IF ~(Reachable(d, p) /\ Reachable(d, n))
             THEN Fault(d, "use_after_free")
        ELSE [d EXCEPT !.next[p] = n, !.prev[n] = p]

\* append_older and append_younger
AppendTo(d, h, b) ==
    LET p == d.prev[h]
    IN  IF ~(Reachable(d, b) /\ Reachable(d, p))
        THEN Fault(d, "use_after_free")
        ELSE [d EXCEPT !.prev[b] = p, !.next[b] = h,
                       !.next[p] = b, !.prev[h] = b]

\* free: what the block held is gone
Free(d, b) == [d EXCEPT !.live = @ \ {b}, !.key[b] = Null, !.bytes[b] = 0,
                        !.time[b] = 0, !.ref[b] = 0, !.vcount[b] = 0,
                        !.next[b] = Null, !.prev[b] = Null,
                        !.size = @ - d.bytes[b]]

\* a slip in unref: the item is freed but its bytes stay on the account
UnrefKeepingSize(d, b) ==
    IF d.ref[b] > 1 THEN [d EXCEPT !.ref[b] = @ - 1]
    ELSE [Free(d, b) EXCEPT !.size = d.size]

\* a slip in unref: the item is freed whoever else refers to it
UnrefFreeing(d, b) == IF b \notin d.live THEN Fault(d, "use_after_free")
                      ELSE Free(d, b)

Unref(d, b) ==
    IF b \notin d.live THEN Fault(d, "use_after_free")
    ELSE IF d.ref[b] > 1 THEN [d EXCEPT !.ref[b] = @ - 1]
    ELSE Free(d, b)

Goto(w, label) == pc' = [pc EXCEPT ![w] = label]

\* no further step once the process has crashed or gone undefined
Running == c.fault = "none"

\* find_item_pointer walks over the item of key k, so it must be alive
Findable(k) == table[k] = Null \/ table[k] \in c.live

-------------------------------------------------------------------------------
(***************************************************************************)
(* get_cache and release_cache                                             *)
(***************************************************************************)
\* under the row lock: the item is found; no reference is taken yet
GetFind(w) ==
    /\ pc[w] = "idle"
    /\ \E k \in Key :
          /\ table[k] # Null
          /\ IF Findable(k)
             THEN /\ item' = [item EXCEPT ![w] = table[k]]
                  /\ Goto(w, "get_link")
                  /\ UNCHANGED c
             ELSE c' = Fault(c, "use_after_free") /\ UNCHANGED <<item, pc>>
    /\ UNCHANGED <<table, old, now, clock>>

ListFor(visits) == IF visits >= 3 THEN Older ELSE Younger

Visit(d, b) ==
    LET v == (d.vcount[b] + 1) % VMod
    IN  AppendTo([RemoveList(d, b) EXCEPT !.ref[b] = @ + 1, !.vcount[b] = v],
                 ListFor(v), b)

\* under the cache lock: the item moves to the end of its list
GetLink(w) ==
    /\ pc[w] = "get_link"
    /\ c' = Visit(c, item[w])
    /\ Goto(w, "reading")
    /\ UNCHANGED <<table, item, old, now, clock>>

ReleaseCache(w) ==
    /\ pc[w] = "reading"
    /\ c' = Unref(c, item[w])
    /\ item' = [item EXCEPT ![w] = Null]
    /\ Goto(w, "idle")
    /\ UNCHANGED <<table, old, now, clock>>

-------------------------------------------------------------------------------
(***************************************************************************)
(* cache_weedout.  Each round picks a victim and unlinks it from its list  *)
(* under the cache lock (the step before pc[w] = "weed_table"), deletes    *)
(* its key from the table under the row lock, and frees it under the       *)
(* cache lock again, where the next round is decided.                      *)
(***************************************************************************)
Victim(d, t) ==
    LET y == d.next[Younger]
        o == d.next[Older]
    IN  IF /\ d.time[y] + Threshold < t
           /\ o # Older
           /\ d.time[y] > d.time[o]
        THEN o ELSE y

\* a slip: the loop ends one item too early
FullLate(d) == d.size > Limit + 1

Full(d) == d.size > Limit

\* assert(it != &(lru_cache->younger)), and the memory it points to
VictimFault(d) == IF d.next[Younger] = Younger THEN "assert_younger"
                  ELSE IF ~Reachable(d, d.next[Younger])
                       THEN "use_after_free" ELSE "none"

\* a slip: the victim stays on its list while the table is updated
WeedWithoutUnlink(w, d, t) ==
    IF Full(d) /\ VictimFault(d) = "none"
    THEN /\ c' = d
         /\ item' = [item EXCEPT ![w] = Victim(d, t)]
         /\ Goto(w, "weed_table")
    ELSE /\ c' = d
         /\ item' = [item EXCEPT ![w] = Null]
         /\ Goto(w, "idle")

\* the head of the loop with the cache lock held and the cache in state d
Weed(w, d, t) ==
    IF ~Full(d)
    THEN /\ c' = d
         /\ item' = [item EXCEPT ![w] = Null]
         /\ Goto(w, "idle")
    ELSE IF VictimFault(d) # "none"
    THEN /\ c' = Fault(d, VictimFault(d))
         /\ UNCHANGED <<item, pc>>
    ELSE /\ c' = RemoveList(d, Victim(d, t))
         /\ item' = [item EXCEPT ![w] = Victim(d, t)]
         /\ Goto(w, "weed_table")

\* delete_item, by key: whatever item the table has under the victim's key
WeedTable(w) ==
    LET v == item[w]
    IN  /\ pc[w] = "weed_table"
        /\ IF v \in c.live /\ Findable(c.key[v])
           THEN /\ table' = [table EXCEPT ![c.key[v]] = Null]
                /\ UNCHANGED c
           ELSE c' = Fault(c, "use_after_free") /\ UNCHANGED table
        /\ Goto(w, "weed_unref")
        /\ UNCHANGED <<item, old, now, clock>>

WeedUnref(w) ==
    /\ pc[w] = "weed_unref"
    /\ Weed(w, Unref([c EXCEPT !.items = @ - 1], item[w]), now[w])
    /\ UNCHANGED <<table, old, now, clock>>

-------------------------------------------------------------------------------
(***************************************************************************)
(* insert_cache and erase_cache                                            *)
(***************************************************************************)
\* malloc and memset: in no list, one visit, the table's own reference
NewItem(d, b, k, n) ==
    [d EXCEPT !.live = @ \cup {b}, !.key[b] = k, !.bytes[b] = n,
              !.time[b] = clock, !.ref[b] = 1, !.vcount[b] = 1]

InsertTable(w) ==
    /\ pc[w] = "idle"
    /\ \E k \in Key, b \in Block \ c.live, n \in Bytes :
          /\ c' = LET d == NewItem(c, b, k, n)
                  IN  IF Findable(k) THEN d ELSE Fault(d, "use_after_free")
          /\ table' = [table EXCEPT ![k] = b]
          /\ old' = [old EXCEPT ![w] = table[k]]
          /\ item' = [item EXCEPT ![w] = b]
    /\ now' = [now EXCEPT ![w] = clock]
    /\ Goto(w, "insert_link")
    /\ UNCHANGED clock

\* the displaced item loses its place on a list and the table's reference
DropOld(d, b) == IF b = Null THEN d
                 ELSE [Unref(RemoveList(d, b), b) EXCEPT !.items = @ - 1]

CountItem(d, b) == [d EXCEPT !.size = @ + d.bytes[b], !.items = @ + 1]

InsertLink(w) ==
    /\ pc[w] = "insert_link"
    /\ Weed(w, AppendTo(CountItem(DropOld(c, old[w]), item[w]),
                        Younger, item[w]), now[w])
    /\ old' = [old EXCEPT ![w] = Null]
    /\ UNCHANGED <<table, now, clock>>

EraseTable(w) ==
    /\ pc[w] = "idle"
    /\ \E k \in Key :
          /\ table[k] # Null
          /\ IF Findable(k)
             THEN /\ table' = [table EXCEPT ![k] = Null]
                  /\ item' = [item EXCEPT ![w] = table[k]]
                  /\ Goto(w, "erase_link")
                  /\ UNCHANGED c
             ELSE c' = Fault(c, "use_after_free") /\ UNCHANGED <<table, item, pc>>
    /\ UNCHANGED <<old, now, clock>>

EraseLink(w) ==
    /\ pc[w] = "erase_link"
    /\ c' = Unref(RemoveList([c EXCEPT !.items = @ - 1], item[w]), item[w])
    /\ item' = [item EXCEPT ![w] = Null]
    /\ Goto(w, "idle")
    /\ UNCHANGED <<table, old, now, clock>>

Tick == /\ clock < MaxClock
        /\ clock' = clock + 1
        /\ UNCHANGED <<table, c, local>>

Next == /\ Running
        /\ \/ Tick
           \/ \E w \in Worker :
                 \/ GetFind(w) \/ GetLink(w) \/ ReleaseCache(w)
                 \/ InsertTable(w) \/ InsertLink(w)
                 \/ WeedTable(w) \/ WeedUnref(w)
                 \/ EraseTable(w) \/ EraseLink(w)

Spec == Init /\ [][Next]_vars

(***************************************************************************)
(* When the two halves of operations meet at the right item.  A worker     *)
(* between its halves keeps a bare pointer; harm is done when another      *)
(* worker between its halves has a pointer to the same item and one of the *)
(* two adds or drops it (lru_weed_race.cfg).  Apart says that this does    *)
(* not happen: readers, and two lookups, may share an item.                *)
(***************************************************************************)
Holds(w) == IF pc[w] \in {"idle", "reading"} THEN {} ELSE {item[w], old[w]} \ {Null}
Moves(w) == IF pc[w] = "get_link" THEN {} ELSE Holds(w)

Apart == \A v, w \in Worker : v # w => Moves(v) \cap Holds(w) = {}

ApartSpec == Init /\ [][Next /\ Apart']_vars

-------------------------------------------------------------------------------
Quiet == \A w \in Worker : pc[w] \in {"idle", "reading"}

\* The nodes met going round list h, h itself excluded.
Ring(h) == LET walk[i \in 0 .. Cardinality(Block)] ==
                   IF i = 0 THEN h
                   ELSE IF walk[i - 1] = Null THEN Null ELSE c.next[walk[i - 1]]
           IN  {walk[i] : i \in DOMAIN walk} \ {h}

Cached == {table[k] : k \in Key} \ {Null}

TypeOK == /\ table \in [Key -> Block \cup {Null}]
          /\ c.live \subseteq Block
          /\ c.next \in [Node -> Node \cup {Null}]
          /\ c.prev \in [Node -> Node \cup {Null}]
          /\ c.vcount \in [Block -> 0 .. VMod - 1]
          /\ c.size \in Nat /\ c.items \in Nat
          /\ item \in [Worker -> Block \cup {Null}]
          /\ old \in [Worker -> Block \cup {Null}]
          /\ now \in [Worker -> 0 .. MaxClock]
          /\ pc \in [Worker -> {"idle", "get_link", "reading", "insert_link",
                                "weed_table", "weed_unref", "erase_link"}]

\* No operation touches freed memory or follows a NULL list pointer, however
\* the halves of the operations interleave at other items (get_cache,
\* cache_weedout, insert_cache, erase_cache).  The assert of cache_weedout is
\* left out: see YoungerHasVictim.
MemorySafe == c.fault \in {"none", "assert_younger"}

\* Between operations the two ways to an item agree: an item is on exactly
\* one list exactly when the table has it under its own key, and going round
\* a list forwards and backwards visits the same items.
TableMatchesLists ==
    Quiet => /\ Ring(Younger) \cap Ring(Older) = {}
             /\ Ring(Younger) \cup Ring(Older) = Cached
             /\ \A k \in Key : table[k] # Null => c.key[table[k]] = k
             /\ \A n \in Cached \cup Head : c.prev[c.next[n]] = n

Counted == c.live \ {item[w] : w \in {v \in Worker : pc[v] = "insert_link"}}

\* A live item has one reference for the cache and one for each reader, so it
\* is freed by whoever lets go of it last, and no item outlives that.
RefExact ==
    \A b \in c.live :
        c.ref[b] = Cardinality({w \in Worker : item[w] = b})
                     + (IF b \in Cached THEN 1 ELSE 0)

\* curr_size is the memory of every item that entered the cache and was not
\* freed, the ones that were weeded out, replaced or erased while a reader holds
\* them included; between operations items_number counts the keys in the table,
\* and the references of an item are those of the cache and of its readers.
Accounting == Running =>
                /\ c.size = MapThenSumSet(LAMBDA b : c.bytes[b], Counted)
                /\ Quiet => c.items = Cardinality(Cached) /\ RefExact

\* The cache is larger than max_size only while somebody is weeding it out:
\* items that readers hold count, but no operation ends before the others fit
\* (cache_weedout decides under the cache lock that frees the last victim).
Weeding == {w \in Worker : pc[w] \in {"weed_table", "weed_unref"}}

WithinLimit == c.size > Limit => Weeding # {} \/ ~ Running

-------------------------------------------------------------------------------
(***************************************************************************)
(* What the comments of the file say of it.                                *)
(***************************************************************************)
\* "the item must first be removed from older or younger, to prevent other
\* threads from releasing it again" (cell_lru_cache.c:230): the item that
\* cache_weedout is working on is not freed under its hands.
VictimStaysAlive ==
    \A w \in Worker : pc[w] \in {"weed_table", "weed_unref"} => item[w] \in c.live

\* assert(it != &(lru_cache->younger)) (cell_lru_cache.c:220): while the cache
\* is too large the younger list has a victim to offer.
YoungerHasVictim == c.fault # "assert_younger"

\* "an item visited 3 times or more goes to the older list"
\* (cell_lru_cache.c:176): a get never takes an item back from there.
OlderStaysOlder ==
    [][\A b \in Block : (b \in Ring(Older) /\ b \in c'.live)
                            => b \notin Ring(Younger)']_vars

\* "if the items of younger are younger than the threshold, check whether to
\* weed out from older" (cell_lru_cache.c:11, :222): a younger item below the
\* threshold is not weeded out while older has an item that came earlier.
FreshYoungerIsSpared ==
    [][\A w \in Worker :
         LET b == item'[w]
             o == c.next[Older]
         IN  (pc'[w] = "weed_table" /\ pc[w] # "weed_table" /\ o # Older)
               => ~(/\ b \in Ring(Younger)
                    /\ c.time[b] + Threshold >= now[w]
                    /\ c.time[b] > c.time[o])]_vars
===============================================================================
