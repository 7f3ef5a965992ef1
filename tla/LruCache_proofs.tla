---------------------------- MODULE LruCache_proofs ----------------------------
(***************************************************************************)
(* Proofs about LruCache, for every number of threads, keys and blocks,    *)
(* every size, limit and threshold.  That the cache is within its limit is *)
(* proved of every interleaving; the rest is proved of the interleavings   *)
(* in which the halves of operations do not meet at one item (Apart): with *)
(* others TLC refutes it.                                                  *)
(*                                                                         *)
(* Sound follows an operation through its halves: which items are on the   *)
(* lists, what is live without being in the table, what is counted.  The   *)
(* lists are described without going round them: next and prev are each    *)
(* other's inverse on the items (Doubly), each item belongs to one of the  *)
(* heads (Sided), and nothing goes round without a head (Headed).          *)
(***************************************************************************)
EXTENDS LruCache, FiniteSetTheorems, WellFoundedInduction, TLAPS

USE LruAssumption

-------------------------------------------------------------------------------
(***************************************************************************)
(* The limit, whatever the interleaving.  Little is known of the pointers  *)
(* then, but sizes only shrink between the insertions, and an insertion    *)
(* goes on until the cache fits.                                           *)
(***************************************************************************)
Fields(d) == [live |-> d.live, key |-> d.key, bytes |-> d.bytes, time |-> d.time,
              next |-> d.next, prev |-> d.prev, ref |-> d.ref, vcount |-> d.vcount,
              size |-> d.size, items |-> d.items, fault |-> d.fault]

Sized(d) == /\ d = Fields(d)
            /\ d.live \in SUBSET Block
            /\ d.bytes \in [Block -> Nat]
            /\ d.size \in Int

Shrinks(d, e) == Sized(e) /\ e.size <= d.size

\* A field of a cache but for three that count here may be set.
LEMMA FieldSet ==
  ASSUME NEW d, Sized(d), NEW x, NEW y
  PROVE  /\ Shrinks(d, [d EXCEPT !.prev[x] = y])
         /\ Shrinks(d, [d EXCEPT !.next[x] = y])
         /\ Shrinks(d, [d EXCEPT !.ref[x] = y])
         /\ Shrinks(d, [d EXCEPT !.vcount[x] = y])
         /\ Shrinks(d, [d EXCEPT !.key[x] = y])
         /\ Shrinks(d, [d EXCEPT !.time[x] = y])
         /\ Shrinks(d, [d EXCEPT !.items = y])
         /\ Shrinks(d, [d EXCEPT !.fault = y])
<1>1. ASSUME NEW e, e = [d EXCEPT !.prev[x] = y]
      PROVE  Shrinks(d, e)
  <2>1. e = Fields(e) /\ e.live = d.live /\ e.bytes = d.bytes /\ e.size = d.size
    BY <1>1 DEF Sized, Fields
  <2> QED
    BY <2>1 DEF Sized, Shrinks
<1>2. ASSUME NEW e, e = [d EXCEPT !.next[x] = y]
      PROVE  Shrinks(d, e)
  <2>1. e = Fields(e) /\ e.live = d.live /\ e.bytes = d.bytes /\ e.size = d.size
    BY <1>2 DEF Sized, Fields
  <2> QED
    BY <2>1 DEF Sized, Shrinks
<1>3. ASSUME NEW e, e = [d EXCEPT !.ref[x] = y]
      PROVE  Shrinks(d, e)
  <2>1. e = Fields(e) /\ e.live = d.live /\ e.bytes = d.bytes /\ e.size = d.size
    BY <1>3 DEF Sized, Fields
  <2> QED
    BY <2>1 DEF Sized, Shrinks
<1>4. ASSUME NEW e, e = [d EXCEPT !.vcount[x] = y]
      PROVE  Shrinks(d, e)
  <2>1. e = Fields(e) /\ e.live = d.live /\ e.bytes = d.bytes /\ e.size = d.size
    BY <1>4 DEF Sized, Fields
  <2> QED
    BY <2>1 DEF Sized, Shrinks
<1>5. ASSUME NEW e, e = [d EXCEPT !.key[x] = y]
      PROVE  Shrinks(d, e)
  <2>1. e = Fields(e) /\ e.live = d.live /\ e.bytes = d.bytes /\ e.size = d.size
    BY <1>5 DEF Sized, Fields
  <2> QED
    BY <2>1 DEF Sized, Shrinks
<1>6. ASSUME NEW e, e = [d EXCEPT !.time[x] = y]
      PROVE  Shrinks(d, e)
  <2>1. e = Fields(e) /\ e.live = d.live /\ e.bytes = d.bytes /\ e.size = d.size
    BY <1>6 DEF Sized, Fields
  <2> QED
    BY <2>1 DEF Sized, Shrinks
<1>7. ASSUME NEW e, e = [d EXCEPT !.items = y]
      PROVE  Shrinks(d, e)
  <2>1. e = Fields(e) /\ e.live = d.live /\ e.bytes = d.bytes /\ e.size = d.size
    BY <1>7 DEF Sized, Fields
  <2> QED
    BY <2>1 DEF Sized, Shrinks
<1>8. ASSUME NEW e, e = [d EXCEPT !.fault = y]
      PROVE  Shrinks(d, e)
  <2>1. e = Fields(e) /\ e.live = d.live /\ e.bytes = d.bytes /\ e.size = d.size
    BY <1>8 DEF Sized, Fields
  <2> QED
    BY <2>1 DEF Sized, Shrinks
<1> QED
  BY <1>1, <1>2, <1>3, <1>4, <1>5, <1>6, <1>7, <1>8

LEMMA ShrinksOn ==
  ASSUME NEW d, NEW e, NEW f, Sized(d), Shrinks(d, e), Shrinks(e, f)
  PROVE  Shrinks(d, f)
  BY DEF Shrinks, Sized

LEMMA FaultShrinks ==
  ASSUME NEW d, Sized(d), NEW f
  PROVE  Shrinks(d, Fault(d, f))
<1>1. Shrinks(d, d)
  BY DEF Sized, Shrinks
<1> QED
  BY <1>1, FieldSet DEF Fault

LEMMA RemoveShrinks ==
  ASSUME NEW d, Sized(d), NEW b
  PROVE  Shrinks(d, RemoveList(d, b))
<1> DEFINE p == d.prev[b]
           n == d.next[b]
           e == [d EXCEPT !.next[p] = n]
           f == [e EXCEPT !.prev[n] = p]
<1>1. Shrinks(d, e)
  BY FieldSet
<1>2. [d EXCEPT !.next[p] = n, !.prev[n] = p] = f
  BY Zenon
<1> HIDE DEF e
<1>3. Shrinks(e, f)
  BY <1>1, FieldSet DEF Shrinks
<1>4. Shrinks(d, f)
  BY <1>1, <1>3, ShrinksOn
<1> HIDE DEF f
<1> QED
  BY <1>2, <1>4, FaultShrinks DEF RemoveList

LEMMA AppendShrinks ==
  ASSUME NEW d, Sized(d), NEW h, NEW b
  PROVE  Shrinks(d, AppendTo(d, h, b))
<1> DEFINE p == d.prev[h]
           e1 == [d EXCEPT !.prev[b] = p]
           e2 == [e1 EXCEPT !.next[b] = h]
           e3 == [e2 EXCEPT !.next[p] = b]
           e4 == [e3 EXCEPT !.prev[h] = b]
<1>1. [d EXCEPT !.prev[b] = p, !.next[b] = h, !.next[p] = b, !.prev[h] = b] = e4
  BY Zenon
<1>2. Shrinks(d, e1)
  BY FieldSet
<1> HIDE DEF e1, p
<1>3. Shrinks(e1, e2)
  BY <1>2, FieldSet DEF Shrinks
<1> HIDE DEF e2
<1>4. Shrinks(e2, e3)
  BY <1>3, FieldSet DEF Shrinks
<1> HIDE DEF e3
<1>5. Shrinks(e3, e4)
  BY <1>4, FieldSet DEF Shrinks
<1> HIDE DEF e4
<1>6. Shrinks(d, e3)
  BY <1>2, <1>3, <1>4, ShrinksOn DEF Shrinks
<1>7. Shrinks(d, e4)
  BY <1>5, <1>6, ShrinksOn
<1> QED
  BY <1>1, <1>7, FaultShrinks DEF AppendTo, p

LEMMA FreeShrinks ==
  ASSUME NEW d, Sized(d), NEW b \in d.live
  PROVE  Shrinks(d, Free(d, b))
<1> DEFINE e1 == [d EXCEPT !.live = @ \ {b}]
           e2 == [e1 EXCEPT !.key[b] = Null]
           e3 == [e2 EXCEPT !.bytes[b] = 0]
           e4 == [e3 EXCEPT !.time[b] = 0]
           e5 == [e4 EXCEPT !.ref[b] = 0]
           e6 == [e5 EXCEPT !.vcount[b] = 0]
           e7 == [e6 EXCEPT !.next[b] = Null]
           e8 == [e7 EXCEPT !.prev[b] = Null]
           e9 == [e8 EXCEPT !.size = @ - d.bytes[b]]
<1>1. Free(d, b) = e9
  BY SMT DEF Free
<1>2. Shrinks(d, e1) /\ e1.bytes = d.bytes
  <2>1. e1 = Fields(e1) /\ e1.live = d.live \ {b} /\ e1.bytes = d.bytes /\ e1.size = d.size
    BY DEF Sized, Fields
  <2> QED
    BY <2>1 DEF Sized, Shrinks
<1>3. d.bytes[b] \in Nat
  BY DEF Sized
<1> HIDE DEF e1
<1>4. Shrinks(e1, e2)
  BY <1>2, FieldSet DEF Shrinks
<1> HIDE DEF e2
<1>5. Shrinks(e2, e3)
  <2>1. e3 = Fields(e3) /\ e3.live = e2.live /\ e3.bytes = [e2.bytes EXCEPT ![b] = 0]
        /\ e3.size = e2.size
    BY <1>4 DEF Sized, Fields, Shrinks
  <2> HIDE DEF e3
  <2>2. e3.bytes \in [Block -> Nat]
    BY <1>4, <2>1 DEF Sized, Shrinks
  <2> QED
    BY <1>4, <2>1, <2>2 DEF Sized, Shrinks
<1> HIDE DEF e3
<1>6. Shrinks(e3, e4)
  BY <1>5, FieldSet DEF Shrinks
<1> HIDE DEF e4
<1>7. Shrinks(e4, e5)
  BY <1>6, FieldSet DEF Shrinks
<1> HIDE DEF e5
<1>8. Shrinks(e5, e6)
  BY <1>7, FieldSet DEF Shrinks
<1> HIDE DEF e6
<1>9. Shrinks(e6, e7)
  BY <1>8, FieldSet DEF Shrinks
<1> HIDE DEF e7
<1>10. Shrinks(e7, e8)
  BY <1>9, FieldSet DEF Shrinks
<1> HIDE DEF e8
<1>11. Shrinks(e8, e9)
  <2>1. e9 = Fields(e9) /\ e9.live = e8.live /\ e9.bytes = e8.bytes /\ e9.size = e8.size - d.bytes[b]
    BY <1>10 DEF Sized, Fields, Shrinks
  <2> HIDE DEF e9
  <2> QED
    BY <1>3, <1>10, <2>1 DEF Sized, Shrinks
<1> HIDE DEF e9
<1>12. Shrinks(d, e4)
  BY <1>2, <1>4, <1>5, <1>6 DEF Shrinks, Sized
<1>13. Shrinks(e4, e9)
  BY <1>6, <1>7, <1>8, <1>9, <1>10, <1>11 DEF Shrinks, Sized
<1> QED
  BY <1>1, <1>12, <1>13, ShrinksOn

LEMMA UnrefShrinks ==
  ASSUME NEW d, Sized(d), NEW b
  PROVE  Shrinks(d, Unref(d, b))
<1>1. Shrinks(d, [d EXCEPT !.ref[b] = @ - 1])
  BY FieldSet
<1> QED
  BY <1>1, FreeShrinks, FaultShrinks DEF Unref

LEMMA ItemShrinks ==
  ASSUME NEW d, Sized(d)
  PROVE  Shrinks(d, [d EXCEPT !.items = @ - 1])
  BY FieldSet

LEMMA VisitShrinks ==
  ASSUME NEW d, Sized(d), NEW b
  PROVE  Shrinks(d, Visit(d, b))
<1> DEFINE v == (d.vcount[b] + 1) % VMod
           f == RemoveList(d, b)
           g == [f EXCEPT !.ref[b] = @ + 1]
           e == [g EXCEPT !.vcount[b] = v]
<1>1. Shrinks(d, f)
  BY RemoveShrinks
<1>2. Visit(d, b) = AppendTo(e, ListFor(v), b)
  BY Zenon DEF Visit
<1> HIDE DEF f, v
<1>3. Shrinks(f, g)
  BY <1>1, FieldSet DEF Shrinks
<1> HIDE DEF g
<1>4. Shrinks(g, e)
  BY <1>3, FieldSet DEF Shrinks
<1> HIDE DEF e
<1>5. Shrinks(e, AppendTo(e, ListFor(v), b))
  BY <1>4, AppendShrinks DEF Shrinks
<1>6. Shrinks(d, e)
  BY <1>1, <1>3, <1>4, ShrinksOn DEF Shrinks
<1> QED
  BY <1>2, <1>5, <1>6, ShrinksOn

Places == {"idle", "get_link", "reading", "insert_link", "weed_table", "weed_unref", "erase_link"}

LimitInv ==
    /\ Sized(c)
    /\ pc \in [Worker -> Places]
    /\ item = [w \in Worker |-> item[w]]
    /\ \A w \in Worker : pc[w] = "insert_link" => item[w] \in Block
    /\ WithinLimit

\* Worker w goes to place l with the pointer x.
Moved(w, l, x) ==
    /\ pc' = [pc EXCEPT ![w] = l] /\ item' = [item EXCEPT ![w] = x]
    /\ l \in Places /\ (l = "insert_link" => x \in Block)

LEMMA MovedInv ==
  ASSUME LimitInv, NEW w \in Worker, NEW l, NEW x, Moved(w, l, x)
  PROVE  /\ pc' \in [Worker -> Places]
         /\ item' = [v \in Worker |-> item'[v]]
         /\ \A v \in Worker : pc'[v] = "insert_link" => item'[v] \in Block
         /\ \A v \in Worker \ {w} : pc'[v] = pc[v]
         /\ pc'[w] = l
<1>1. pc' \in [Worker -> Places] /\ pc'[w] = l /\ \A v \in Worker \ {w} : pc'[v] = pc[v]
  BY DEF LimitInv, Moved
<1>2. item' = [v \in Worker |-> item'[v]] /\ item'[w] = x /\ \A v \in Worker \ {w} : item'[v] = item[v]
  BY DEF LimitInv, Moved
<1> QED
  BY <1>1, <1>2 DEF LimitInv, Moved

\* A step that counts nothing leaves the cache within its limit or a worker weeding.
LEMMA ShrinkStep ==
  ASSUME LimitInv, Running, NEW w \in Worker, NEW l, NEW x, Moved(w, l, x), Shrinks(c, c'),
         pc[w] \in {"weed_table", "weed_unref"} => l \in {"weed_table", "weed_unref"}
  PROVE  LimitInv'
<1>1. /\ pc' \in [Worker -> Places]
      /\ item' = [v \in Worker |-> item'[v]]
      /\ \A v \in Worker : pc'[v] = "insert_link" => item'[v] \in Block
      /\ \A v \in Worker \ {w} : pc'[v] = pc[v]
      /\ pc'[w] = l
  BY MovedInv
<1>2. Weeding # {} => Weeding' # {}
  BY <1>1 DEF Weeding
<1>3. Sized(c') /\ c'.size <= c.size /\ c'.size \in Int /\ c.size \in Int
  BY DEF Shrinks, Sized, LimitInv
<1>4. WithinLimit'
  BY <1>2, <1>3 DEF LimitInv, WithinLimit
<1> QED
  BY <1>1, <1>3, <1>4 DEF LimitInv

\* Nor does a round of cache_weedout end otherwise.
LEMMA WeedStep ==
  ASSUME LimitInv, NEW w \in Worker, NEW d, Sized(d), NEW t, Weed(w, d, t)
  PROVE  LimitInv'
<1>1. CASE ~Full(d)
  <2>1. c' = d /\ Moved(w, "idle", Null)
    BY <1>1 DEF Weed, Moved, Goto, Places
  <2>2. WithinLimit'
    BY <1>1, <2>1 DEF WithinLimit, Full, Sized
  <2> QED
    BY <2>1, <2>2, MovedInv DEF LimitInv
<1>2. CASE Full(d) /\ VictimFault(d) # "none"
  <2>1. c' = Fault(d, VictimFault(d)) /\ item' = item /\ pc' = pc
    BY <1>2, Zenon DEF Weed
  <2>2. Sized(c')
    BY <2>1, FaultShrinks DEF Shrinks
  <2>3. c'.fault # "none"
    <3>1. [d EXCEPT !.fault = VictimFault(d)].fault = VictimFault(d)
      BY DEF Sized, Fields
    <3> QED
      BY <1>2, <2>1, <3>1 DEF Fault
  <2> QED
    BY <2>1, <2>2, <2>3 DEF LimitInv, WithinLimit, Running
<1>3. CASE Full(d) /\ VictimFault(d) = "none"
  <2>1. c' = RemoveList(d, Victim(d, t)) /\ Moved(w, "weed_table", Victim(d, t))
    BY <1>3 DEF Weed, Moved, Goto, Places
  <2>2. Sized(c')
    BY <2>1, RemoveShrinks DEF Shrinks
  <2>3. /\ pc' \in [Worker -> Places] /\ pc'[w] = "weed_table"
        /\ item' = [v \in Worker |-> item'[v]]
        /\ \A v \in Worker : pc'[v] = "insert_link" => item'[v] \in Block
    BY <2>1, MovedInv
  <2>4. Weeding' # {}
    BY <2>3 DEF Weeding
  <2> QED
    BY <2>2, <2>3, <2>4 DEF LimitInv, WithinLimit
<1> QED
  BY <1>1, <1>2, <1>3

LEMMA MovedSame ==
  ASSUME LimitInv, NEW w \in Worker, pc' = pc, item' = item
  PROVE  Moved(w, pc[w], item[w])
  BY DEF LimitInv, Moved

LEMMA NewShrinks ==
  ASSUME NEW d, Sized(d), NEW b \in Block, NEW k, NEW n \in Bytes
  PROVE  Shrinks(d, NewItem(d, b, k, n))
<1> DEFINE e1 == [d EXCEPT !.live = @ \cup {b}]
           e2 == [e1 EXCEPT !.key[b] = k]
           e3 == [e2 EXCEPT !.bytes[b] = n]
           e4 == [e3 EXCEPT !.time[b] = clock]
           e5 == [e4 EXCEPT !.ref[b] = 1]
           e6 == [e5 EXCEPT !.vcount[b] = 1]
<1>1. NewItem(d, b, k, n) = e6
  BY Zenon DEF NewItem
<1>2. Shrinks(d, e1)
  <2>1. e1 = Fields(e1) /\ e1.live = d.live \cup {b} /\ e1.bytes = d.bytes /\ e1.size = d.size
    BY DEF Sized, Fields
  <2> QED
    BY <2>1 DEF Sized, Shrinks
<1> HIDE DEF e1
<1>3. Shrinks(e1, e2)
  BY <1>2, FieldSet DEF Shrinks
<1> HIDE DEF e2
<1>4. Shrinks(e2, e3)
  <2>1. e3 = Fields(e3) /\ e3.live = e2.live /\ e3.bytes = [e2.bytes EXCEPT ![b] = n]
        /\ e3.size = e2.size
    BY <1>3 DEF Sized, Fields, Shrinks
  <2> HIDE DEF e3
  <2>2. e3.bytes \in [Block -> Nat]
    BY <1>3, <2>1 DEF Sized, Shrinks
  <2> QED
    BY <1>3, <2>1, <2>2 DEF Sized, Shrinks
<1> HIDE DEF e3
<1>5. Shrinks(e3, e4)
  BY <1>4, FieldSet DEF Shrinks
<1> HIDE DEF e4
<1>6. Shrinks(e4, e5)
  BY <1>5, FieldSet DEF Shrinks
<1> HIDE DEF e5
<1>7. Shrinks(e5, e6)
  BY <1>6, FieldSet DEF Shrinks
<1> HIDE DEF e6
<1> HIDE DEF e6
<1>8. Shrinks(d, e3)
  BY <1>2, <1>3, <1>4, ShrinksOn DEF Shrinks
<1>9. Shrinks(e3, e5)
  BY <1>4, <1>5, <1>6, ShrinksOn DEF Shrinks
<1>10. Shrinks(e3, e6)
  BY <1>4, <1>7, <1>9, ShrinksOn DEF Shrinks
<1> QED
  BY <1>1, <1>8, <1>10, ShrinksOn

LEMMA DropShrinks ==
  ASSUME NEW d, Sized(d), NEW b
  PROVE  Shrinks(d, DropOld(d, b))
<1> DEFINE r == RemoveList(d, b)
           u == Unref(r, b)
           e == [u EXCEPT !.items = @ - 1]
<1>1. Shrinks(d, r)
  BY RemoveShrinks
<1>2. DropOld(d, b) = IF b = Null THEN d ELSE e
  BY Zenon DEF DropOld
<1> HIDE DEF r
<1>3. Shrinks(r, u)
  BY <1>1, UnrefShrinks DEF Shrinks
<1> HIDE DEF u
<1>4. Shrinks(u, e)
  BY <1>3, ItemShrinks DEF Shrinks
<1> HIDE DEF e
<1>5. Shrinks(d, d) /\ Shrinks(d, e)
  BY <1>1, <1>3, <1>4 DEF Shrinks, Sized
<1> QED
  BY <1>2, <1>5

LEMMA CountSized ==
  ASSUME NEW d, Sized(d), NEW b \in Block
  PROVE  Sized(CountItem(d, b))
<1> DEFINE e == [d EXCEPT !.size = @ + d.bytes[b]]
           f == [e EXCEPT !.items = @ + 1]
<1>1. CountItem(d, b) = f
  BY Zenon DEF CountItem
<1>2. Sized(e)
  <2>1. e = Fields(e) /\ e.live = d.live /\ e.bytes = d.bytes /\ e.size = d.size + d.bytes[b]
    BY DEF Sized, Fields
  <2>2. d.bytes[b] \in Nat /\ d.size \in Int
    BY DEF Sized
  <2> HIDE DEF e
  <2> QED
    BY <2>1, <2>2 DEF Sized
<1> HIDE DEF e
<1>3. Shrinks(e, f)
  BY <1>2, FieldSet
<1> HIDE DEF f
<1> QED
  BY <1>1, <1>3 DEF Shrinks

LEMMA LimitSteps ==
  ASSUME LimitInv, [Next]_vars
  PROVE  LimitInv'
<1>1. CASE UNCHANGED vars
  BY <1>1 DEF LimitInv, WithinLimit, Weeding, Running, vars, local
<1>2. CASE Tick
  BY <1>2 DEF LimitInv, WithinLimit, Weeding, Running, Tick, local
<1>3. ASSUME NEW w \in Worker, Running,
             \/ GetFind(w) \/ GetLink(w) \/ ReleaseCache(w)
             \/ InsertTable(w) \/ InsertLink(w)
             \/ WeedTable(w) \/ WeedUnref(w)
             \/ EraseTable(w) \/ EraseLink(w)
      PROVE  LimitInv'
  <2>1. Sized(c) /\ Shrinks(c, c) /\ \A f : Shrinks(c, Fault(c, f))
    BY FaultShrinks DEF LimitInv, Shrinks, Sized
  <2>2. ASSUME c' = c \/ c' = Fault(c, "use_after_free"), pc' = pc, item' = item
        PROVE  LimitInv'
    <3>1. Moved(w, pc[w], item[w])
      BY <2>2, MovedSame
    <3> QED
      BY <1>3, <2>1, <2>2, <3>1, ShrinkStep
  <2>3. CASE GetFind(w)
    <3>1. PICK k \in Key :
            IF Findable(k)
            THEN c' = c /\ item' = [item EXCEPT ![w] = table[k]] /\ Goto(w, "get_link")
            ELSE c' = Fault(c, "use_after_free") /\ UNCHANGED <<item, pc>>
      BY <2>3 DEF GetFind
    <3>2. CASE ~Findable(k)
      BY <2>2, <3>1, <3>2
    <3>3. CASE Findable(k)
      <4>1. pc[w] = "idle" /\ c' = c
        BY <2>3, <3>1, <3>3 DEF GetFind
      <4>2. Moved(w, "get_link", table[k])
        BY <3>1, <3>3 DEF Moved, Places, Goto
      <4> QED
        BY <1>3, <2>1, <4>1, <4>2, ShrinkStep
    <3> QED
      BY <3>2, <3>3
  <2>4. CASE GetLink(w)
    <3>1. c' = Visit(c, item[w]) /\ pc[w] = "get_link"
      BY <2>4 DEF GetLink
    <3>2. Moved(w, "reading", item[w])
      BY <2>4 DEF GetLink, Moved, Goto, Places, LimitInv
    <3>3. Shrinks(c, c')
      BY <2>1, <3>1, VisitShrinks
    <3> QED
      BY <1>3, <3>1, <3>2, <3>3, ShrinkStep
  <2>5. CASE ReleaseCache(w)
    <3>1. c' = Unref(c, item[w]) /\ pc[w] = "reading"
      BY <2>5 DEF ReleaseCache
    <3>2. Moved(w, "idle", Null)
      BY <2>5 DEF ReleaseCache, Moved, Goto, Places
    <3>3. Shrinks(c, c')
      BY <2>1, <3>1, UnrefShrinks
    <3> QED
      BY <1>3, <3>1, <3>2, <3>3, ShrinkStep
  <2>6. CASE InsertTable(w)
    <3>1. PICK k \in Key, b \in Block \ c.live, n \in Bytes :
            /\ c' = LET d == NewItem(c, b, k, n)
                    IN  IF Findable(k) THEN d ELSE Fault(d, "use_after_free")
            /\ item' = [item EXCEPT ![w] = b]
      BY <2>6 DEF InsertTable
    <3>2. Moved(w, "insert_link", b) /\ pc[w] = "idle"
      BY <2>6, <3>1 DEF InsertTable, Moved, Goto, Places
    <3> DEFINE d == NewItem(c, b, k, n)
    <3>3. Shrinks(c, d)
      BY <2>1, NewShrinks
    <3>4. c' = d \/ c' = Fault(d, "use_after_free")
      BY <3>1
    <3> HIDE DEF d
    <3>5. Shrinks(d, Fault(d, "use_after_free"))
      BY <3>3, FaultShrinks DEF Shrinks
    <3>6. Shrinks(c, c')
      BY <2>1, <3>3, <3>4, <3>5, ShrinksOn
    <3> QED
      BY <1>3, <3>2, <3>6, ShrinkStep
  <2>7. CASE InsertLink(w)
    <3> DEFINE b == item[w]
               d == DropOld(c, old[w])
               e == CountItem(d, b)
               f == AppendTo(e, Younger, b)
    <3>1. Weed(w, f, now[w]) /\ b \in Block
      BY <2>7 DEF InsertLink, LimitInv
    <3>2. Sized(d)
      BY <2>1, DropShrinks DEF Shrinks
    <3> HIDE DEF d, b
    <3>3. Sized(e)
      BY <3>1, <3>2, CountSized
    <3> HIDE DEF e
    <3>4. Sized(f)
      BY <3>3, AppendShrinks DEF Shrinks
    <3> HIDE DEF f
    <3> QED
      BY <3>1, <3>4, WeedStep
  <2>8. CASE WeedTable(w)
    <3>1. pc[w] = "weed_table" /\ (c' = c \/ c' = Fault(c, "use_after_free"))
      BY <2>8 DEF WeedTable
    <3>2. Moved(w, "weed_unref", item[w])
      BY <2>8 DEF WeedTable, Moved, Goto, Places, LimitInv
    <3> QED
      BY <1>3, <2>1, <3>1, <3>2, ShrinkStep
  <2>9. CASE WeedUnref(w)
    <3> DEFINE d == [c EXCEPT !.items = @ - 1]
               e == Unref(d, item[w])
    <3>1. Weed(w, e, now[w])
      BY <2>9 DEF WeedUnref
    <3>2. Sized(d)
      BY <2>1, ItemShrinks DEF Shrinks
    <3> HIDE DEF d
    <3>3. Sized(e)
      BY <3>2, UnrefShrinks DEF Shrinks
    <3> HIDE DEF e
    <3> QED
      BY <3>1, <3>3, WeedStep
  <2>10. CASE EraseTable(w)
    <3>1. PICK k \in Key :
            IF Findable(k)
            THEN c' = c /\ item' = [item EXCEPT ![w] = table[k]] /\ Goto(w, "erase_link")
            ELSE c' = Fault(c, "use_after_free") /\ UNCHANGED <<item, pc>>
      BY <2>10 DEF EraseTable
    <3>2. CASE ~Findable(k)
      BY <2>2, <3>1, <3>2
    <3>3. CASE Findable(k)
      <4>1. pc[w] = "idle" /\ c' = c
        BY <2>10, <3>1, <3>3 DEF EraseTable
      <4>2. Moved(w, "erase_link", table[k])
        BY <3>1, <3>3 DEF Moved, Places, Goto
      <4> QED
        BY <1>3, <2>1, <4>1, <4>2, ShrinkStep
    <3> QED
      BY <3>2, <3>3
  <2>11. CASE EraseLink(w)
    <3> DEFINE d == [c EXCEPT !.items = @ - 1]
               e == RemoveList(d, item[w])
    <3>1. c' = Unref(e, item[w]) /\ pc[w] = "erase_link"
      BY <2>11 DEF EraseLink
    <3>2. Moved(w, "idle", Null)
      BY <2>11 DEF EraseLink, Moved, Goto, Places
    <3>3. Shrinks(c, d)
      BY <2>1, ItemShrinks
    <3> HIDE DEF d
    <3>4. Shrinks(d, e)
      BY <3>3, RemoveShrinks DEF Shrinks
    <3> HIDE DEF e
    <3>5. Shrinks(e, c')
      BY <3>1, <3>4, UnrefShrinks DEF Shrinks
    <3>6. Shrinks(c, c')
      BY <2>1, <3>3, <3>4, <3>5, ShrinksOn DEF Shrinks
    <3> QED
      BY <1>3, <3>1, <3>2, <3>6, ShrinkStep
  <2> QED
    BY <1>3, <2>3, <2>4, <2>5, <2>6, <2>7, <2>8, <2>9, <2>10, <2>11
<1> QED
  BY <1>1, <1>2, <1>3 DEF Next

\* Of every interleaving: the cache is larger than max_size only while one of
\* its threads is weeding it out, whatever readers hold and whatever was
\* replaced or erased under them (cache_weedout, insert_cache).
THEOREM LimitKept == Spec => []WithinLimit
<1>1. Init => LimitInv
  <2> SUFFICES ASSUME Init
               PROVE  LimitInv
    OBVIOUS
  <2>1. Sized(c)
    <3>1. c = Fields(c)
      BY DEF Init, Fields
    <3>2. c.live = {} /\ c.bytes = [b \in Block |-> 0] /\ c.size = 0
      BY DEF Init
    <3> QED
      BY <3>1, <3>2 DEF Sized
  <2>2. ~ (c.size > Limit)
    BY DEF Init
  <2> QED
    BY <2>1, <2>2 DEF Init, LimitInv, WithinLimit, Places
<1>2. LimitInv /\ [Next]_vars => LimitInv'
  BY LimitSteps
<1>3. LimitInv => WithinLimit
  BY DEF LimitInv
<1> QED
  BY <1>1, <1>2, <1>3, PTL DEF Spec

-------------------------------------------------------------------------------
(***************************************************************************)
(* The lists                                                               *)
(***************************************************************************)
Doubly(d, S) ==
    \A n \in S \cup Head :
        /\ d.next[n] \in S \cup Head /\ d.prev[n] \in S \cup Head
        /\ d.prev[d.next[n]] = n /\ d.next[d.prev[n]] = n

Sided(d, S) ==
    \E Y \in SUBSET S :
        \A n \in S \cup Head :
            (n \in Y \cup {Younger}) <=> (d.next[n] \in Y \cup {Younger})

Headed(d, S) ==
    \A T \in SUBSET S : T # {} => \E n \in T : d.prev[n] \notin T

Listed(d, S) == Doubly(d, S) /\ Sided(d, S) /\ Headed(d, S)

(***************************************************************************)
(* The account                                                             *)
(***************************************************************************)
\* The bytes of the items of T, one by one.
BytesOf(f, T) == {p \in T \X (1 .. Limit) : p[2] <= f[p[1]]}

Faults == {"none", "use_after_free", "null_pointer", "assert_younger"}

Cache == [live : SUBSET Block, key : [Block -> Key \cup {Null}], bytes : [Block -> Bytes \cup {0}],
          time : [Block -> Nat], next : [Node -> Node \cup {Null}],
          prev : [Node -> Node \cup {Null}], ref : [Block -> Int],
          vcount : [Block -> 0 .. VMod - 1], size : Int, items : Int, fault : Faults]

-------------------------------------------------------------------------------
(***************************************************************************)
(* remove_list and append keep the lists                                   *)
(***************************************************************************)
\* The fields that no list operation touches.
Unlisted(d) == <<d.live, d.key, d.bytes, d.time, d.ref, d.vcount, d.size, d.items, d.fault>>

LEMMA Heads == Younger \in Node /\ Older \in Node /\ Younger # Older /\ Head \subseteq Node
  BY DEF Node, Head, Younger, Older

LEMMA SingleLoop ==
  ASSUME NEW d, NEW S, Listed(d, S), NEW b \in S
  PROVE  d.prev[b] # b /\ d.next[b] # b
<1>1. d.prev[b] # b
  <2>1. \E n \in {b} : d.prev[n] \notin {b}
    BY DEF Listed, Headed
  <2> QED
    BY <2>1
<1>2. d.prev[d.next[b]] = b
  BY DEF Listed, Doubly
<1> QED
  BY <1>1, <1>2

LEMMA RemoveDoubly ==
  ASSUME NEW d \in Cache, NEW S \in SUBSET Block, Listed(d, S), NEW b \in S, NEW e,
         e.next = [d.next EXCEPT ![d.prev[b]] = d.next[b]],
         e.prev = [d.prev EXCEPT ![d.next[b]] = d.prev[b]]
  PROVE  Doubly(e, S \ {b})
<1> DEFINE p == d.prev[b]
           n == d.next[b]
<1>1. p \in (S \ {b}) \cup Head /\ n \in (S \ {b}) \cup Head
  BY SingleLoop DEF Listed, Doubly
<1>2. d.next \in [Node -> Node \cup {Null}] /\ d.prev \in [Node -> Node \cup {Null}]
  BY DEF Cache
<1>3. d.next[p] = b /\ d.prev[n] = b
  BY DEF Listed, Doubly
<1> SUFFICES ASSUME NEW m \in (S \ {b}) \cup Head
             PROVE  /\ e.next[m] \in (S \ {b}) \cup Head /\ e.prev[m] \in (S \ {b}) \cup Head
                    /\ e.prev[e.next[m]] = m /\ e.next[e.prev[m]] = m
  BY DEF Doubly
<1>4. m \in Node /\ p \in Node /\ n \in Node /\ b \notin Head
  BY <1>1 DEF Node
<1>5. /\ d.next[m] \in S \cup Head /\ d.prev[m] \in S \cup Head
      /\ d.prev[d.next[m]] = m /\ d.next[d.prev[m]] = m
  BY DEF Listed, Doubly
<1>6. d.next[m] \in Node /\ d.prev[m] \in Node
  BY <1>5 DEF Node
<1> HIDE DEF p, n
<1>7. e.next[m] = IF m = p THEN n ELSE d.next[m]
  BY <1>2, <1>4 DEF p, n
<1>8. e.prev[m] = IF m = n THEN p ELSE d.prev[m]
  BY <1>2, <1>4 DEF p, n
<1>9. m # p => d.next[m] # b /\ d.next[m] # n
  <2>1. d.prev[d.next[m]] = m
    BY <1>5
  <2> QED
    BY <2>1, <1>3, <1>1, <1>4 DEF p
<1>10. m # n => d.prev[m] # b /\ d.prev[m] # p
  <2>1. d.next[d.prev[m]] = m
    BY <1>5
  <2> QED
    BY <2>1, <1>3, <1>1, <1>4 DEF n
<1>11. e.prev[n] = p /\ e.next[p] = n
  BY <1>2, <1>4 DEF p, n
<1>12. m # p => e.prev[d.next[m]] = m
  BY <1>2, <1>5, <1>6, <1>9 DEF p, n
<1>13. m # n => e.next[d.prev[m]] = m
  BY <1>2, <1>5, <1>6, <1>10 DEF p, n
<1> QED
  BY <1>1, <1>5, <1>7, <1>8, <1>9, <1>10, <1>11, <1>12, <1>13

LEMMA RemoveSided ==
  ASSUME NEW d \in Cache, NEW S \in SUBSET Block, Listed(d, S), NEW b \in S, NEW e,
         e.next = [d.next EXCEPT ![d.prev[b]] = d.next[b]]
  PROVE  Sided(e, S \ {b})
<1>1. PICK Y \in SUBSET S :
        \A n \in S \cup Head : (n \in Y \cup {Younger}) <=> (d.next[n] \in Y \cup {Younger})
  BY DEF Listed, Sided
<1>2. d.next \in [Node -> Node \cup {Null}] /\ S \cup Head \subseteq Node
  BY DEF Cache, Node
<1>3. d.prev[b] \in S \cup Head /\ d.next[d.prev[b]] = b /\ d.next[b] # b /\ d.prev[b] # b
  BY SingleLoop DEF Listed, Doubly
<1>4. b # Younger
  BY DEF Head
<1> SUFFICES ASSUME NEW n \in (S \ {b}) \cup Head
             PROVE  (n \in (Y \ {b}) \cup {Younger}) <=> (e.next[n] \in (Y \ {b}) \cup {Younger})
  BY DEF Sided
<1>5. n \in S \cup Head /\ n # b /\ n \in Node
  BY <1>2 DEF Head
<1>6. CASE n = d.prev[b]
  <2>1. e.next[n] = d.next[b]
    BY <1>2, <1>5, <1>6
  <2>2. (n \in Y \cup {Younger}) <=> (b \in Y \cup {Younger})
    BY <1>1, <1>3, <1>5, <1>6
  <2>3. (b \in Y \cup {Younger}) <=> (d.next[b] \in Y \cup {Younger})
    BY <1>1
  <2> QED
    BY <1>3, <1>4, <1>5, <2>1, <2>2, <2>3
<1>7. CASE n # d.prev[b]
  <2>1. e.next[n] = d.next[n]
    BY <1>2, <1>5, <1>7
  <2>2. d.next[n] # b
    BY <1>5, <1>7 DEF Listed, Doubly
  <2> QED
    BY <1>1, <1>5, <2>1, <2>2
<1> QED
  BY <1>6, <1>7

LEMMA RemoveHeaded ==
  ASSUME NEW d \in Cache, NEW S \in SUBSET Block, Listed(d, S), NEW b \in S, NEW e,
         e.prev = [d.prev EXCEPT ![d.next[b]] = d.prev[b]]
  PROVE  Headed(e, S \ {b})
<1> SUFFICES ASSUME NEW T \in SUBSET (S \ {b}), T # {}
             PROVE  \E m \in T : e.prev[m] \notin T
  BY DEF Headed
<1>1. d.prev \in [Node -> Node \cup {Null}] /\ S \subseteq Node
  BY DEF Cache, Node
<1>2. d.prev[d.next[b]] = b /\ d.prev[b] # b
  BY SingleLoop DEF Listed, Doubly
<1>3. \A m \in S : m # d.next[b] => e.prev[m] = d.prev[m]
  BY <1>1
<1>4. d.next[b] \in S => e.prev[d.next[b]] = d.prev[b]
  BY <1>1
<1>5. PICK m \in T : d.prev[m] \notin T
  BY DEF Listed, Headed
<1>6. CASE m # d.next[b]
  BY <1>3, <1>5, <1>6
<1>7. CASE m = d.next[b] /\ d.prev[b] \notin T
  BY <1>4, <1>7
<1>8. CASE m = d.next[b] /\ d.prev[b] \in T
  <2>1. T \cup {b} \in SUBSET S /\ T \cup {b} # {}
    OBVIOUS
  <2>2. PICK k \in T \cup {b} : d.prev[k] \notin T \cup {b}
    BY <2>1 DEF Listed, Headed
  <2>3. k # b /\ k # d.next[b]
    BY <1>2, <1>8, <2>2
  <2> QED
    BY <1>3, <2>2, <2>3
<1> QED
  BY <1>6, <1>7, <1>8

\* Taking an item off the lists leaves the others listed.
LEMMA Removes ==
  ASSUME NEW d \in Cache, NEW S \in SUBSET d.live, Listed(d, S), NEW b \in S
  PROVE  /\ RemoveList(d, b) \in Cache
         /\ Unlisted(RemoveList(d, b)) = Unlisted(d)
         /\ Listed(RemoveList(d, b), S \ {b})
<1> DEFINE p == d.prev[b]
           n == d.next[b]
           e == [d EXCEPT !.next[p] = n, !.prev[n] = p]
<1>1. p \in S \cup Head /\ n \in S \cup Head /\ d.prev[n] = b /\ S \in SUBSET Block
  BY DEF Listed, Doubly, Cache
<1>2. b \in d.live /\ Null \notin {p, n} /\ Reachable(d, p) /\ Reachable(d, n)
  BY <1>1 DEF Reachable, Node
<1>3. RemoveList(d, b) = e
  BY <1>2 DEF RemoveList
<1>4. p \in Node /\ n \in Node
  BY <1>1 DEF Node
<1>5. /\ e.next = [d.next EXCEPT ![p] = n]
      /\ e.prev = [d.prev EXCEPT ![n] = p]
      /\ Unlisted(e) = Unlisted(d)
  BY DEF Cache, Unlisted
<1>6. e \in Cache
  BY <1>4 DEF Cache
<1> HIDE DEF e
<1>7. Doubly(e, S \ {b})
  BY <1>1, <1>5, RemoveDoubly
<1>8. Sided(e, S \ {b})
  BY <1>1, <1>5, RemoveSided
<1>9. Headed(e, S \ {b})
  BY <1>1, <1>5, RemoveHeaded
<1> QED
  BY <1>3, <1>5, <1>6, <1>7, <1>8, <1>9 DEF Listed

LEMMA AppendDoubly ==
  ASSUME NEW d \in Cache, NEW S \in SUBSET Block, Listed(d, S), NEW b \in Block \ S,
         NEW h \in Head, NEW e,
         e.next = [d.next EXCEPT ![b] = h, ![d.prev[h]] = b],
         e.prev = [d.prev EXCEPT ![b] = d.prev[h], ![h] = b]
  PROVE  Doubly(e, S \cup {b})
<1> DEFINE p == d.prev[h]
<1>1. d.next \in [Node -> Node \cup {Null}] /\ d.prev \in [Node -> Node \cup {Null}]
  BY DEF Cache
<1>2. p \in S \cup Head /\ d.next[p] = h
  BY DEF Listed, Doubly
<1>3. p \in Node /\ h \in Node /\ b \in Node /\ b # h /\ b # p
  BY <1>2 DEF Node
<1> HIDE DEF p
<1>4. \A m \in Node : e.next[m] = IF m = p THEN b ELSE IF m = b THEN h ELSE d.next[m]
  BY <1>1, <1>3 DEF p
<1>5. \A m \in Node : e.prev[m] = IF m = h THEN b ELSE IF m = b THEN p ELSE d.prev[m]
  BY <1>1, <1>3 DEF p
<1>6. e.next[b] = h /\ e.prev[b] = p /\ e.next[p] = b /\ e.prev[h] = b
  BY <1>3, <1>4, <1>5
<1> SUFFICES ASSUME NEW m \in S \cup Head
             PROVE  /\ e.next[m] \in S \cup {b} \cup Head /\ e.prev[m] \in S \cup {b} \cup Head
                    /\ e.prev[e.next[m]] = m /\ e.next[e.prev[m]] = m
  BY <1>2, <1>6 DEF Doubly
<1>7. /\ d.next[m] \in S \cup Head /\ d.prev[m] \in S \cup Head
      /\ d.prev[d.next[m]] = m /\ d.next[d.prev[m]] = m
  BY DEF Listed, Doubly
<1>8. m \in Node /\ m # b /\ d.next[m] \in Node /\ d.prev[m] \in Node
  BY <1>7 DEF Node
<1>9. d.next[m] # b /\ d.prev[m] # b
  BY <1>7 DEF Node
<1>10. e.next[m] \in S \cup {b} \cup Head /\ e.prev[e.next[m]] = m
  <2>1. CASE m = p
    BY <1>6, <2>1
  <2>2. CASE m # p
    <3>1. e.next[m] = d.next[m]
      BY <1>4, <1>8, <2>2
    <3>2. d.next[m] # h
      BY <1>7, <2>2 DEF p
    <3>3. e.prev[d.next[m]] = m
      BY <1>5, <1>7, <1>8, <1>9, <3>2
    <3> QED
      BY <1>7, <3>1, <3>3
  <2> QED
    BY <2>1, <2>2
<1>11. e.prev[m] \in S \cup {b} \cup Head /\ e.next[e.prev[m]] = m
  <2>1. CASE m = h
    BY <1>3, <1>6, <2>1
  <2>2. CASE m # h
    <3>1. e.prev[m] = d.prev[m]
      BY <1>5, <1>8, <2>2
    <3>2. d.prev[m] # p
      BY <1>2, <1>7, <2>2
    <3>3. e.next[d.prev[m]] = m
      BY <1>4, <1>7, <1>8, <1>9, <3>2
    <3> QED
      BY <1>7, <3>1, <3>3
  <2> QED
    BY <2>1, <2>2
<1> QED
  BY <1>6, <1>10, <1>11

LEMMA AppendSided ==
  ASSUME NEW d \in Cache, NEW S \in SUBSET Block, Listed(d, S), NEW b \in Block \ S,
         NEW h \in Head, NEW e,
         e.next = [d.next EXCEPT ![b] = h, ![d.prev[h]] = b]
  PROVE  Sided(e, S \cup {b})
<1>1. PICK Y \in SUBSET S :
        \A n \in S \cup Head : (n \in Y \cup {Younger}) <=> (d.next[n] \in Y \cup {Younger})
  BY DEF Listed, Sided
<1> DEFINE Z == IF h = Younger THEN Y \cup {b} ELSE Y
           p == d.prev[h]
<1>2. d.next \in [Node -> Node \cup {Null}] /\ S \cup Head \subseteq Node
  BY DEF Cache, Node
<1>3. p \in S \cup Head /\ d.next[p] = h /\ b \in Node /\ b \notin Head /\ b # p
  BY DEF Listed, Doubly, Node
<1>9. b \notin Y /\ b # Younger
  BY <1>3 DEF Head
<1>4. Younger # Older /\ h \in {Younger, Older} /\ Older \notin Y
  BY Heads DEF Head
<1> HIDE DEF p
<1>5. \A m \in Node : e.next[m] = IF m = p THEN b ELSE IF m = b THEN h ELSE d.next[m]
  BY <1>2, <1>3 DEF p
<1>6. \A n \in S \cup {b} \cup Head : (n \in Z \cup {Younger}) <=> (e.next[n] \in Z \cup {Younger})
  <2>1. (b \in Z \cup {Younger}) <=> (h = Younger)
    BY <1>9
  <2>2. (e.next[b] \in Z \cup {Younger}) <=> (h = Younger)
    BY <1>3, <1>4, <1>5
  <2>3. (p \in Z \cup {Younger}) <=> (h = Younger)
    BY <1>1, <1>3, <1>4
  <2>4. e.next[p] = b
    BY <1>2, <1>3, <1>5
  <2>5. ASSUME NEW n \in S \cup Head, n # p
        PROVE  (n \in Z \cup {Younger}) <=> (e.next[n] \in Z \cup {Younger})
    <3>1. e.next[n] = d.next[n] /\ n # b
      BY <1>2, <1>3, <1>5, <2>5
    <3>2. d.next[n] # b
      BY <1>3 DEF Listed, Doubly
    <3> QED
      BY <1>1, <3>1, <3>2
  <2> QED
    BY <2>1, <2>2, <2>3, <2>4, <2>5
<1>7. Z \in SUBSET (S \cup {b})
  OBVIOUS
<1> HIDE DEF Z
<1> QED
  BY <1>6, <1>7 DEF Sided

LEMMA AppendHeaded ==
  ASSUME NEW d \in Cache, NEW S \in SUBSET Block, Listed(d, S), NEW b \in Block \ S,
         NEW h \in Head, NEW e,
         e.prev = [d.prev EXCEPT ![b] = d.prev[h], ![h] = b]
  PROVE  Headed(e, S \cup {b})
<1> SUFFICES ASSUME NEW T \in SUBSET (S \cup {b}), T # {}
             PROVE  \E m \in T : e.prev[m] \notin T
  BY DEF Headed
<1>1. d.prev \in [Node -> Node \cup {Null}] /\ S \subseteq Node /\ b \in Node /\ h \in Node
  BY DEF Cache, Node
<1>2. h \notin S \cup {b} /\ d.prev[h] \in S \cup Head
  BY DEF Listed, Doubly
<1>3. e.prev[b] = d.prev[h] /\ \A m \in S : e.prev[m] = d.prev[m]
  BY <1>1, <1>2
<1>4. CASE T = {b}
  BY <1>2, <1>3, <1>4
<1>5. CASE T # {b}
  <2>1. T \ {b} \in SUBSET S /\ T \ {b} # {}
    BY <1>5
  <2>2. PICK m \in T \ {b} : d.prev[m] \notin T \ {b}
    BY <2>1 DEF Listed, Headed
  <2>3. d.prev[m] # b
    BY <2>1 DEF Listed, Doubly
  <2> QED
    BY <1>3, <2>1, <2>2, <2>3
<1> QED
  BY <1>4, <1>5

\* An item that is on no list becomes the last of one.
LEMMA Appends ==
  ASSUME NEW d \in Cache, NEW S \in SUBSET d.live, Listed(d, S), NEW b \in d.live \ S,
         NEW h \in Head
  PROVE  /\ AppendTo(d, h, b) \in Cache
         /\ Unlisted(AppendTo(d, h, b)) = Unlisted(d)
         /\ Listed(AppendTo(d, h, b), S \cup {b})
<1> DEFINE p == d.prev[h]
           e == [d EXCEPT !.prev[b] = p, !.next[b] = h, !.next[p] = b, !.prev[h] = b]
<1>1. p \in S \cup Head /\ S \in SUBSET Block /\ b \in Block \ S
  BY DEF Listed, Doubly, Cache
<1>2. Reachable(d, b) /\ Reachable(d, p)
  BY <1>1 DEF Reachable
<1>3. AppendTo(d, h, b) = e
  BY <1>2 DEF AppendTo
<1>4. p \in Node /\ h \in Node /\ b \in Node
  BY <1>1 DEF Node
<1>5. /\ e.next = [d.next EXCEPT ![b] = h, ![p] = b]
      /\ e.prev = [d.prev EXCEPT ![b] = p, ![h] = b]
      /\ Unlisted(e) = Unlisted(d)
  BY DEF Cache, Unlisted
<1>6. e \in Cache
  BY <1>4 DEF Cache
<1> HIDE DEF e
<1>8. Doubly(e, S \cup {b})
  BY <1>1, <1>5, AppendDoubly
<1>9. Sided(e, S \cup {b})
  BY <1>1, <1>5, AppendSided
<1>10. Headed(e, S \cup {b})
  BY <1>1, <1>5, AppendHeaded
<1> QED
  BY <1>3, <1>5, <1>6, <1>8, <1>9, <1>10 DEF Listed

\* Only what the items of S and the heads hold counts.
LEMMA ListedSame ==
  ASSUME NEW d, NEW e, NEW S, Listed(d, S),
         \A n \in S \cup Head : e.next[n] = d.next[n] /\ e.prev[n] = d.prev[n]
  PROVE  Listed(e, S)
<1>1. Doubly(e, S)
  BY DEF Listed, Doubly
<1>2. Sided(e, S)
  <2>1. PICK Y \in SUBSET S :
          \A n \in S \cup Head : (n \in Y \cup {Younger}) <=> (d.next[n] \in Y \cup {Younger})
    BY DEF Listed, Sided
  <2>2. \A n \in S \cup Head : (n \in Y \cup {Younger}) <=> (e.next[n] \in Y \cup {Younger})
    BY <2>1
  <2> QED
    BY <2>2 DEF Sided
<1>3. Headed(e, S)
  <2> SUFFICES ASSUME NEW T \in SUBSET S, T # {}
               PROVE  \E n \in T : e.prev[n] \notin T
    BY DEF Headed
  <2>1. PICK n \in T : d.prev[n] \notin T
    BY DEF Listed, Headed
  <2> QED
    BY <2>1
<1> QED
  BY <1>1, <1>2, <1>3 DEF Listed

-------------------------------------------------------------------------------
(***************************************************************************)
(* Counting bytes                                                          *)
(***************************************************************************)
LEMMA BytesFinite ==
  ASSUME NEW f, NEW T \in SUBSET Block
  PROVE  /\ IsFiniteSet(T) /\ Cardinality(T) \in Nat
         /\ IsFiniteSet(BytesOf(f, T)) /\ Cardinality(BytesOf(f, T)) \in Nat
<1>1. IsFiniteSet(T) /\ Cardinality(T) \in Nat
  BY FS_Subset, FS_CardinalityType
<1>2. IsFiniteSet(1 .. Limit)
  BY FS_Interval
<1>3. IsFiniteSet(T \X (1 .. Limit))
  BY <1>1, <1>2, FS_Product
<1>4. BytesOf(f, T) \in SUBSET (T \X (1 .. Limit))
  BY DEF BytesOf
<1> QED
  BY <1>1, <1>3, <1>4, FS_Subset, FS_CardinalityType

LEMMA IntervalCount ==
  ASSUME NEW n \in Nat
  PROVE  IsFiniteSet(1 .. n) /\ Cardinality(1 .. n) = n
  BY FS_Interval

LEMMA BytesMore ==
  ASSUME NEW f, NEW T \in SUBSET Block, NEW b \in Block \ T, f[b] \in 0 .. Limit
  PROVE  Cardinality(BytesOf(f, T \cup {b})) = Cardinality(BytesOf(f, T)) + f[b]
<1> DEFINE own == {b} \X (1 .. f[b])
           rest == BytesOf(f, T)
<1>1. BytesOf(f, T \cup {b}) = rest \cup own /\ rest \cap own = {}
  BY DEF BytesOf
<1>2. IsFiniteSet(1 .. f[b]) /\ Cardinality(1 .. f[b]) = f[b]
  <2>1. PICK n \in 0 .. Limit : n = f[b]
    OBVIOUS
  <2>2. IsFiniteSet(1 .. n) /\ Cardinality(1 .. n) = n
    BY IntervalCount
  <2> QED
    BY <2>1, <2>2
<1>3. IsFiniteSet({b}) /\ Cardinality({b}) = 1
  BY FS_Singleton
<1>4. IsFiniteSet(own) /\ Cardinality(own) = Cardinality({b}) * Cardinality(1 .. f[b])
  BY <1>2, <1>3, FS_Product
<1>5. Cardinality(own) = f[b]
  BY <1>2, <1>3, <1>4
<1>6. IsFiniteSet(rest) /\ Cardinality(rest) \in Nat
  BY BytesFinite
<1> HIDE DEF own, rest
<1>7. Cardinality(rest \cup own) = Cardinality(rest) + Cardinality(own) - Cardinality(rest \cap own)
  BY <1>4, <1>6, FS_Union
<1>8. Cardinality(rest \cap own) = 0
  BY <1>1, FS_EmptySet
<1>9. Cardinality(rest \cup own) = Cardinality(rest) + f[b]
  BY <1>5, <1>6, <1>7, <1>8
<1> QED
  BY <1>1, <1>9 DEF rest

LEMMA BytesSame ==
  ASSUME NEW f, NEW g, NEW T, \A b \in T : g[b] = f[b]
  PROVE  BytesOf(g, T) = BytesOf(f, T)
  BY DEF BytesOf

LEMMA BytesRange ==
  ASSUME NEW d \in Cache, NEW b \in Block
  PROVE  d.bytes[b] \in 0 .. Limit /\ d.bytes[b] \in Int
<1>1. d.bytes[b] \in Bytes \cup {0}
  BY DEF Cache
<1>2. CASE d.bytes[b] \in Bytes
  <2>1. d.bytes[b] \in Nat /\ d.bytes[b] <= Limit
    BY <1>2, Zenon
  <2> QED
    BY <2>1
<1>3. CASE d.bytes[b] = 0
  BY <1>3
<1> QED
  BY <1>1, <1>2, <1>3


-------------------------------------------------------------------------------
(***************************************************************************)
(* What an operation leaves under the cache lock                           *)
(***************************************************************************)
\* All but the block b is as before.
Beside(d, e, b) ==
    /\ \A x \in Block \ {b} : e.key[x] = d.key[x] /\ e.bytes[x] = d.bytes[x] /\ e.ref[x] = d.ref[x]
    /\ e.fault = d.fault /\ e.items = d.items

\* The last reference goes, and the item with it.
LEMMA Frees ==
  ASSUME NEW d \in Cache, NEW S \in SUBSET d.live, Listed(d, S), NEW b \in d.live \ S, d.ref[b] = 1,
         NEW T \in SUBSET d.live, b \in T, d.size = Cardinality(BytesOf(d.bytes, T))
  PROVE  /\ Unref(d, b) \in Cache
         /\ Unref(d, b).live = d.live \ {b}
         /\ Listed(Unref(d, b), S)
         /\ Unref(d, b).size = d.size - d.bytes[b]
         /\ Unref(d, b).size = Cardinality(BytesOf(Unref(d, b).bytes, T \ {b}))
         /\ Beside(d, Unref(d, b), b)
<1> DEFINE e == Free(d, b)
<1>1. Unref(d, b) = e
  BY DEF Unref
<1>2. b \in Block /\ d.live \in SUBSET Block
  BY DEF Cache
<1>3. /\ e.live = d.live \ {b} /\ e.size = d.size - d.bytes[b]
      /\ e.fault = d.fault /\ e.items = d.items
  BY DEF Free, Cache
<1>4. /\ e.key = [d.key EXCEPT ![b] = Null]
      /\ e.bytes = [d.bytes EXCEPT ![b] = 0]
      /\ e.time = [d.time EXCEPT ![b] = 0]
      /\ e.ref = [d.ref EXCEPT ![b] = 0]
      /\ e.vcount = [d.vcount EXCEPT ![b] = 0]
      /\ e.next = [d.next EXCEPT ![b] = Null]
      /\ e.prev = [d.prev EXCEPT ![b] = Null]
  BY DEF Free, Cache
<1>5. e \in Cache
  <2>1. e.size \in Int
    BY <1>2, <1>3, BytesRange DEF Cache
  <2>2. e = [d EXCEPT !.live = e.live, !.key = e.key, !.bytes = e.bytes, !.time = e.time,
                      !.ref = e.ref, !.vcount = e.vcount, !.next = e.next, !.prev = e.prev,
                      !.size = e.size]
    BY DEF Free, Cache
  <2> HIDE DEF e
  <2>3. /\ e.live \in SUBSET Block /\ e.key \in [Block -> Key \cup {Null}]
        /\ e.bytes \in [Block -> Bytes \cup {0}] /\ e.time \in [Block -> Nat]
        /\ e.ref \in [Block -> Int]
    BY <1>2, <1>3, <1>4 DEF Cache
  <2>4. e.next \in [Node -> Node \cup {Null}]
    BY ZenonT(20), <1>4 DEF Cache
  <2>5. e.prev \in [Node -> Node \cup {Null}]
    BY <1>4 DEF Cache
  <2>6. e.vcount \in [Block -> 0 .. VMod - 1]
    BY <1>4 DEF Cache
  <2> QED
    BY <2>1, <2>2, <2>3, <2>4, <2>5, <2>6 DEF Cache
<1> HIDE DEF e
<1>6. \A n \in Node \ {b} : e.next[n] = d.next[n] /\ e.prev[n] = d.prev[n]
  BY <1>4 DEF Cache
<1>7. S \cup Head \subseteq Node \ {b}
  BY <1>2 DEF Node
<1>8. Listed(e, S)
  BY <1>6, <1>7, ListedSame
<1>9. \A x \in Block \ {b} : e.key[x] = d.key[x] /\ e.bytes[x] = d.bytes[x] /\ e.ref[x] = d.ref[x]
  BY <1>2, <1>4 DEF Cache
<1>11. e.size = Cardinality(BytesOf(e.bytes, T \ {b}))
  <2>1. BytesOf(e.bytes, T \ {b}) = BytesOf(d.bytes, T \ {b})
    BY <1>2, <1>9, BytesSame
  <2>2. T \ {b} \in SUBSET Block /\ b \in Block \ (T \ {b}) /\ (T \ {b}) \cup {b} = T
    BY <1>2
  <2>3. d.bytes[b] \in 0 .. Limit
    BY <1>2, BytesRange
  <2>4. Cardinality(BytesOf(d.bytes, (T \ {b}) \cup {b})) = Cardinality(BytesOf(d.bytes, T \ {b})) + d.bytes[b]
    BY <2>2, <2>3, BytesMore
  <2>5. Cardinality(BytesOf(d.bytes, T)) = Cardinality(BytesOf(d.bytes, T \ {b})) + d.bytes[b]
    BY <2>2, <2>4
  <2>6. Cardinality(BytesOf(d.bytes, T \ {b})) \in Nat
    BY <2>2, BytesFinite
  <2> QED
    BY <1>3, <2>1, <2>3, <2>5, <2>6
<1> QED
  BY <1>1, <1>3, <1>5, <1>8, <1>9, <1>11 DEF Beside

\* R[w] is the item worker w reads.
Readers(R, b) == {w \in Worker : R[w] = b}
Held(R) == {R[w] : w \in Worker} \ {Null}

\* One reference of the cache for what it owns, one of each reader.
Refs(O, R, b) == (IF b \in O THEN 1 ELSE 0) + Cardinality(Readers(R, b))

\* A cache d that owns the items O under the keys K, has those of S on its
\* lists, has not counted those of N, has readers R and counts n items.
Keeps(d, K, O, S, N, R, n) ==
    /\ d \in Cache /\ d.fault = "none"
    /\ R \in [Worker -> Block \cup {Null}]
    /\ d.live = O \cup Held(R)
    /\ S \subseteq O /\ N \subseteq O
    /\ Listed(d, S)
    /\ \A b \in d.live : d.ref[b] = Refs(O, R, b)
    /\ \A b \in O : d.key[b] = K[b]
    /\ d.items = n
    /\ d.size = Cardinality(BytesOf(d.bytes, d.live \ N))

LEMMA ReadersCount ==
  ASSUME NEW R, NEW b
  PROVE  /\ IsFiniteSet(Readers(R, b)) /\ Cardinality(Readers(R, b)) \in Nat
         /\ Cardinality(Readers(R, b)) = 0 <=> Readers(R, b) = {}
<1>1. Readers(R, b) \subseteq Worker
  BY DEF Readers
<1>2. IsFiniteSet(Readers(R, b))
  BY <1>1, FS_Subset
<1> HIDE DEF Readers
<1> QED
  BY <1>2, FS_CardinalityType, FS_EmptySet

LEMMA ReaderComes ==
  ASSUME NEW R, NEW Q, NEW w \in Worker, NEW b \in Block,
         R[w] = Null, Q[w] = b, \A v \in Worker \ {w} : Q[v] = R[v]
  PROVE  /\ \A x : x \in Held(Q) <=> x \in Held(R) \cup {b}
         /\ Cardinality(Readers(Q, b)) = Cardinality(Readers(R, b)) + 1
         /\ \A x \in Block \ {b} : Readers(Q, x) = Readers(R, x)
<1>1. b # Null /\ Null \notin Block
  BY DEF Node
<1>2. \A x : x \in Held(Q) <=> x \in Held(R) \cup {b}
  BY <1>1 DEF Held
<1>3. Readers(Q, b) = Readers(R, b) \cup {w} /\ w \notin Readers(R, b)
  BY <1>1 DEF Readers
<1>4. Cardinality(Readers(Q, b)) = Cardinality(Readers(R, b)) + 1
  <2>1. IsFiniteSet(Readers(R, b))
    BY ReadersCount
  <2> QED
    BY <1>3, <2>1, FS_AddElement
<1>5. \A x \in Block \ {b} : Readers(Q, x) = Readers(R, x)
  BY <1>1 DEF Readers
<1> QED
  BY <1>2, <1>4, <1>5

LEMMA ReaderGoes ==
  ASSUME NEW R \in [Worker -> Block \cup {Null}], NEW w \in Worker, NEW b \in Block, R[w] = b
  PROVE  /\ [R EXCEPT ![w] = Null] \in [Worker -> Block \cup {Null}]
         /\ Held([R EXCEPT ![w] = Null]) \subseteq Held(R)
         /\ Held(R) \subseteq Held([R EXCEPT ![w] = Null]) \cup {b}
         /\ Cardinality(Readers([R EXCEPT ![w] = Null], b)) = Cardinality(Readers(R, b)) - 1
         /\ \A x \in Block \ {b} : Readers([R EXCEPT ![w] = Null], x) = Readers(R, x)
<1> DEFINE Q == [R EXCEPT ![w] = Null]
<1>1. Q \in [Worker -> Block \cup {Null}] /\ Q[w] = Null /\ \A v \in Worker \ {w} : Q[v] = R[v]
  OBVIOUS
<1> HIDE DEF Q
<1>2. b # Null /\ Null \notin Block
  BY DEF Node
<1>3. Held(Q) \subseteq Held(R) /\ Held(R) \subseteq Held(Q) \cup {b}
  BY <1>1, <1>2 DEF Held
<1>4. Readers(Q, b) = Readers(R, b) \ {w} /\ w \in Readers(R, b)
  BY <1>1, <1>2 DEF Readers
<1>5. Cardinality(Readers(Q, b)) = Cardinality(Readers(R, b)) - 1
  <2>1. IsFiniteSet(Readers(R, b))
    BY ReadersCount
  <2> QED
    BY <1>4, <2>1, FS_RemoveElement
<1>6. \A x \in Block \ {b} : Readers(Q, x) = Readers(R, x)
  BY <1>1, <1>2 DEF Readers
<1> QED
  BY <1>1, <1>3, <1>5, <1>6 DEF Q

LEMMA HeldRead ==
  ASSUME NEW R, NEW b \in Block
  PROVE  b \in Held(R) <=> Cardinality(Readers(R, b)) # 0
<1>1. b # Null
  BY DEF Node
<1>2. b \in Held(R) <=> Readers(R, b) # {}
  BY <1>1 DEF Held, Readers
<1> QED
  BY <1>2, ReadersCount

\* The items of a cache; its counters are natural numbers.
LEMMA KeepsNat ==
  ASSUME NEW d, NEW K, NEW O, NEW S, NEW N, NEW R, NEW n, Keeps(d, K, O, S, N, R, n)
  PROVE  /\ d.size \in Nat /\ d.live \in SUBSET Block /\ O \in SUBSET Block
         /\ S \in SUBSET d.live /\ O \in SUBSET d.live
<1>1. d.live \in SUBSET Block /\ O \in SUBSET Block /\ S \in SUBSET d.live /\ O \in SUBSET d.live
  BY DEF Keeps, Cache
<1>2. d.live \ N \in SUBSET Block
  BY <1>1
<1>3. d.size \in Nat
  BY <1>2, BytesFinite DEF Keeps
<1> QED
  BY <1>1, <1>3

\* unref: one reference of b goes, and b with the last one.
LEMMA KeepsUnref ==
  ASSUME NEW d, NEW K, NEW O, NEW S, NEW N, NEW R, NEW n, Keeps(d, K, O, S, N, R, n),
         NEW b \in d.live, NEW P, NEW Q \in [Worker -> Block \cup {Null}],
         P \subseteq O, S \subseteq P, N \subseteq P,
         P \cup Held(Q) \subseteq d.live, d.live \subseteq P \cup Held(Q) \cup {b},
         Refs(P, Q, b) = Refs(O, R, b) - 1,
         \A x \in Block \ {b} : Refs(P, Q, x) = Refs(O, R, x)
  PROVE  Keeps(Unref(d, b), K, P, S, N, Q, n)
<1> DEFINE e == Unref(d, b)
<1>1. d \in Cache /\ d.live \in SUBSET Block /\ b \in Block /\ S \in SUBSET d.live
  <2>1. d.live \in SUBSET Block /\ S \in SUBSET d.live
    BY KeepsNat
  <2> QED
    BY <2>1 DEF Keeps
<1>2. d.ref[b] = Refs(O, R, b) /\ d.ref[b] \in Int
  BY <1>1 DEF Keeps, Cache
<1>3. b \in P \cup Held(Q) <=> Refs(P, Q, b) > 0
  BY <1>1, HeldRead, ReadersCount DEF Refs
<1>4. Refs(P, Q, b) \in Nat
  BY ReadersCount DEF Refs
<1>5. CASE d.ref[b] > 1
  <2>1. e = [d EXCEPT !.ref[b] = d.ref[b] - 1]
    BY <1>5 DEF Unref
  <2>2. /\ e \in Cache /\ e.fault = d.fault /\ e.live = d.live /\ e.key = d.key
        /\ e.bytes = d.bytes /\ e.size = d.size /\ e.items = d.items
        /\ e.next = d.next /\ e.prev = d.prev
        /\ e.ref = [d.ref EXCEPT ![b] = d.ref[b] - 1]
    <3>1. d.ref[b] - 1 \in Int
      BY <1>2
    <3> QED
      BY <1>1, <2>1, <3>1 DEF Cache
  <2> HIDE DEF e
  <2>3. P \cup Held(Q) = e.live
    BY <1>2, <1>3, <1>5, <2>2
  <2>4. \A x \in e.live : e.ref[x] = Refs(P, Q, x)
    <3>1. e.ref[b] = Refs(P, Q, b)
      BY <1>1, <1>2, <2>2 DEF Cache
    <3>2. \A x \in d.live \ {b} : e.ref[x] = Refs(O, R, x)
      BY <1>1, <2>2 DEF Keeps, Cache
    <3> QED
      BY <1>1, <2>2, <3>1, <3>2
  <2>5. Listed(e, S)
    BY <2>2, ListedSame DEF Keeps
  <2> QED
    BY <2>2, <2>3, <2>4, <2>5 DEF Keeps, e
<1>6. CASE ~ (d.ref[b] > 1)
  <2>1. d.ref[b] = 1 /\ b \notin P \cup Held(Q)
    BY <1>2, <1>3, <1>4, <1>6
  <2>2. b \in d.live \ S /\ b \in d.live \ N /\ d.live \ N \in SUBSET d.live
    BY <2>1
  <2>3. d.size = Cardinality(BytesOf(d.bytes, d.live \ N)) /\ Listed(d, S)
    BY DEF Keeps
  <2> DEFINE T == d.live \ N
  <2>4. /\ e \in Cache
        /\ e.live = d.live \ {b}
        /\ Listed(e, S)
        /\ e.size = Cardinality(BytesOf(e.bytes, T \ {b}))
        /\ Beside(d, e, b)
    <3>1. T \in SUBSET d.live /\ b \in T /\ d.size = Cardinality(BytesOf(d.bytes, T))
      BY <2>2, <2>3
    <3>2. S \in SUBSET d.live /\ b \in d.live \ S /\ Listed(d, S) /\ d.ref[b] = 1 /\ d \in Cache
      BY <1>1, <2>1, <2>2, <2>3
    <3> HIDE DEF T
    <3>3. /\ Unref(d, b) \in Cache
          /\ Unref(d, b).live = d.live \ {b}
          /\ Listed(Unref(d, b), S)
          /\ Unref(d, b).size = Cardinality(BytesOf(Unref(d, b).bytes, T \ {b}))
          /\ Beside(d, Unref(d, b), b)
      BY <3>1, <3>2, Frees
    <3> QED
      BY <3>3
  <2> HIDE DEF e
  <2>5. e.live = P \cup Held(Q) /\ e.live \ N = T \ {b}
    BY <2>1, <2>4
  <2>6. \A x \in e.live : e.ref[x] = Refs(P, Q, x)
    BY <1>1, <2>4 DEF Beside, Keeps
  <2>7. \A x \in P : e.key[x] = K[x]
    <3>1. \A x \in P : x \in O /\ x \in Block \ {b}
      BY <1>1, <2>1
    <3> QED
      BY <2>4, <3>1 DEF Beside, Keeps
  <2>8. e.fault = "none" /\ e.items = n
    BY <2>4 DEF Beside, Keeps
  <2>9. e.size = Cardinality(BytesOf(e.bytes, e.live \ N))
    BY <2>4, <2>5
  <2> QED
    BY <2>4, <2>5, <2>6, <2>7, <2>8, <2>9 DEF Keeps, e
<1> QED
  BY <1>5, <1>6

\* release_cache: worker w reads b no more.
LEMMA KeepsRelease ==
  ASSUME NEW d, NEW K, NEW O, NEW S, NEW N, NEW R, NEW n, Keeps(d, K, O, S, N, R, n),
         NEW w \in Worker, NEW b \in Block, R[w] = b
  PROVE  Keeps(Unref(d, b), K, O, S, N, [R EXCEPT ![w] = Null], n)
<1> DEFINE Q == [R EXCEPT ![w] = Null]
<1>1. R \in [Worker -> Block \cup {Null}] /\ d.live = O \cup Held(R) /\ S \subseteq O /\ N \subseteq O
  BY DEF Keeps
<1>2. /\ Q \in [Worker -> Block \cup {Null}]
      /\ Held(Q) \subseteq Held(R)
      /\ Held(R) \subseteq Held(Q) \cup {b}
      /\ Cardinality(Readers(Q, b)) = Cardinality(Readers(R, b)) - 1
      /\ \A x \in Block \ {b} : Readers(Q, x) = Readers(R, x)
  BY <1>1, ReaderGoes
<1> HIDE DEF Q
<1>3. b \in d.live
  <2>1. b # Null
    BY DEF Node
  <2> QED
    BY <1>1, <2>1 DEF Held
<1>4. /\ Refs(O, Q, b) = Refs(O, R, b) - 1
      /\ \A x \in Block \ {b} : Refs(O, Q, x) = Refs(O, R, x)
  BY <1>2, ReadersCount DEF Refs
<1>5. O \subseteq O /\ O \cup Held(Q) \subseteq d.live /\ d.live \subseteq O \cup Held(Q) \cup {b}
  BY <1>1, <1>2
<1>6. Keeps(Unref(d, b), K, O, S, N, Q, n)
  BY <1>1, <1>2, <1>3, <1>4, <1>5, KeepsUnref
<1> QED
  BY <1>6 DEF Q

\* unref for the cache: it owns b no more.
LEMMA KeepsDisown ==
  ASSUME NEW d, NEW K, NEW O, NEW S, NEW N, NEW R, NEW n, Keeps(d, K, O, S, N, R, n),
         NEW b \in O, b \notin S, b \notin N
  PROVE  Keeps(Unref(d, b), K, O \ {b}, S, N, R, n)
<1> DEFINE P == O \ {b}
<1>1. R \in [Worker -> Block \cup {Null}] /\ d.live = O \cup Held(R)
      /\ S \subseteq P /\ N \subseteq P /\ P \subseteq O /\ b \in d.live
  BY DEF Keeps
<1>2. b \in P => FALSE
  OBVIOUS
<1>3. \A x \in Block \ {b} : x \in P <=> x \in O
  OBVIOUS
<1>4. P \cup Held(R) \subseteq d.live /\ d.live \subseteq P \cup Held(R) \cup {b}
  BY <1>1
<1> HIDE DEF P
<1>5. /\ Refs(P, R, b) = Refs(O, R, b) - 1
      /\ \A x \in Block \ {b} : Refs(P, R, x) = Refs(O, R, x)
  BY <1>2, <1>3, ReadersCount DEF Refs
<1>6. Keeps(Unref(d, b), K, P, S, N, R, n)
  BY <1>1, <1>4, <1>5, KeepsUnref
<1> QED
  BY <1>6 DEF P

LEMMA KeepsItems ==
  ASSUME NEW d, NEW K, NEW O, NEW S, NEW N, NEW R, NEW n \in Int, Keeps(d, K, O, S, N, R, n)
  PROVE  Keeps([d EXCEPT !.items = @ - 1], K, O, S, N, R, n - 1)
<1> DEFINE e == [d EXCEPT !.items = @ - 1]
<1>1. d \in Cache /\ d.items = n
  BY DEF Keeps
<1>2. /\ e \in Cache /\ e.live = d.live /\ e.key = d.key /\ e.bytes = d.bytes /\ e.ref = d.ref
      /\ e.next = d.next /\ e.prev = d.prev
      /\ e.size = d.size /\ e.fault = d.fault /\ e.items = n - 1
  BY <1>1 DEF Cache
<1> HIDE DEF e
<1>3. Listed(e, S)
  BY <1>2, ListedSame DEF Keeps
<1>4. Keeps(e, K, O, S, N, R, n - 1)
  BY <1>2, <1>3 DEF Keeps
<1> QED
  BY <1>4 DEF e

LEMMA KeepsRemove ==
  ASSUME NEW d, NEW K, NEW O, NEW S, NEW N, NEW R, NEW n, Keeps(d, K, O, S, N, R, n),
         NEW b \in S
  PROVE  Keeps(RemoveList(d, b), K, O, S \ {b}, N, R, n)
<1> DEFINE e == RemoveList(d, b)
<1>1. d \in Cache /\ Listed(d, S)
  BY DEF Keeps
<1>2. S \in SUBSET d.live
  BY KeepsNat
<1>3. e \in Cache /\ Unlisted(e) = Unlisted(d) /\ Listed(e, S \ {b})
  BY <1>1, <1>2, Removes
<1> HIDE DEF e
<1>4. /\ e.live = d.live /\ e.key = d.key /\ e.bytes = d.bytes /\ e.ref = d.ref
      /\ e.size = d.size /\ e.items = d.items /\ e.fault = d.fault
  BY <1>3 DEF Unlisted
<1>5. Keeps(e, K, O, S \ {b}, N, R, n)
  BY <1>3, <1>4 DEF Keeps
<1> QED
  BY <1>5 DEF e

LEMMA KeepsAppend ==
  ASSUME NEW d, NEW K, NEW O, NEW S, NEW N, NEW R, NEW n, Keeps(d, K, O, S, N, R, n),
         NEW b \in O, b \notin S, NEW h \in Head
  PROVE  Keeps(AppendTo(d, h, b), K, O, S \cup {b}, N, R, n)
<1> DEFINE e == AppendTo(d, h, b)
<1>1. d \in Cache /\ Listed(d, S)
  BY DEF Keeps
<1>2. S \in SUBSET d.live /\ b \in d.live \ S
  BY KeepsNat
<1>3. e \in Cache /\ Unlisted(e) = Unlisted(d) /\ Listed(e, S \cup {b})
  BY <1>1, <1>2, Appends
<1> HIDE DEF e
<1>4. /\ e.live = d.live /\ e.key = d.key /\ e.bytes = d.bytes /\ e.ref = d.ref
      /\ e.size = d.size /\ e.items = d.items /\ e.fault = d.fault
  BY <1>3 DEF Unlisted
<1>5. Keeps(e, K, O, S \cup {b}, N, R, n)
  BY <1>3, <1>4 DEF Keeps
<1> QED
  BY <1>5 DEF e

\* get_cache's second half: worker w reads b from now on.
LEMMA KeepsVisit ==
  ASSUME NEW d, NEW K, NEW O, NEW S, NEW N, NEW R, NEW n, Keeps(d, K, O, S, N, R, n),
         NEW b \in S, NEW w \in Worker, R[w] = Null
  PROVE  Keeps(Visit(d, b), K, O, S, N, [R EXCEPT ![w] = b], n)
<1> DEFINE r == RemoveList(d, b)
           v == (d.vcount[b] + 1) % VMod
           e == [r EXCEPT !.ref[b] = @ + 1, !.vcount[b] = v]
           Q == [R EXCEPT ![w] = b]
<1>1. d \in Cache /\ R \in [Worker -> Block \cup {Null}] /\ S \subseteq O
  BY DEF Keeps
<1>2. b \in Block /\ b \in O
  <2>1. O \in SUBSET Block
    BY KeepsNat
  <2> QED
    BY <1>1, <2>1
<1>3. /\ Q \in [Worker -> Block \cup {Null}]
      /\ \A x : x \in Held(Q) <=> x \in Held(R) \cup {b}
      /\ Cardinality(Readers(Q, b)) = Cardinality(Readers(R, b)) + 1
      /\ \A x \in Block \ {b} : Readers(Q, x) = Readers(R, x)
  <2>1. /\ Q \in [Worker -> Block \cup {Null}]
        /\ Q[w] = b /\ \A u \in Worker \ {w} : Q[u] = R[u]
    BY <1>1, <1>2
  <2> HIDE DEF Q
  <2> QED
    BY <1>2, <2>1, ReaderComes
<1>4. v \in 0 .. VMod - 1
  <2>1. d.vcount[b] \in Nat
    BY <1>1, <1>2 DEF Cache
  <2> QED
    BY <2>1
<1>5. Keeps(r, K, O, S \ {b}, N, R, n)
  BY KeepsRemove
<1>6. Visit(d, b) = AppendTo(e, ListFor(v), b)
  BY Zenon DEF Visit
<1> HIDE DEF r, v, Q
<1>7. r \in Cache
  BY <1>5 DEF Keeps
<1>8. r.ref[b] \in Int /\ r.ref[b] + 1 \in Int
  BY <1>2, <1>7 DEF Cache
<1>9. /\ e \in Cache /\ e.live = r.live /\ e.key = r.key /\ e.bytes = r.bytes
      /\ e.size = r.size /\ e.items = r.items /\ e.fault = r.fault
      /\ e.ref = [r.ref EXCEPT ![b] = @ + 1]
      /\ e.next = r.next /\ e.prev = r.prev
  BY <1>2, <1>4, <1>7, <1>8 DEF Cache
<1> HIDE DEF e
<1>10. Listed(e, S \ {b})
  BY <1>5, <1>9, ListedSame DEF Keeps
<1>11. e.live = O \cup Held(Q)
  BY <1>2, <1>3, <1>5, <1>9 DEF Keeps
<1>12. r.live \in SUBSET Block
  BY <1>7 DEF Cache
<1>13. \A x \in e.live : e.ref[x] = Refs(O, Q, x)
  <2>1. /\ Refs(O, Q, b) = Refs(O, R, b) + 1
        /\ \A x \in Block \ {b} : Refs(O, Q, x) = Refs(O, R, x)
    BY <1>3, ReadersCount DEF Refs
  <2>2. \A x \in r.live : r.ref[x] = Refs(O, R, x)
    BY <1>5 DEF Keeps
  <2>3. \A x \in Block : e.ref[x] = IF x = b THEN r.ref[b] + 1 ELSE r.ref[x]
    BY <1>2, <1>7, <1>9 DEF Cache
  <2>4. b \in r.live
    BY <1>2, <1>5 DEF Keeps
  <2> QED
    BY <1>9, <1>12, <2>1, <2>2, <2>3, <2>4
<1>14. Keeps(e, K, O, S \ {b}, N, Q, n)
  BY <1>3, <1>5, <1>9, <1>10, <1>11, <1>13 DEF Keeps
<1>15. ListFor(v) \in Head
  BY DEF ListFor, Head
<1>16. Keeps(AppendTo(e, ListFor(v), b), K, O, (S \ {b}) \cup {b}, N, Q, n)
  BY <1>2, <1>14, <1>15, KeepsAppend
<1>17. (S \ {b}) \cup {b} = S
  OBVIOUS
<1> QED
  BY <1>6, <1>16, <1>17 DEF Q

\* insert_cache counts its item.
LEMMA KeepsCount ==
  ASSUME NEW d, NEW K, NEW O, NEW S, NEW N, NEW R, NEW n \in Int, Keeps(d, K, O, S, N, R, n),
         NEW b \in N
  PROVE  Keeps(CountItem(d, b), K, O, S, N \ {b}, R, n + 1)
<1> DEFINE e == CountItem(d, b)
<1>1. d \in Cache /\ d.items = n /\ N \subseteq O /\ b \in d.live
  BY DEF Keeps
<1>2. d.live \in SUBSET Block /\ d.size \in Nat
  BY KeepsNat
<1>3. d.bytes[b] \in 0 .. Limit /\ d.bytes[b] \in Int
  BY <1>1, <1>2, BytesRange
<1>4. /\ e \in Cache /\ e.live = d.live /\ e.fault = d.fault /\ e.key = d.key
      /\ e.bytes = d.bytes /\ e.ref = d.ref /\ e.next = d.next /\ e.prev = d.prev
      /\ e.size = d.size + d.bytes[b] /\ e.items = n + 1
  <2>1. PICK s \in Int, i \in Int : s = d.size + d.bytes[b] /\ i = d.items + 1
    BY <1>1, <1>2, <1>3
  <2>2. e = [d EXCEPT !.size = s, !.items = i]
    BY <2>1 DEF CountItem
  <2> HIDE DEF e
  <2> QED
    BY <1>1, <2>1, <2>2 DEF Cache
<1> HIDE DEF e
<1>5. Listed(e, S)
  BY <1>4, ListedSame DEF Keeps
<1>6. e.size = Cardinality(BytesOf(e.bytes, e.live \ (N \ {b})))
  <2> DEFINE T == d.live \ N
  <2>1. d.size = Cardinality(BytesOf(d.bytes, T))
    BY DEF Keeps
  <2>2. T \in SUBSET Block /\ b \in Block \ T /\ d.live \ (N \ {b}) = T \cup {b}
    BY <1>1, <1>2
  <2> HIDE DEF T
  <2>3. Cardinality(BytesOf(d.bytes, T \cup {b})) = Cardinality(BytesOf(d.bytes, T)) + d.bytes[b]
    BY <1>3, <2>2, BytesMore
  <2> QED
    BY <1>4, <2>1, <2>2, <2>3
<1>7. Keeps(e, K, O, S, N \ {b}, R, n + 1)
  BY <1>4, <1>5, <1>6 DEF Keeps
<1> QED
  BY <1>7 DEF e

\* insert_cache's first half: the cache owns a new item b.
LEMMA KeepsNew ==
  ASSUME NEW d, NEW K, NEW O, NEW S, NEW N, NEW R, NEW n, Keeps(d, K, O, S, N, R, n),
         NEW b \in Block \ d.live, NEW k \in Key, NEW m \in Bytes, clock \in Nat
  PROVE  Keeps(NewItem(d, b, k, m), NewItem(d, b, k, m).key, O \cup {b}, S, N \cup {b}, R, n)
<1> DEFINE e == NewItem(d, b, k, m)
<1>1. d \in Cache /\ d.live = O \cup Held(R) /\ S \subseteq O /\ N \subseteq O
  BY DEF Keeps
<1>2. /\ e.live = d.live \cup {b} /\ e.size = d.size /\ e.items = d.items /\ e.fault = d.fault
      /\ e.key = [d.key EXCEPT ![b] = k] /\ e.bytes = [d.bytes EXCEPT ![b] = m]
      /\ e.ref = [d.ref EXCEPT ![b] = 1]
      /\ e.next = d.next /\ e.prev = d.prev
  BY <1>1 DEF NewItem, Cache
<1>3. e \in Cache
  <2>1. 1 \in 0 .. VMod - 1 /\ 1 \in Int
    OBVIOUS
  <2> QED
    BY ZenonT(20), <1>1, <2>1 DEF NewItem, Cache
<1> HIDE DEF e
<1>4. d.live \in SUBSET Block /\ b \notin O /\ b \notin Held(R)
  BY <1>1 DEF Cache
<1>5. Listed(e, S)
  BY <1>2, ListedSame DEF Keeps
<1>6. \A x \in e.live : e.ref[x] = Refs(O \cup {b}, R, x)
  <2>1. Cardinality(Readers(R, b)) = 0
    BY <1>4, HeldRead
  <2>2. Refs(O \cup {b}, R, b) = 1
    BY <2>1 DEF Refs
  <2>3. \A x \in d.live : Refs(O \cup {b}, R, x) = Refs(O, R, x)
    BY DEF Refs
  <2>4. \A x \in d.live : d.ref[x] = Refs(O, R, x)
    BY DEF Keeps
  <2>5. e.ref[b] = 1 /\ \A x \in d.live : e.ref[x] = d.ref[x]
    BY <1>1, <1>2, <1>4 DEF Cache
  <2> QED
    BY <1>2, <2>2, <2>3, <2>4, <2>5
<1>7. e.size = Cardinality(BytesOf(e.bytes, e.live \ (N \cup {b})))
  <2>1. e.live \ (N \cup {b}) = d.live \ N
    BY <1>2
  <2>2. \A x \in d.live \ N : e.bytes[x] = d.bytes[x]
    BY <1>1, <1>2, <1>4 DEF Cache
  <2>3. BytesOf(e.bytes, d.live \ N) = BytesOf(d.bytes, d.live \ N)
    BY <2>2, BytesSame
  <2>4. d.size = Cardinality(BytesOf(d.bytes, d.live \ N))
    BY DEF Keeps
  <2> QED
    BY <1>2, <2>1, <2>3, <2>4
<1>8. e.live = (O \cup {b}) \cup Held(R) /\ e.fault = "none" /\ e.items = n
      /\ R \in [Worker -> Block \cup {Null}]
  BY <1>1, <1>2 DEF Keeps
<1>9. S \subseteq O \cup {b} /\ N \cup {b} \subseteq O \cup {b}
  BY <1>1
<1>10. Keeps(e, e.key, O \cup {b}, S, N \cup {b}, R, n)
  BY <1>3, <1>5, <1>6, <1>7, <1>8, <1>9 DEF Keeps
<1> QED
  BY <1>10 DEF e

\* One round of cache_weedout: the cache fits, or the younger list is empty,
\* or an item leaves its list.
LEMMA WeedRound ==
  ASSUME NEW d, NEW K, NEW O, NEW S, NEW N, NEW R, NEW n, Keeps(d, K, O, S, N, R, n),
         NEW w \in Worker, NEW t, Weed(w, d, t)
  PROVE  \/ /\ c' = d
            /\ item' = [item EXCEPT ![w] = Null] /\ pc' = [pc EXCEPT ![w] = "idle"]
         \/ /\ c' = [d EXCEPT !.fault = "assert_younger"]
            /\ item' = item /\ pc' = pc
         \/ \E v \in S : /\ c' = RemoveList(d, v)
                         /\ item' = [item EXCEPT ![w] = v]
                         /\ pc' = [pc EXCEPT ![w] = "weed_table"]
<1>1. CASE ~Full(d)
  BY <1>1 DEF Weed, Goto
<1>2. CASE Full(d)
  <2> DEFINE v == Victim(d, t)
             y == d.next[Younger]
  <2>1. Doubly(d, S) /\ Sided(d, S) /\ S \in SUBSET d.live /\ d.live \in SUBSET Block /\ d.fault = "none"
    <3>1. S \in SUBSET d.live /\ d.live \in SUBSET Block
      BY KeepsNat
    <3> QED
      BY <3>1 DEF Keeps, Listed
  <2>2. Younger \in Head /\ Older \in Head /\ Head = {Younger, Older} /\ Younger # Older
        /\ S \cap Head = {}
    BY <2>1, Heads DEF Head
  <2>3. PICK Y \in SUBSET S : \A m \in S \cup Head :
                (m \in Y \cup {Younger}) <=> (d.next[m] \in Y \cup {Younger})
    BY <2>1 DEF Sided
  <2>4. y \in S \cup {Younger}
    BY <2>2, <2>3
  <2>5. d.next[Older] \in S \cup {Older}
    <3>1. d.next[Older] \in S \cup Head
      BY <2>1, <2>2 DEF Doubly
    <3>2. Older \notin Y \cup {Younger}
      BY <2>2
    <3> QED
      BY <2>2, <2>3, <3>1, <3>2
  <2>6. CASE y = Younger
    <3>1. VictimFault(d) = "assert_younger"
      BY <2>6 DEF VictimFault
    <3>2. c' = Fault(d, "assert_younger") /\ item' = item /\ pc' = pc
      BY <1>2, <3>1, Zenon DEF Weed
    <3> QED
      BY <2>1, <3>2 DEF Fault
  <2>7. CASE y # Younger
    <3>1. y \in S /\ VictimFault(d) = "none"
      BY <2>1, <2>4, <2>7 DEF VictimFault, Reachable
    <3>2. v \in S
      <4>1. v = y \/ (v = d.next[Older] /\ d.next[Older] # Older)
        BY DEF Victim
      <4> QED
        BY <2>5, <3>1, <4>1
    <3>3. c' = RemoveList(d, v) /\ item' = [item EXCEPT ![w] = v] /\ pc' = [pc EXCEPT ![w] = "weed_table"]
      BY <1>2, <3>1, Zenon DEF Weed, Goto
    <3> HIDE DEF v
    <3> QED
      BY <3>2, <3>3
  <2> QED
    BY <2>6, <2>7
<1> QED
  BY <1>1, <1>2

-------------------------------------------------------------------------------
(***************************************************************************)
(* The halves of the operations                                            *)
(***************************************************************************)
Types ==
    /\ table \in [Key -> Block \cup {Null}]
    /\ c \in Cache
    /\ item \in [Worker -> Block \cup {Null}]
    /\ old \in [Worker -> Block \cup {Null}]
    /\ now \in [Worker -> 0 .. MaxClock]
    /\ clock \in 0 .. MaxClock
    /\ pc \in [Worker -> Places]

\* The item a worker has linked nowhere, or unlinked.
Off(w) == IF pc[w] \in {"insert_link", "weed_table", "weed_unref"} THEN {item[w]} ELSE {}

\* What the cache owns that is not in the table: a worker took it out of there.
Out(w) == (IF pc[w] \in {"weed_unref", "erase_link"} THEN {item[w]} ELSE {})
             \cup ({old[w]} \ {Null})

\* The item that is not counted yet.
New(w) == IF pc[w] = "insert_link" THEN {item[w]} ELSE {}

Outs == UNION {Out(w) : w \in Worker}
Offs == UNION {Off(w) : w \in Worker}
News == UNION {New(w) : w \in Worker}
Reads == [w \in Worker |-> IF pc[w] = "reading" THEN item[w] ELSE Null]
Owned == Cached \cup Outs
Count == Cardinality(Owned \ News)

Tabled == \A k \in Key : table[k] # Null => c.key[table[k]] = k

Half(w) ==
    /\ (item[w] = Null) <=> (pc[w] = "idle")
    /\ old[w] # Null => pc[w] = "insert_link" /\ old[w] # item[w]
    /\ pc[w] \in {"insert_link", "weed_table", "get_link"} => item[w] \in Cached
    /\ Out(w) \cap Cached = {}

Body ==
    /\ Tabled /\ Apart
    /\ \A w \in Worker : Half(w)
    /\ Keeps(c, c.key, Owned, Owned \ Offs, News, Reads, Count)

Sound ==
    /\ Types /\ MemorySafe
    /\ c.size \in Nat /\ c.items \in Nat
    /\ Running => Body
    /\ ~ Running => ~ Quiet

\* What is known of the cache between two steps.
LEMMA Facts ==
  ASSUME Sound, Running
  PROVE  /\ Types /\ c \in Cache /\ c.fault = "none" /\ Tabled /\ Apart
         /\ Cached \subseteq Owned /\ Outs \subseteq Owned /\ Owned \subseteq c.live
         /\ c.live \in SUBSET Block /\ Null \notin Block
         /\ Keeps(c, c.key, Owned, Owned \ Offs, News, Reads, Count)
         /\ Owned \ Offs \subseteq Owned /\ News \subseteq Owned
         /\ Count \in Nat /\ IsFiniteSet(Owned)
<1>1. Types /\ c \in Cache /\ c.fault = "none" /\ Tabled /\ Apart
      /\ Keeps(c, c.key, Owned, Owned \ Offs, News, Reads, Count)
  BY DEF Sound, Body, Running, Types
<1>2. Cached \subseteq Owned /\ Outs \subseteq Owned /\ Owned \ Offs \subseteq Owned
  BY DEF Owned
<1>3. Owned \subseteq c.live /\ News \subseteq Owned
  BY <1>1 DEF Keeps
<1>4. c.live \in SUBSET Block /\ Null \notin Block
  BY <1>1 DEF Cache, Node
<1>5. Owned \in SUBSET Block /\ Owned \ News \in SUBSET Block
  BY <1>3, <1>4
<1>6. Count \in Nat /\ IsFiniteSet(Owned)
  BY <1>5, BytesFinite DEF Count
<1> QED
  BY <1>1, <1>2, <1>3, <1>4, <1>6

\* What worker w has between its halves is its own.
LEMMA Own ==
  ASSUME Sound, Running, NEW w \in Worker
  PROVE  /\ Half(w)
         /\ Out(w) \subseteq Moves(w) /\ Off(w) \subseteq Moves(w)
         /\ New(w) \subseteq Off(w) /\ Moves(w) \subseteq Holds(w)
         /\ Out(w) \subseteq Outs /\ Off(w) \subseteq Offs /\ New(w) \subseteq News
         /\ \A v \in Worker \ {w} : Moves(v) \cap Holds(w) = {}
<1>1. Half(w) /\ Apart /\ item \in [Worker -> Block \cup {Null}]
  BY DEF Sound, Body, Types
<1>2. Out(w) \subseteq Moves(w)
  BY <1>1 DEF Half, Out, Moves, Holds
<1>3. Off(w) \subseteq Moves(w)
  BY <1>1 DEF Half, Off, Moves, Holds
<1>4. New(w) \subseteq Off(w) /\ Moves(w) \subseteq Holds(w)
  BY DEF New, Off, Moves
<1>5. Out(w) \subseteq Outs /\ Off(w) \subseteq Offs /\ New(w) \subseteq News
  BY DEF Outs, Offs, News
<1> QED
  BY <1>1, <1>2, <1>3, <1>4, <1>5 DEF Apart

LEMMA NotOthers ==
  ASSUME Sound, Running, NEW w \in Worker, NEW x \in Holds(w)
  PROVE  /\ x \in Outs => x \in Out(w)
         /\ x \in Offs => x \in Off(w)
         /\ x \in News => x \in New(w)
<1>1. \A v \in Worker \ {w} : x \notin Moves(v)
  BY Own
<1>2. \A v \in Worker : Out(v) \subseteq Moves(v) /\ Off(v) \subseteq Moves(v) /\ New(v) \subseteq Moves(v)
  BY Own
<1> QED
  BY <1>1, <1>2 DEF Outs, Offs, News

\* A step of worker w: the others stay where they are.
Same(w) ==
    \A v \in Worker \ {w} : pc'[v] = pc[v] /\ item'[v] = item[v] /\ old'[v] = old[v]

LEMMA Locals ==
  ASSUME Sound, Running, NEW w \in Worker, Same(w)
  PROVE  /\ Outs' = (Outs \ Out(w)) \cup Out(w)'
         /\ Offs' = (Offs \ Off(w)) \cup Off(w)'
         /\ News' = (News \ New(w)) \cup New(w)'
         /\ Reads' = [Reads EXCEPT ![w] = IF pc'[w] = "reading" THEN item'[w] ELSE Null]
<1>1. ASSUME NEW v \in Worker \ {w}
      PROVE  /\ Out(v)' = Out(v) /\ Off(v)' = Off(v) /\ New(v)' = New(v)
             /\ Out(v) \cap Out(w) = {} /\ Off(v) \cap Off(w) = {} /\ New(v) \cap New(w) = {}
  <2>1. Out(v)' = Out(v) /\ Off(v)' = Off(v) /\ New(v)' = New(v)
    BY DEF Same, Out, Off, New
  <2>2. Moves(v) \cap Holds(w) = {} /\ Out(w) \subseteq Holds(w) /\ Off(w) \subseteq Holds(w)
        /\ New(w) \subseteq Holds(w)
    BY Own
  <2>3. Out(v) \subseteq Moves(v) /\ Off(v) \subseteq Moves(v) /\ New(v) \subseteq Moves(v)
    BY Own
  <2> QED
    BY <2>1, <2>2, <2>3
<1>2. Outs' = (Outs \ Out(w)) \cup Out(w)'
  BY <1>1 DEF Outs
<1>3. Offs' = (Offs \ Off(w)) \cup Off(w)'
  BY <1>1 DEF Offs
<1>4. News' = (News \ New(w)) \cup New(w)'
  BY <1>1 DEF News
<1>5. Reads' = [Reads EXCEPT ![w] = IF pc'[w] = "reading" THEN item'[w] ELSE Null]
  BY DEF Reads, Same
<1> QED
  BY <1>2, <1>3, <1>4, <1>5

\* A step that leaves the cache sound, as it is then for its worker.
LEMMA Assembled ==
  ASSUME Sound, Running, NEW w \in Worker, Same(w),
         Types', Apart', Tabled', Half(w)',
         \A v \in Worker \ {w} : \A x \in Holds(v) : x \in Cached' <=> x \in Cached,
         Keeps(c', c'.key, Owned', Owned' \ Offs', News', Reads', Count')
  PROVE  Sound'
<1>1. ASSUME NEW v \in Worker \ {w}
      PROVE  Half(v)'
  <2>1. Half(v) /\ Out(v) \subseteq Holds(v)
    BY Own
  <2>2. pc'[v] = pc[v] /\ item'[v] = item[v] /\ old'[v] = old[v]
    BY DEF Same
  <2>3. Out(v)' = Out(v)
    BY <2>2 DEF Out
  <2>4. Out(v)' \cap Cached' = {}
    BY <2>1, <2>3 DEF Half
  <2>5. pc[v] \in {"insert_link", "weed_table", "get_link"} => item[v] \in Holds(v)
    BY <2>1 DEF Half, Holds
  <2> QED
    BY <2>1, <2>2, <2>4, <2>5 DEF Half
<1>2. c'.fault = "none" /\ c'.items = Count' /\ c'.size \in Nat /\ Owned' \in SUBSET Block
  <2>1. c'.size \in Nat /\ Owned' \in SUBSET Block
    BY KeepsNat
  <2> QED
    BY <2>1 DEF Keeps
<1>3. Count' \in Nat
  <2>1. Owned' \ News' \in SUBSET Block
    BY <1>2
  <2>2. Cardinality(Owned' \ News') \in Nat
    BY <2>1, BytesFinite
  <2> QED
    BY <2>2 DEF Count
<1>4. Body'
  BY <1>1 DEF Body
<1> QED
  BY <1>2, <1>3, <1>4 DEF Sound, MemorySafe, Running

\* What a step does to one key of the table.
LEMMA CachedAfter ==
  ASSUME Types, Tabled, NEW k \in Key, NEW x, x \notin Cached,
         table' = [table EXCEPT ![k] = x]
  PROVE  Cached' = (Cached \ {table[k]}) \cup ({x} \ {Null})
<1>1. \A j \in Key : table'[j] = IF j = k THEN x ELSE table[j]
  BY DEF Types
<1>2. \A j \in Key : table[j] = table[k] /\ table[k] # Null => j = k
  BY DEF Tabled
<1>3. Null \notin Cached
  BY DEF Cached
<1>4. ASSUME NEW b \in Cached'
      PROVE  b \in (Cached \ {table[k]}) \cup ({x} \ {Null})
  <2>1. PICK j \in Key : table'[j] = b /\ b # Null
    BY <1>4 DEF Cached
  <2>2. CASE j = k
    BY <1>1, <2>1, <2>2
  <2>3. CASE j # k
    <3>1. table[j] = b /\ b \in Cached
      BY <1>1, <2>1, <2>3 DEF Cached
    <3>2. b # table[k]
      BY <1>2, <2>1, <2>3, <3>1
    <3> QED
      BY <3>1, <3>2
  <2> QED
    BY <2>2, <2>3
<1>5. ASSUME NEW b \in Cached \ {table[k]}
      PROVE  b \in Cached'
  <2>1. PICK j \in Key : table[j] = b /\ b # Null
    BY <1>5 DEF Cached
  <2>2. table'[j] = b
    BY <1>1, <1>5, <2>1
  <2> QED
    BY <2>1, <2>2 DEF Cached
<1>6. x # Null => x \in Cached'
  <2>1. table'[k] = x
    BY <1>1
  <2> QED
    BY <2>1 DEF Cached
<1> QED
  BY <1>4, <1>5, <1>6

-------------------------------------------------------------------------------
(***************************************************************************)
(* The operations                                                          *)
(***************************************************************************)
LEMMA GetFindSound ==
  ASSUME Sound, Running, NEW w \in Worker, GetFind(w), Apart'
  PROVE  Sound'
<1>1. Types /\ c \in Cache /\ Tabled /\ Cached \subseteq c.live /\ Half(w)
      /\ Keeps(c, c.key, Owned, Owned \ Offs, News, Reads, Count)
  BY Facts, Own
<1>2. PICK k \in Key : table[k] # Null /\ item' = [item EXCEPT ![w] = table[k]]
                       /\ pc' = [pc EXCEPT ![w] = "get_link"] /\ c' = c
  <2>1. \A k \in Key : Findable(k)
    BY <1>1 DEF Findable, Cached
  <2> QED
    BY <2>1 DEF GetFind, Goto
<1>3. UNCHANGED <<table, old, now, clock>> /\ pc[w] = "idle"
  BY DEF GetFind
<1>4. table[k] \in Cached /\ table[k] \in Block
  BY <1>1, <1>2 DEF Cached, Types
<1>5. Types' /\ item'[w] = table[k] /\ pc'[w] = "get_link" /\ Same(w)
  BY <1>1, <1>2, <1>3, <1>4 DEF Types, Places, Same
<1>6. Cached' = Cached /\ Tabled'
  BY <1>1, <1>2, <1>3 DEF Cached, Tabled
<1>7. old[w] = Null /\ old'[w] = Null
  BY <1>1, <1>3 DEF Half
<1>8. Out(w) = {} /\ Out(w)' = {} /\ Off(w) = {} /\ Off(w)' = {} /\ New(w) = {} /\ New(w)' = {}
  BY <1>3, <1>5, <1>7 DEF Out, Off, New
<1>9. Outs' = Outs /\ Offs' = Offs /\ News' = News
  BY <1>5, <1>8, Locals
<1>10. Reads' = Reads
  <2>1. Reads' = [Reads EXCEPT ![w] = Null]
    BY <1>5, Locals
  <2>2. Reads[w] = Null
    BY <1>3 DEF Reads
  <2> QED
    BY <2>1, <2>2 DEF Reads
<1>11. Owned' = Owned /\ Count' = Count
  BY <1>6, <1>9 DEF Owned, Count
<1>12. Half(w)'
  BY <1>4, <1>5, <1>6, <1>7, <1>8, Facts DEF Half
<1>13. Keeps(c', c'.key, Owned', Owned' \ Offs', News', Reads', Count')
  BY <1>1, <1>2, <1>9, <1>10, <1>11
<1> QED
  BY <1>5, <1>6, <1>12, <1>13, Assembled

LEMMA GetLinkSound ==
  ASSUME Sound, Running, NEW w \in Worker, GetLink(w), Apart'
  PROVE  Sound'
<1> DEFINE b == item[w]
<1>1. Types /\ c \in Cache /\ Tabled /\ Half(w)
      /\ Keeps(c, c.key, Owned, Owned \ Offs, News, Reads, Count)
  BY Facts, Own
<1>2. pc[w] = "get_link" /\ pc' = [pc EXCEPT ![w] = "reading"] /\ c' = Visit(c, b)
      /\ UNCHANGED <<table, item, old, now, clock>>
  BY DEF GetLink, Goto
<1>3. b \in Cached /\ b # Null /\ old[w] = Null
  BY <1>1, <1>2 DEF Half
<1>4. b \in Owned \ Offs
  <2>1. b \in Holds(w) /\ Off(w) = {}
    BY <1>2, <1>3 DEF Holds, Off
  <2>2. b \notin Offs
    BY <2>1, NotOthers
  <2> QED
    BY <1>3, <2>2 DEF Owned
<1>5. Reads[w] = Null
  BY <1>2 DEF Reads
<1>6. Same(w) /\ pc'[w] = "reading" /\ item'[w] = b /\ old'[w] = Null
  BY <1>1, <1>2, <1>3 DEF Types, Same
<1>7. Out(w) = {} /\ Out(w)' = {} /\ Off(w) = {} /\ Off(w)' = {} /\ New(w) = {} /\ New(w)' = {}
  BY <1>2, <1>3, <1>6 DEF Out, Off, New
<1>8. Outs' = Outs /\ Offs' = Offs /\ News' = News /\ Reads' = [Reads EXCEPT ![w] = b]
  BY <1>6, <1>7, Locals
<1>9. Cached' = Cached
  BY <1>2 DEF Cached
<1>10. Owned' = Owned /\ Count' = Count
  BY <1>8, <1>9 DEF Owned, Count
<1>11. Keeps(c', c.key, Owned', Owned' \ Offs', News', Reads', Count')
  <2>1. PICK K, O, S, N, R, n : K = c.key /\ O = Owned /\ S = Owned \ Offs /\ N = News /\ R = Reads
                                /\ n = Count
    OBVIOUS
  <2>2. Keeps(c, K, O, S, N, R, n) /\ b \in S /\ R[w] = Null
    BY <1>1, <1>4, <1>5, <2>1
  <2> HIDE DEF b
  <2>3. Keeps(Visit(c, b), K, O, S, N, [R EXCEPT ![w] = b], n)
    BY <2>2, KeepsVisit
  <2> QED
    BY <1>2, <1>8, <1>10, <2>1, <2>3
<1>12. Keeps(c', c'.key, Owned', Owned' \ Offs', News', Reads', Count') /\ c' \in Cache
  BY <1>11 DEF Keeps
<1>13. Types'
  BY <1>1, <1>2, <1>12 DEF Types, Places
<1>14. Tabled'
  <2>1. \A x \in Owned' : c'.key[x] = c.key[x]
    BY <1>11 DEF Keeps
  <2>2. \A k \in Key : table[k] # Null => table[k] \in Owned'
    BY <1>9, <1>10 DEF Owned, Cached
  <2> QED
    BY <1>1, <1>2, <2>1, <2>2 DEF Tabled
<1>15. Half(w)'
  BY <1>3, <1>6, <1>7 DEF Half
<1> QED
  BY <1>6, <1>9, <1>12, <1>13, <1>14, <1>15, Assembled

LEMMA ReleaseSound ==
  ASSUME Sound, Running, NEW w \in Worker, ReleaseCache(w), Apart'
  PROVE  Sound'
<1> DEFINE b == item[w]
<1>1. Types /\ c \in Cache /\ Tabled /\ Half(w)
      /\ Keeps(c, c.key, Owned, Owned \ Offs, News, Reads, Count)
  BY Facts, Own
<1>2. /\ pc[w] = "reading" /\ pc' = [pc EXCEPT ![w] = "idle"] /\ UNCHANGED <<table, old, now, clock>>
      /\ item' = [item EXCEPT ![w] = Null] /\ c' = Unref(c, b)
  BY DEF ReleaseCache, Goto
<1>3. b \in Block /\ old[w] = Null /\ Reads[w] = b
  BY <1>1, <1>2 DEF Half, Types, Reads
<1>6. Same(w) /\ pc'[w] = "idle" /\ item'[w] = Null /\ old'[w] = Null
  BY <1>1, <1>2, <1>3 DEF Types, Same
<1>7. Out(w) = {} /\ Out(w)' = {} /\ Off(w) = {} /\ Off(w)' = {} /\ New(w) = {} /\ New(w)' = {}
  BY <1>2, <1>3, <1>6 DEF Out, Off, New
<1>8. Outs' = Outs /\ Offs' = Offs /\ News' = News /\ Reads' = [Reads EXCEPT ![w] = Null]
  BY <1>6, <1>7, Locals
<1>9. Cached' = Cached
  BY <1>2 DEF Cached
<1>10. Owned' = Owned /\ Count' = Count
  BY <1>8, <1>9 DEF Owned, Count
<1>11. Keeps(c', c.key, Owned', Owned' \ Offs', News', Reads', Count')
  <2>1. PICK K, O, S, N, R, n : K = c.key /\ O = Owned /\ S = Owned \ Offs /\ N = News /\ R = Reads
                                /\ n = Count
    OBVIOUS
  <2>2. Keeps(c, K, O, S, N, R, n) /\ b \in Block /\ R[w] = b
    BY <1>1, <1>3, <2>1
  <2> HIDE DEF b
  <2>3. Keeps(Unref(c, b), K, O, S, N, [R EXCEPT ![w] = Null], n)
    BY <2>2, KeepsRelease
  <2> QED
    BY <1>2, <1>8, <1>10, <2>1, <2>3
<1>12. Keeps(c', c'.key, Owned', Owned' \ Offs', News', Reads', Count') /\ c' \in Cache
  BY <1>11 DEF Keeps
<1>13. Types'
  BY <1>1, <1>2, <1>12 DEF Types, Places
<1>14. Tabled'
  <2>1. \A x \in Owned' : c'.key[x] = c.key[x]
    BY <1>11 DEF Keeps
  <2>2. \A k \in Key : table[k] # Null => table[k] \in Owned'
    BY <1>9, <1>10 DEF Owned, Cached
  <2> QED
    BY <1>1, <1>2, <2>1, <2>2 DEF Tabled
<1>15. Half(w)'
  BY <1>6, <1>7 DEF Half
<1> QED
  BY <1>6, <1>9, <1>12, <1>13, <1>14, <1>15, Assembled

LEMMA InsertTableSound ==
  ASSUME Sound, Running, NEW w \in Worker, InsertTable(w), Apart'
  PROVE  Sound'
<1>1. Types /\ c \in Cache /\ Tabled /\ Half(w) /\ Cached \subseteq c.live /\ Null \notin Block
      /\ Owned \subseteq c.live /\ c.live \in SUBSET Block
      /\ Keeps(c, c.key, Owned, Owned \ Offs, News, Reads, Count) /\ News \subseteq Owned
  BY Facts, Own
<1>2. PICK k \in Key, b \in Block \ c.live, m \in Bytes :
         /\ c' = LET d == NewItem(c, b, k, m)
                 IN  IF Findable(k) THEN d ELSE Fault(d, "use_after_free")
         /\ table' = [table EXCEPT ![k] = b]
         /\ old' = [old EXCEPT ![w] = table[k]]
         /\ item' = [item EXCEPT ![w] = b]
  BY DEF InsertTable
<1>3. /\ pc[w] = "idle" /\ pc' = [pc EXCEPT ![w] = "insert_link"]
      /\ now' = [now EXCEPT ![w] = clock] /\ UNCHANGED clock
  BY DEF InsertTable, Goto
<1>4. c' = NewItem(c, b, k, m)
  <2>1. Findable(k)
    BY <1>1 DEF Findable, Cached
  <2> QED
    BY <1>2, <2>1
<1> DEFINE o == table[k]
<1>5. o \in Block \cup {Null} /\ (o # Null => o \in Cached) /\ o # b /\ b # Null /\ b \notin Cached
      /\ b \notin Owned
  BY <1>1 DEF Types, Cached
<1>6. Same(w) /\ pc'[w] = "insert_link" /\ item'[w] = b /\ old'[w] = o
  BY <1>1, <1>2, <1>3 DEF Types, Same
<1>7. old[w] = Null
  BY <1>1, <1>3 DEF Half
<1>8. /\ Out(w) = {} /\ Out(w)' = {o} \ {Null} /\ Off(w) = {} /\ Off(w)' = {b}
      /\ New(w) = {} /\ New(w)' = {b}
  BY <1>3, <1>6, <1>7 DEF Out, Off, New
<1>9. /\ Outs' = Outs \cup ({o} \ {Null}) /\ Offs' = Offs \cup {b} /\ News' = News \cup {b}
      /\ Reads' = [Reads EXCEPT ![w] = Null]
  BY <1>6, <1>8, Locals
<1>10. Reads' = Reads
  <2>1. Reads[w] = Null
    BY <1>3 DEF Reads
  <2> QED
    BY <1>9, <2>1 DEF Reads
<1>11. Cached' = (Cached \ {o}) \cup {b}
  <2>1. Cached' = (Cached \ {o}) \cup ({b} \ {Null})
    BY <1>1, <1>2, <1>5, CachedAfter
  <2> QED
    BY <1>5, <2>1
<1>12. Owned' = Owned \cup {b}
  <2>1. Null \notin Cached
    BY DEF Cached
  <2>2. Owned' = Cached' \cup Outs'
    BY DEF Owned
  <2> QED
    BY <1>5, <1>9, <1>11, <2>1, <2>2 DEF Owned
<1>13. Owned' \ Offs' = Owned \ Offs /\ Owned' \ News' = Owned \ News
  BY <1>5, <1>9, <1>12
<1>14. Count' = Count
  BY <1>13 DEF Count
<1>15. Keeps(c', c'.key, Owned', Owned' \ Offs', News', Reads', Count')
  <2>1. PICK K, O, S, N, R, n : K = c.key /\ O = Owned /\ S = Owned \ Offs /\ N = News /\ R = Reads
                                /\ n = Count
    OBVIOUS
  <2>2. Keeps(c, K, O, S, N, R, n) /\ clock \in Nat
    BY <1>1, <2>1 DEF Types
  <2>3. Keeps(NewItem(c, b, k, m), NewItem(c, b, k, m).key, O \cup {b}, S, N \cup {b}, R, n)
    BY <2>2, KeepsNew
  <2> QED
    BY <1>4, <1>9, <1>10, <1>12, <1>13, <1>14, <2>1, <2>3
<1>16. Types'
  <2>1. c' \in Cache
    BY <1>15 DEF Keeps
  <2> QED
    BY <1>1, <1>2, <1>3, <1>5, <2>1 DEF Types, Places
<1>17. Tabled'
  <2>1. \A j \in Key : table'[j] = IF j = k THEN b ELSE table[j]
    BY <1>1, <1>2 DEF Types
  <2>2. c'.key = [c.key EXCEPT ![b] = k] /\ c.key \in [Block -> Key \cup {Null}]
    BY <1>1, <1>4 DEF NewItem, Cache
  <2>3. \A j \in Key : table[j] # Null => table[j] \in Block \ {b}
    BY <1>1, <1>5 DEF Cached
  <2> QED
    BY <1>1, <2>1, <2>2, <2>3 DEF Tabled
<1>18. Half(w)'
  <2>1. {o} \cap Cached' = {}
    BY <1>5, <1>11
  <2> QED
    BY <1>5, <1>6, <1>8, <1>11, <2>1 DEF Half
<1>19. \A v \in Worker \ {w} : \A x \in Holds(v) : x \in Cached' <=> x \in Cached
  <2> SUFFICES ASSUME NEW v \in Worker \ {w}, NEW x \in Holds(v)
               PROVE  x \in Cached' <=> x \in Cached
    OBVIOUS
  <2>1. Holds(v)' = Holds(v)
    BY <1>6 DEF Same, Holds
  <2>2. Moves(w)' \cap Holds(v)' = {}
    BY DEF Apart
  <2>3. b \in Moves(w)' /\ (o # Null => o \in Moves(w)')
    BY <1>5, <1>6 DEF Moves, Holds
  <2>4. x # b /\ (o # Null => x # o)
    BY <2>1, <2>2, <2>3
  <2>5. Null \notin Cached
    BY DEF Cached
  <2> QED
    BY <1>11, <2>4, <2>5
<1> QED
  BY <1>6, <1>15, <1>16, <1>17, <1>18, <1>19, Assembled

LEMMA WeedTableSound ==
  ASSUME Sound, Running, NEW w \in Worker, WeedTable(w), Apart'
  PROVE  Sound'
<1> DEFINE v == item[w]
           k == c.key[v]
<1>1. Types /\ c \in Cache /\ Tabled /\ Half(w) /\ Cached \subseteq c.live
      /\ Keeps(c, c.key, Owned, Owned \ Offs, News, Reads, Count)
  BY Facts, Own
<1>2. /\ pc[w] = "weed_table" /\ pc' = [pc EXCEPT ![w] = "weed_unref"]
      /\ UNCHANGED <<item, old, now, clock>>
  BY DEF WeedTable, Goto
<1>3. v \in Cached /\ v # Null /\ old[w] = Null
  BY <1>1, <1>2 DEF Half
<1>4. k \in Key /\ table[k] = v
  BY <1>1, <1>3 DEF Tabled, Cached
<1>5. table' = [table EXCEPT ![k] = Null] /\ c' = c
  <2>1. v \in c.live /\ Findable(k)
    BY <1>1, <1>3, <1>4 DEF Findable
  <2> QED
    BY <2>1 DEF WeedTable
<1>6. Same(w) /\ pc'[w] = "weed_unref" /\ item'[w] = v /\ old'[w] = Null
  BY <1>1, <1>2, <1>3 DEF Types, Same
<1>7. Out(w) = {} /\ Out(w)' = {v} /\ Off(w) = {v} /\ Off(w)' = {v} /\ New(w) = {} /\ New(w)' = {}
  BY <1>2, <1>3, <1>6 DEF Out, Off, New
<1>8. /\ Outs' = Outs \cup {v} /\ Offs' = (Offs \ {v}) \cup {v} /\ News' = News
      /\ Reads' = [Reads EXCEPT ![w] = Null]
  BY <1>6, <1>7, Locals
<1>9. Reads' = Reads
  <2>1. Reads[w] = Null
    BY <1>2 DEF Reads
  <2> QED
    BY <1>8, <2>1 DEF Reads
<1>10. Cached' = Cached \ {v}
  <2>1. Null \notin Cached
    BY DEF Cached
  <2>2. Cached' = (Cached \ {table[k]}) \cup ({Null} \ {Null})
    BY <1>1, <1>4, <1>5, <2>1, CachedAfter
  <2> QED
    BY <1>4, <2>2
<1>11. Owned' = Owned
  BY <1>3, <1>8, <1>10 DEF Owned
<1>12. Offs' = Offs
  <2>1. v \in Offs
    BY <1>7, Own
  <2> QED
    BY <1>8, <2>1
<1>13. Count' = Count
  BY <1>8, <1>11 DEF Count
<1>14. Keeps(c', c'.key, Owned', Owned' \ Offs', News', Reads', Count')
  BY <1>1, <1>5, <1>8, <1>9, <1>11, <1>12, <1>13
<1>15. Types'
  BY <1>1, <1>2, <1>5 DEF Types, Places
<1>16. Tabled'
  <2>1. \A j \in Key : table'[j] = IF j = k THEN Null ELSE table[j]
    BY <1>1, <1>5 DEF Types
  <2> QED
    BY <1>1, <1>5, <2>1 DEF Tabled
<1>17. Half(w)'
  BY <1>3, <1>6, <1>7, <1>10 DEF Half
<1>18. \A u \in Worker \ {w} : \A x \in Holds(u) : x \in Cached' <=> x \in Cached
  <2> SUFFICES ASSUME NEW u \in Worker \ {w}, NEW x \in Holds(u)
               PROVE  x # v
    BY <1>10
  <2>1. Moves(w) \cap Holds(u) = {}
    BY Facts DEF Apart
  <2>2. v \in Moves(w)
    BY <1>2, <1>3 DEF Moves, Holds
  <2> QED
    BY <2>1, <2>2
<1> QED
  BY <1>6, <1>14, <1>15, <1>16, <1>17, <1>18, Assembled

LEMMA EraseTableSound ==
  ASSUME Sound, Running, NEW w \in Worker, EraseTable(w), Apart'
  PROVE  Sound'
<1>1. Types /\ c \in Cache /\ Tabled /\ Half(w) /\ Cached \subseteq c.live
      /\ Keeps(c, c.key, Owned, Owned \ Offs, News, Reads, Count)
  BY Facts, Own
<1>2. PICK k \in Key :
         /\ table[k] # Null /\ table' = [table EXCEPT ![k] = Null]
         /\ item' = [item EXCEPT ![w] = table[k]]
         /\ pc' = [pc EXCEPT ![w] = "erase_link"] /\ c' = c
  <2>1. \A k \in Key : Findable(k)
    BY <1>1 DEF Findable, Cached
  <2> QED
    BY <2>1 DEF EraseTable, Goto
<1> DEFINE b == table[k]
<1>3. pc[w] = "idle" /\ UNCHANGED <<old, now, clock>>
  BY DEF EraseTable
<1>4. b \in Cached /\ b \in Block /\ b # Null /\ old[w] = Null
  BY <1>1, <1>2, <1>3 DEF Cached, Types, Half
<1>6. Same(w) /\ pc'[w] = "erase_link" /\ item'[w] = b /\ old'[w] = Null
  BY <1>1, <1>2, <1>3, <1>4 DEF Types, Same
<1>7. Out(w) = {} /\ Out(w)' = {b} /\ Off(w) = {} /\ Off(w)' = {} /\ New(w) = {} /\ New(w)' = {}
  BY <1>3, <1>4, <1>6 DEF Out, Off, New
<1>8. /\ Outs' = Outs \cup {b} /\ Offs' = Offs /\ News' = News
      /\ Reads' = [Reads EXCEPT ![w] = Null]
  BY <1>6, <1>7, Locals
<1>9. Reads' = Reads
  <2>1. Reads[w] = Null
    BY <1>3 DEF Reads
  <2> QED
    BY <1>8, <2>1 DEF Reads
<1>10. Cached' = Cached \ {b}
  <2>1. Null \notin Cached
    BY DEF Cached
  <2>2. Cached' = (Cached \ {table[k]}) \cup ({Null} \ {Null})
    BY <1>1, <1>2, <2>1, CachedAfter
  <2> QED
    BY <2>2
<1>11. Owned' = Owned
  BY <1>4, <1>8, <1>10 DEF Owned
<1>13. Count' = Count
  BY <1>8, <1>11 DEF Count
<1>14. Keeps(c', c'.key, Owned', Owned' \ Offs', News', Reads', Count')
  BY <1>1, <1>2, <1>8, <1>9, <1>11, <1>13
<1>15. Types'
  BY <1>1, <1>2, <1>3, <1>4 DEF Types, Places
<1>16. Tabled'
  <2>1. \A j \in Key : table'[j] = IF j = k THEN Null ELSE table[j]
    BY <1>1, <1>2 DEF Types
  <2> QED
    BY <1>1, <1>2, <2>1 DEF Tabled
<1>17. Half(w)'
  BY <1>4, <1>6, <1>7, <1>10 DEF Half
<1>18. \A u \in Worker \ {w} : \A x \in Holds(u) : x \in Cached' <=> x \in Cached
  <2> SUFFICES ASSUME NEW u \in Worker \ {w}, NEW x \in Holds(u)
               PROVE  x # b
    BY <1>10
  <2>1. Holds(u)' = Holds(u)
    BY <1>6 DEF Same, Holds
  <2>2. Moves(w)' \cap Holds(u)' = {}
    BY DEF Apart
  <2>3. b \in Moves(w)'
    BY <1>4, <1>6 DEF Moves, Holds
  <2> QED
    BY <2>1, <2>2, <2>3
<1> QED
  BY <1>6, <1>14, <1>15, <1>16, <1>17, <1>18, Assembled

LEMMA EraseLinkSound ==
  ASSUME Sound, Running, NEW w \in Worker, EraseLink(w), Apart'
  PROVE  Sound'
<1> DEFINE b == item[w]
           d == [c EXCEPT !.items = @ - 1]
           r == RemoveList(d, b)
<1>1. Types /\ c \in Cache /\ Tabled /\ Half(w) /\ News \subseteq Owned /\ Owned \subseteq c.live
      /\ Keeps(c, c.key, Owned, Owned \ Offs, News, Reads, Count)
      /\ Count \in Nat /\ IsFiniteSet(Owned)
  BY Facts, Own
<1>2. /\ pc[w] = "erase_link" /\ pc' = [pc EXCEPT ![w] = "idle"] /\ UNCHANGED <<table, old, now, clock>>
      /\ item' = [item EXCEPT ![w] = Null] /\ c' = Unref(r, b)
  BY DEF EraseLink, Goto
<1>3. old[w] = Null /\ b # Null
  BY <1>1, <1>2 DEF Half
<1>4. Same(w) /\ pc'[w] = "idle" /\ item'[w] = Null /\ old'[w] = Null
  BY <1>1, <1>2, <1>3 DEF Types, Same
<1>5. Out(w) = {b} /\ Out(w)' = {} /\ Off(w) = {} /\ Off(w)' = {} /\ New(w) = {} /\ New(w)' = {}
  BY <1>2, <1>3, <1>4 DEF Out, Off, New
<1>6. /\ Outs' = Outs \ {b} /\ Offs' = Offs /\ News' = News
      /\ Reads' = [Reads EXCEPT ![w] = Null]
  BY <1>4, <1>5, Locals
<1>7. Reads' = Reads
  <2>1. Reads[w] = Null
    BY <1>2 DEF Reads
  <2> QED
    BY <1>6, <2>1 DEF Reads
<1>8. b \in Owned \ Offs /\ b \notin News /\ b \notin Cached
  <2>1. b \in Holds(w)
    BY <1>2, <1>3 DEF Holds
  <2>2. b \notin Offs /\ b \notin News
    BY <1>5, <2>1, NotOthers DEF New
  <2>3. b \in Outs /\ b \notin Cached
    BY <1>1, <1>5, Own DEF Half
  <2> QED
    BY <2>2, <2>3 DEF Owned
<1>9. Cached' = Cached
  BY <1>2 DEF Cached
<1>10. Owned' = Owned \ {b}
  BY <1>6, <1>8, <1>9 DEF Owned
<1>11. Owned' \ Offs' = (Owned \ Offs) \ {b} /\ Owned' \ News' = (Owned \ News) \ {b}
  BY <1>6, <1>10
<1>12. Count' = Count - 1
  <2> DEFINE T == Owned \ News
  <2>1. IsFiniteSet(T) /\ b \in T
    BY <1>1, <1>8, FS_Subset
  <2> HIDE DEF T
  <2>2. Cardinality(T \ {b}) = Cardinality(T) - 1
    BY <2>1, FS_RemoveElement
  <2> QED
    BY <1>11, <2>2 DEF Count, T
<1>13. Keeps(c', c.key, Owned', Owned' \ Offs', News', Reads', Count')
  <2>1. PICK K, O, S, N, R, n : K = c.key /\ O = Owned /\ S = Owned \ Offs /\ N = News /\ R = Reads
                                /\ n = Count
    OBVIOUS
  <2>2. Keeps(c, K, O, S, N, R, n) /\ n \in Int /\ b \in S /\ b \in O /\ b \notin N
    BY <1>1, <1>8, <2>1
  <2>3. Keeps(d, K, O, S, N, R, n - 1)
    BY <2>2, KeepsItems
  <2> HIDE DEF d, b
  <2>4. Keeps(r, K, O, S \ {b}, N, R, n - 1)
    BY <2>2, <2>3, KeepsRemove
  <2> HIDE DEF r
  <2>5. Keeps(Unref(r, b), K, O \ {b}, S \ {b}, N, R, n - 1)
    BY <2>2, <2>4, KeepsDisown
  <2> QED
    BY <1>2, <1>6, <1>7, <1>10, <1>11, <1>12, <2>1, <2>5
<1>14. Keeps(c', c'.key, Owned', Owned' \ Offs', News', Reads', Count') /\ c' \in Cache
  BY <1>13 DEF Keeps
<1>15. Types'
  BY <1>1, <1>2, <1>14 DEF Types, Places
<1>16. Tabled'
  <2>1. \A x \in Owned' : c'.key[x] = c.key[x]
    BY <1>13 DEF Keeps
  <2>2. \A k \in Key : table[k] # Null => table[k] \in Owned'
    BY <1>9 DEF Owned, Cached
  <2> QED
    BY <1>1, <1>2, <2>1, <2>2 DEF Tabled
<1>17. Half(w)'
  BY <1>4, <1>5 DEF Half
<1> QED
  BY <1>4, <1>9, <1>14, <1>15, <1>16, <1>17, Assembled

\* The end of an insertion and of a round of cache_weedout.
LEMMA WeedSound ==
  ASSUME Sound, Running, NEW w \in Worker, pc[w] \in {"insert_link", "weed_unref"}, Apart',
         NEW f, NEW t, Weed(w, f, t), UNCHANGED <<table, now, clock>>,
         old' \in [Worker -> Block \cup {Null}], old'[w] = Null,
         \A v \in Worker \ {w} : old'[v] = old[v],
         NEW K, K = c.key, NEW O, O = Cached \cup (Outs \ Out(w)),
         NEW F, F = Offs \ Off(w), NEW N, N = News \ New(w), NEW R, R = Reads,
         NEW n, n = Cardinality(O \ N), Keeps(f, K, O, O \ F, N, R, n)
  PROVE  Sound'
<1>1. Types /\ c \in Cache /\ Tabled /\ Half(w) /\ Null \notin Block
  BY Facts, Own
<1>2. Reads = [Reads EXCEPT ![w] = Null]
  <2>1. Reads[w] = Null
    BY DEF Reads
  <2> QED
    BY <2>1 DEF Reads
<1>3. Cached' = Cached
  BY DEF Cached
<1>4. O \in SUBSET Block
  BY KeepsNat
<1>5. ASSUME NEW l \in {"idle", "weed_table"}, pc' = [pc EXCEPT ![w] = l],
             NEW x, item' = [item EXCEPT ![w] = x], l = "idle" => x = Null,
             l = "weed_table" => x \in O,
             Keeps(c', K, O, O \ (F \cup Off(w)'), N, R, n)
      PROVE  Sound'
  <2>1. Same(w) /\ pc'[w] = l /\ item'[w] = x
    BY <1>1, <1>5 DEF Types, Same
  <2>2. Out(w)' = {} /\ New(w)' = {}
    BY <2>1 DEF Out, New
  <2>3. Outs' = Outs \ Out(w) /\ Offs' = F \cup Off(w)' /\ News' = N /\ Reads' = Reads
    <3>1. /\ Outs' = (Outs \ Out(w)) \cup Out(w)'
          /\ Offs' = (Offs \ Off(w)) \cup Off(w)'
          /\ News' = (News \ New(w)) \cup New(w)'
          /\ Reads' = [Reads EXCEPT ![w] = IF pc'[w] = "reading" THEN item'[w] ELSE Null]
      BY <2>1, Locals
    <3> QED
      BY <1>2, <2>1, <2>2, <3>1
  <2>4. Owned' = O /\ Count' = n
    BY <1>3, <2>3 DEF Owned, Count
  <2>5. Keeps(c', K, Owned', Owned' \ Offs', News', Reads', Count')
    BY <1>5, <2>3, <2>4
  <2>6. Keeps(c', c'.key, Owned', Owned' \ Offs', News', Reads', Count') /\ c' \in Cache
    BY <2>5 DEF Keeps
  <2>7. Types'
    <3>1. x \in Block \cup {Null}
      BY <1>4, <1>5
    <3> QED
      BY <1>1, <1>5, <2>6, <3>1 DEF Types, Places
  <2>8. Tabled'
    <3>1. \A y \in Owned' : c'.key[y] = c.key[y]
      BY <2>5 DEF Keeps
    <3>2. \A k \in Key : table[k] # Null => table[k] \in Owned'
      BY <1>3 DEF Owned, Cached
    <3> QED
      BY <1>1, <3>1, <3>2 DEF Tabled
  <2>9. l = "weed_table" => x \in Cached
    <3> SUFFICES ASSUME l = "weed_table", x \notin Cached
                 PROVE  FALSE
      OBVIOUS
    <3>1. x \in Outs \ Out(w) /\ x # Null
      BY <1>1, <1>4, <1>5
    <3>2. PICK u \in Worker : x \in Out(u)
      BY <3>1 DEF Outs
    <3>3. u # w
      BY <3>1, <3>2
    <3>4. x \in Moves(u)
      BY <3>2, Own
    <3>5. Moves(u)' = Moves(u)
      BY <2>1, <3>3 DEF Same, Moves, Holds
    <3>6. x \in Holds(w)'
      BY <2>1, <3>1 DEF Holds
    <3> QED
      BY <3>3, <3>4, <3>5, <3>6 DEF Apart
  <2>10. Half(w)'
    <3>1. x = Null <=> l = "idle"
      BY <1>1, <1>4, <1>5
    <3> QED
      BY <1>3, <2>1, <2>2, <2>9, <3>1 DEF Half
  <2> QED
    BY <1>3, <2>1, <2>6, <2>7, <2>8, <2>10, Assembled
<1>6. \/ /\ c' = f
         /\ item' = [item EXCEPT ![w] = Null] /\ pc' = [pc EXCEPT ![w] = "idle"]
      \/ /\ c' = [f EXCEPT !.fault = "assert_younger"]
         /\ item' = item /\ pc' = pc
      \/ \E v \in O \ F : /\ c' = RemoveList(f, v)
                          /\ item' = [item EXCEPT ![w] = v]
                          /\ pc' = [pc EXCEPT ![w] = "weed_table"]
  <2> DEFINE S == O \ F
  <2>1. Keeps(f, K, O, S, N, R, n)
    OBVIOUS
  <2> HIDE DEF S
  <2>2. \/ /\ c' = f
           /\ item' = [item EXCEPT ![w] = Null] /\ pc' = [pc EXCEPT ![w] = "idle"]
        \/ /\ c' = [f EXCEPT !.fault = "assert_younger"]
           /\ item' = item /\ pc' = pc
        \/ \E v \in S : /\ c' = RemoveList(f, v)
                        /\ item' = [item EXCEPT ![w] = v]
                        /\ pc' = [pc EXCEPT ![w] = "weed_table"]
    BY <2>1, WeedRound
  <2> QED
    BY <2>2 DEF S
<1>7. CASE /\ c' = f
           /\ item' = [item EXCEPT ![w] = Null] /\ pc' = [pc EXCEPT ![w] = "idle"]
  <2>1. Off(w)' = {}
    BY <1>1, <1>7 DEF Off, Types
  <2>2. Keeps(c', K, O, O \ (F \cup Off(w)'), N, R, n)
    BY <1>7, <2>1
  <2> QED
    BY <1>5, <1>7, <2>2
<1>8. CASE /\ c' = [f EXCEPT !.fault = "assert_younger"]
           /\ item' = item /\ pc' = pc
  <2>1. f \in Cache /\ f.size \in Nat /\ f.items \in Nat
    <3>1. f.size \in Nat
      BY KeepsNat
    <3>2. n \in Nat
      <4>1. O \ N \in SUBSET Block
        BY <1>4
      <4> QED
        BY <4>1, BytesFinite
    <3> QED
      BY <3>1, <3>2 DEF Keeps
  <2>2. c' \in Cache /\ c'.size \in Nat /\ c'.items \in Nat /\ c'.fault = "assert_younger"
    BY <1>8, <2>1 DEF Cache, Faults
  <2>3. Types'
    BY <1>1, <1>8, <2>2 DEF Types
  <2>4. ~ Quiet'
    BY <1>8 DEF Quiet
  <2> QED
    BY <2>2, <2>3, <2>4 DEF Sound, MemorySafe, Running
<1>9. CASE \E v \in O \ F : /\ c' = RemoveList(f, v)
                            /\ item' = [item EXCEPT ![w] = v]
                            /\ pc' = [pc EXCEPT ![w] = "weed_table"]
  <2>1. PICK v \in O \ F : /\ c' = RemoveList(f, v)
                           /\ item' = [item EXCEPT ![w] = v]
                           /\ pc' = [pc EXCEPT ![w] = "weed_table"]
    BY <1>9
  <2>2. Off(w)' = {v}
    BY <1>1, <2>1 DEF Off, Types
  <2> DEFINE S == O \ F
  <2>3. Keeps(f, K, O, S, N, R, n) /\ v \in S
    OBVIOUS
  <2> HIDE DEF S
  <2>4. Keeps(RemoveList(f, v), K, O, S \ {v}, N, R, n)
    BY <2>3, KeepsRemove
  <2>5. S \ {v} = O \ (F \cup Off(w)')
    BY <2>2 DEF S
  <2>6. Keeps(c', K, O, O \ (F \cup Off(w)'), N, R, n)
    BY <2>1, <2>4, <2>5
  <2> QED
    BY <1>5, <2>1, <2>6
<1> QED
  BY <1>6, <1>7, <1>8, <1>9

LEMMA WeedUnrefSound ==
  ASSUME Sound, Running, NEW w \in Worker, WeedUnref(w), Apart'
  PROVE  Sound'
<1> DEFINE b == item[w]
           d == [c EXCEPT !.items = @ - 1]
           e == Unref(d, b)
<1>1. Types /\ c \in Cache /\ Half(w) /\ News \subseteq Owned /\ Owned \subseteq c.live
      /\ Keeps(c, c.key, Owned, Owned \ Offs, News, Reads, Count)
      /\ Count \in Nat /\ IsFiniteSet(Owned)
  BY Facts, Own
<1>2. pc[w] = "weed_unref" /\ Weed(w, e, now[w]) /\ UNCHANGED <<table, old, now, clock>>
  BY DEF WeedUnref
<1>3. old[w] = Null /\ b # Null
  BY <1>1, <1>2 DEF Half
<1>4. Out(w) = {b} /\ Off(w) = {b} /\ New(w) = {}
  BY <1>2, <1>3 DEF Out, Off, New
<1>5. b \in Offs /\ b \in Outs /\ b \notin News /\ b \notin Cached /\ b \in Owned
  <2>1. b \in Holds(w)
    BY <1>2, <1>3 DEF Holds
  <2>2. b \notin News
    BY <1>4, <2>1, NotOthers
  <2>3. b \in Outs /\ b \notin Cached /\ b \in Offs
    BY <1>1, <1>4, Own DEF Half
  <2> QED
    BY <2>2, <2>3 DEF Owned
<1>6. PICK K, P, T, N, R, n : K = c.key /\ P = Owned /\ T = Owned \ Offs /\ N = News /\ R = Reads
                              /\ n = Count
  OBVIOUS
<1>7. Keeps(c, K, P, T, N, R, n) /\ n \in Int /\ b \in P /\ b \notin T /\ b \notin N
  BY <1>1, <1>5, <1>6
<1>8. PICK O, F : O = Cached \cup (Outs \ Out(w)) /\ F = Offs \ Off(w)
  OBVIOUS
<1>9. O = P \ {b} /\ T = O \ F
  BY <1>4, <1>5, <1>6, <1>8 DEF Owned
<1>10. n - 1 = Cardinality(O \ N)
  <2> DEFINE M == P \ N
  <2>1. IsFiniteSet(M) /\ b \in M
    BY <1>1, <1>6, <1>7, FS_Subset
  <2>2. n = Cardinality(M) /\ O \ N = M \ {b}
    BY <1>6, <1>9 DEF Count
  <2> HIDE DEF M
  <2>3. Cardinality(M \ {b}) = Cardinality(M) - 1
    BY <2>1, FS_RemoveElement
  <2> QED
    BY <2>2, <2>3
<1>11. Keeps(e, K, O, O \ F, N, R, n - 1)
  <2>1. Keeps(d, K, P, T, N, R, n - 1)
    BY <1>7, KeepsItems
  <2> HIDE DEF d, b
  <2>2. Keeps(Unref(d, b), K, P \ {b}, T, N, R, n - 1)
    BY <1>7, <2>1, KeepsDisown
  <2> QED
    BY <1>9, <2>2
<1>12. N = News \ New(w)
  BY <1>4, <1>6
<1>13. old' \in [Worker -> Block \cup {Null}] /\ old'[w] = Null /\ \A v \in Worker \ {w} : old'[v] = old[v]
  BY <1>1, <1>2, <1>3 DEF Types
<1> HIDE DEF e, b
<1>14. PICK m : m = n - 1
  OBVIOUS
<1>15. Keeps(e, K, O, O \ F, N, R, m) /\ m = Cardinality(O \ N) /\ K = c.key /\ R = Reads
  BY <1>6, <1>10, <1>11, <1>14
<1> QED
  BY <1>2, <1>8, <1>12, <1>13, <1>15, WeedSound

\* What insert_cache does with the item it displaced, if there is one.
LEMMA OldDropped ==
  ASSUME NEW d, NEW K, NEW O, NEW S, NEW N, NEW R, NEW o, o # Null => o \in S /\ o \notin N,
         Keeps(d, K, O, S, N, R, Cardinality(O \ N))
  PROVE  Keeps(DropOld(d, o), K, O \ {o}, S \ {o}, N, R, Cardinality((O \ {o}) \ N))
<1>1. O \in SUBSET Block /\ S \subseteq O /\ Null \notin Block
  <2>1. O \in SUBSET Block
    BY KeepsNat
  <2> QED
    BY <2>1 DEF Keeps, Node
<1>2. CASE o = Null
  <2>1. O \ {o} = O /\ S \ {o} = S
    BY <1>1, <1>2
  <2>2. DropOld(d, o) = d
    BY <1>2 DEF DropOld
  <2> QED
    BY <2>1, <2>2
<1>3. CASE o # Null
  <2> DEFINE r == RemoveList(d, o)
             u == Unref(r, o)
             M == O \ N
  <2>1. o \in S /\ o \in O /\ o \notin N
    BY <1>1, <1>3
  <2>2. IsFiniteSet(M) /\ Cardinality(M) \in Nat /\ o \in M
    <3>1. M \in SUBSET Block
      BY <1>1
    <3> QED
      BY <2>1, <3>1, BytesFinite
  <2>3. (O \ {o}) \ N = M \ {o}
    OBVIOUS
  <2>4. PICK n \in Nat : n = Cardinality(M)
    BY <2>2
  <2> HIDE DEF M
  <2>5. Cardinality(M \ {o}) = n - 1
    BY <2>2, <2>4, FS_RemoveElement
  <2>6. Keeps(d, K, O, S, N, R, n)
    BY <2>4 DEF M
  <2>7. Keeps(r, K, O, S \ {o}, N, R, n)
    BY <2>1, <2>6, KeepsRemove
  <2> HIDE DEF r
  <2>8. Keeps(u, K, O \ {o}, S \ {o}, N, R, n)
    BY <2>1, <2>7, KeepsDisown
  <2>9. DropOld(d, o) = [u EXCEPT !.items = @ - 1]
    BY <1>3 DEF DropOld, r
  <2> HIDE DEF u
  <2>10. Keeps([u EXCEPT !.items = @ - 1], K, O \ {o}, S \ {o}, N, R, n - 1)
    BY <2>8, KeepsItems
  <2> QED
    BY <2>3, <2>5, <2>9, <2>10
<1> QED
  BY <1>2, <1>3

\* What it does with its own.
LEMMA NewCounted ==
  ASSUME NEW d, NEW K, NEW O, NEW S, NEW N, NEW R, NEW b \in O, b \in N, b \notin S,
         Keeps(d, K, O, S, N, R, Cardinality(O \ N))
  PROVE  Keeps(AppendTo(CountItem(d, b), Younger, b), K, O, S \cup {b}, N \ {b}, R,
               Cardinality(O \ (N \ {b})))
<1> DEFINE M == O \ N
           e == CountItem(d, b)
<1>1. O \in SUBSET Block
  BY KeepsNat
<1>2. IsFiniteSet(M) /\ Cardinality(M) \in Nat /\ b \notin M /\ O \ (N \ {b}) = M \cup {b}
  <2>1. M \in SUBSET Block
    BY <1>1
  <2> QED
    BY <2>1, BytesFinite
<1>3. PICK n \in Nat : n = Cardinality(M)
  BY <1>2
<1>4. Keeps(d, K, O, S, N, R, n)
  BY <1>3
<1> HIDE DEF M
<1>5. Cardinality(M \cup {b}) = n + 1
  BY <1>2, <1>3, FS_AddElement
<1>6. Keeps(e, K, O, S, N \ {b}, R, n + 1)
  BY <1>4, KeepsCount
<1> HIDE DEF e
<1>7. Younger \in Head
  BY DEF Head
<1>8. Keeps(AppendTo(e, Younger, b), K, O, S \cup {b}, N \ {b}, R, n + 1)
  BY <1>6, <1>7, KeepsAppend
<1> QED
  BY <1>2, <1>5, <1>8 DEF e

LEMMA InsertLinkSound ==
  ASSUME Sound, Running, NEW w \in Worker, InsertLink(w), Apart'
  PROVE  Sound'
<1> DEFINE b == item[w]
           o == old[w]
           d == DropOld(c, o)
           f == AppendTo(CountItem(d, b), Younger, b)
<1>1. Types /\ c \in Cache /\ Half(w) /\ News \subseteq Owned
      /\ Keeps(c, c.key, Owned, Owned \ Offs, News, Reads, Count)
  BY Facts, Own
<1>2. /\ pc[w] = "insert_link" /\ Weed(w, f, now[w]) /\ old' = [old EXCEPT ![w] = Null]
      /\ UNCHANGED <<table, now, clock>>
  BY DEF InsertLink
<1>3. b \in Cached /\ b # Null /\ o # b
  BY <1>1, <1>2 DEF Half
<1>4. Out(w) = {o} \ {Null} /\ Off(w) = {b} /\ New(w) = {b}
  BY <1>2 DEF Out, Off, New
<1>5. b \in Offs /\ b \in News /\ b \in Owned
  BY <1>3, <1>4, Own DEF Owned
<1>6. o # Null => o \in Owned /\ o \notin Offs /\ o \notin News /\ o \notin Cached /\ o \in Outs
  <2> SUFFICES ASSUME o # Null
               PROVE  o \in Owned /\ o \notin Offs /\ o \notin News /\ o \notin Cached /\ o \in Outs
    OBVIOUS
  <2>1. o \in Holds(w)
    BY <1>2 DEF Holds
  <2>2. o \notin Offs /\ o \notin News
    BY <1>3, <1>4, <2>1, NotOthers
  <2>3. o \in Outs /\ o \notin Cached
    BY <1>1, <1>4, Own DEF Half
  <2> QED
    BY <2>2, <2>3 DEF Owned
<1>7. PICK K, P, T, L, R : K = c.key /\ P = Owned /\ T = Owned \ Offs /\ L = News /\ R = Reads
  OBVIOUS
<1>8. Keeps(c, K, P, T, L, R, Cardinality(P \ L)) /\ (o # Null => o \in T /\ o \notin L)
  BY <1>1, <1>6, <1>7 DEF Count
<1>9. PICK O, F, N : O = Cached \cup (Outs \ Out(w)) /\ F = Offs \ Off(w) /\ N = News \ New(w)
  OBVIOUS
<1>10. N = L \ {b}
  BY <1>4, <1>7, <1>9
<1>11. O = P \ {o}
  <2>1. Null \notin Owned
    <3>1. Owned \in SUBSET Block
      BY Facts
    <3> QED
      BY <3>1 DEF Node
  <2> QED
    BY <1>4, <1>6, <1>7, <1>9, <2>1 DEF Owned
<1>12. O \ F = (T \ {o}) \cup {b}
  BY <1>3, <1>4, <1>5, <1>7, <1>9, <1>11
<1>13. b \in O /\ b \in L /\ b \notin T \ {o}
  BY <1>3, <1>5, <1>7, <1>11
<1>14. PICK S : S = T \ {o}
  OBVIOUS
<1> HIDE DEF b, o
<1>15. Keeps(d, K, O, S, L, R, Cardinality(O \ L))
  BY <1>8, <1>11, <1>14, OldDropped
<1> HIDE DEF d
<1>16. Keeps(f, K, O, S \cup {b}, L \ {b}, R, Cardinality(O \ (L \ {b})))
  BY <1>13, <1>14, <1>15, NewCounted
<1> HIDE DEF f
<1>17. PICK n : n = Cardinality(O \ N)
  OBVIOUS
<1>18. Keeps(f, K, O, O \ F, N, R, n) /\ K = c.key /\ R = Reads
  BY <1>7, <1>10, <1>12, <1>14, <1>16, <1>17
<1>19. old' \in [Worker -> Block \cup {Null}] /\ old'[w] = Null /\ \A v \in Worker \ {w} : old'[v] = old[v]
  BY <1>1, <1>2 DEF Types
<1> QED
  BY <1>2, <1>9, <1>17, <1>18, <1>19, WeedSound

-------------------------------------------------------------------------------
(***************************************************************************)
(* The invariant                                                           *)
(***************************************************************************)
LEMMA InitSound == Init => Sound
<1> SUFFICES ASSUME Init
             PROVE  Sound
  OBVIOUS
<1>1. c.live = {} /\ c.fault = "none" /\ c.size = 0 /\ c.items = 0
  BY DEF Init
<1>2. c.next = [n \in Node |-> IF n \in Head THEN n ELSE Null]
      /\ c.prev = [n \in Node |-> IF n \in Head THEN n ELSE Null]
  BY DEF Init
<1>3. Types
  <2>1. c \in Cache
    <3>1. /\ [b \in Block |-> Null] \in [Block -> Key \cup {Null}]
          /\ [b \in Block |-> 0] \in [Block -> Bytes \cup {0}]
          /\ [b \in Block |-> 0] \in [Block -> Nat]
          /\ [b \in Block |-> 0] \in [Block -> Int]
      OBVIOUS
    <3>2. [b \in Block |-> 0] \in [Block -> 0 .. VMod - 1]
      OBVIOUS
    <3>3. [n \in Node |-> IF n \in Head THEN n ELSE Null] \in [Node -> Node \cup {Null}]
      OBVIOUS
    <3> QED
      BY <3>1, <3>2, <3>3 DEF Init, Cache, Faults
  <2> QED
    BY <2>1 DEF Init, Types, Places
<1>4. Tabled /\ Cached = {}
  BY DEF Init, Tabled, Cached
<1>5. Listed(c, {})
  <2>1. \A n \in Head : c.next[n] = n /\ c.prev[n] = n
    BY <1>2, Heads
  <2>2. Doubly(c, {})
    BY <2>1 DEF Doubly
  <2>3. Sided(c, {})
    <3> DEFINE Y == {}
    <3>1. Y \in SUBSET {}
      OBVIOUS
    <3>2. \A n \in {} \cup Head : (n \in Y \cup {Younger}) <=> (c.next[n] \in Y \cup {Younger})
      BY <2>1
    <3> QED
      BY <3>1, <3>2 DEF Sided
  <2>4. Headed(c, {})
    BY DEF Headed
  <2> QED
    BY <2>2, <2>3, <2>4 DEF Listed
<1>6. BytesOf(c.bytes, {}) = {} /\ Cardinality({}) = 0
  BY FS_EmptySet DEF BytesOf
<1>7. ASSUME NEW w \in Worker
      PROVE  /\ pc[w] = "idle" /\ item[w] = Null /\ old[w] = Null
             /\ Off(w) = {} /\ Out(w) = {} /\ New(w) = {} /\ Moves(w) = {}
             /\ Half(w) /\ Reads[w] = Null
  <2>1. pc[w] = "idle" /\ item[w] = Null /\ old[w] = Null
    BY DEF Init
  <2>2. Off(w) = {} /\ Out(w) = {} /\ New(w) = {} /\ Moves(w) = {}
    BY <2>1 DEF Off, Out, New, Moves, Holds
  <2> QED
    BY <1>4, <2>1, <2>2 DEF Half, Reads
<1>8. Outs = {} /\ Offs = {} /\ News = {} /\ Owned = {} /\ Apart
  BY <1>4, <1>7 DEF Outs, Offs, News, Owned, Apart
<1>9. Held(Reads) = {} /\ Reads \in [Worker -> Block \cup {Null}]
  BY <1>7 DEF Held, Reads
<1>10. Keeps(c, c.key, Owned, Owned \ Offs, News, Reads, Count)
  BY <1>1, <1>3, <1>5, <1>6, <1>8, <1>9 DEF Keeps, Count, Types
<1> QED
  BY <1>1, <1>3, <1>4, <1>7, <1>8, <1>10 DEF Sound, Body, MemorySafe, Running

LEMMA SoundStep ==
  ASSUME Sound, [Next /\ Apart']_vars
  PROVE  Sound'
<1>1. CASE UNCHANGED vars \/ (Tick /\ Apart')
  <2>1. UNCHANGED <<table, c, pc, item, old, now>> /\ clock' \in 0 .. MaxClock
    BY <1>1 DEF vars, local, Tick, Sound, Types
  <2>2. Types' /\ MemorySafe' /\ (Running' <=> Running) /\ (Quiet' <=> Quiet)
        /\ (Tabled' <=> Tabled) /\ (Apart' <=> Apart)
    <3>1. Types' /\ MemorySafe' /\ (Running' <=> Running) /\ (Quiet' <=> Quiet)
      BY <2>1 DEF Sound, Types, MemorySafe, Running, Quiet
    <3>2. (Tabled' <=> Tabled) /\ (Apart' <=> Apart)
      BY <2>1 DEF Tabled, Apart, Moves, Holds
    <3> QED
      BY <3>1, <3>2
  <2>3. \A w \in Worker : Out(w)' = Out(w) /\ Off(w)' = Off(w) /\ New(w)' = New(w)
    BY <2>1 DEF Out, Off, New
  <2>4. Cached' = Cached /\ Outs' = Outs /\ Offs' = Offs /\ News' = News /\ Reads' = Reads
    BY <2>1, <2>3 DEF Cached, Outs, Offs, News, Reads
  <2>5. Owned' = Owned /\ Count' = Count
    BY <2>4 DEF Owned, Count
  <2>6. \A w \in Worker : Half(w) <=> Half(w)'
    BY <2>1, <2>3, <2>4 DEF Half
  <2>7. Body => Body'
    BY <2>1, <2>2, <2>4, <2>5, <2>6 DEF Body
  <2> QED
    BY <2>1, <2>2, <2>7 DEF Sound
<1>2. ASSUME Running, NEW w \in Worker, Apart',
             \/ GetFind(w) \/ GetLink(w) \/ ReleaseCache(w)
             \/ InsertTable(w) \/ InsertLink(w)
             \/ WeedTable(w) \/ WeedUnref(w)
             \/ EraseTable(w) \/ EraseLink(w)
      PROVE  Sound'
  <2>1. CASE GetFind(w)
    BY <1>2, <2>1, GetFindSound
  <2>2. CASE GetLink(w)
    BY <1>2, <2>2, GetLinkSound
  <2>3. CASE ReleaseCache(w)
    BY <1>2, <2>3, ReleaseSound
  <2>4. CASE InsertTable(w)
    BY <1>2, <2>4, InsertTableSound
  <2>5. CASE InsertLink(w)
    BY <1>2, <2>5, InsertLinkSound
  <2>6. CASE WeedTable(w)
    BY <1>2, <2>6, WeedTableSound
  <2>7. CASE WeedUnref(w)
    BY <1>2, <2>7, WeedUnrefSound
  <2>8. CASE EraseTable(w)
    BY <1>2, <2>8, EraseTableSound
  <2>9. CASE EraseLink(w)
    BY <1>2, <2>9, EraseLinkSound
  <2> QED
    BY <1>2, <2>1, <2>2, <2>3, <2>4, <2>5, <2>6, <2>7, <2>8, <2>9
<1> QED
  BY <1>1, <1>2 DEF Next

\* What the halves of operations leave behind when they do not meet at one
\* item: which items the cache owns, who refers to them, which are on a list
\* and which are counted.
THEOREM Invariance == ApartSpec => []Sound
  BY InitSound, SoundStep, PTL DEF ApartSpec

\* No operation touches freed memory or follows a NULL list pointer, and an
\* item that readers hold may be replaced, erased or weeded out under them, as
\* long as the halves of operations do not meet at one item.  Of the two
\* asserts of cache_weedout only the one about the younger list may fail.
THEOREM MemorySafety == ApartSpec => []MemorySafe
<1>1. Sound => MemorySafe
  BY DEF Sound
<1> QED
  BY <1>1, Invariance, PTL

\* Every variable keeps its type; in particular neither curr_size nor
\* items_number ever goes below zero, though every thread subtracts from both.
THEOREM TypeCorrect == ApartSpec => []TypeOK
<1>1. Sound => TypeOK
  <2> SUFFICES ASSUME Sound
               PROVE  TypeOK
    OBVIOUS
  <2>1. Types /\ c.size \in Nat /\ c.items \in Nat
    BY DEF Sound
  <2> QED
    BY <2>1 DEF TypeOK, Types, Cache, Places
<1> QED
  BY <1>1, Invariance, PTL

-------------------------------------------------------------------------------
(***************************************************************************)
(* The sum that Accounting speaks of                                       *)
(***************************************************************************)
LEMMA Least ==
  ASSUME NEW T \in SUBSET Nat, T # {}
  PROVE  \E n \in T : \A m \in T : n <= m
<1>1. PICK n \in T : \A m \in T : ~ (<<m, n>> \in OpToRel(<, Nat))
  BY NatLessThanWellFounded, WFMin
<1>2. \A m \in T : ~ (m < n)
  <2> SUFFICES ASSUME NEW m \in T, m < n
               PROVE  FALSE
    OBVIOUS
  <2>1. <<m, n>> \in OpToRel(<, Nat)
    BY DEF OpToRel
  <2> QED
    BY <1>1, <2>1
<1> QED
  BY <1>2

\* Any element of a set that is not empty.
Any(s) == CHOOSE x \in s : TRUE

LEMMA AnyIn ==
  ASSUME NEW s, s # {}
  PROVE  Any(s) \in s
  BY DEF Any

\* f is a sum of g over the subsets of S, one element at a time.
Sums(f, g, S) ==
    f = [s \in SUBSET S |-> IF s = {} THEN 0 ELSE g[Any(s)] + f[s \ {Any(s)}]]

LEMMA SumUnfolded ==
  ASSUME NEW g, NEW S
  PROVE  MapThenSumSet(LAMBDA b : g[b], S) = (CHOOSE f : Sums(f, g, S))[S]
  BY Zenon DEF MapThenSumSet, MapThenFoldSet, Sums, Any

\* There is one such sum, and it counts the bytes.
LEMMA CountSums ==
  ASSUME NEW g, NEW S \in SUBSET Block, \A b \in S : g[b] \in 0 .. Limit
  PROVE  Sums([s \in SUBSET S |-> Cardinality(BytesOf(g, s))], g, S)
<1> DEFINE F == [s \in SUBSET S |-> Cardinality(BytesOf(g, s))]
<1>1. ASSUME NEW s \in SUBSET S
      PROVE  F[s] = IF s = {} THEN 0 ELSE g[Any(s)] + F[s \ {Any(s)}]
  <2>1. CASE s = {}
    <3>1. BytesOf(g, s) = {}
      BY <2>1 DEF BytesOf
    <3> QED
      BY <2>1, <3>1, FS_EmptySet
  <2>2. CASE s # {}
    <3>1. Any(s) \in s
      BY <2>2, AnyIn
    <3> DEFINE a == Any(s)
               r == s \ {a}
    <3>2. r \in SUBSET Block /\ a \in Block \ r /\ g[a] \in 0 .. Limit /\ r \cup {a} = s /\ r \in SUBSET S
      BY <3>1
    <3> HIDE DEF r, a
    <3>3. Cardinality(BytesOf(g, r \cup {a})) = Cardinality(BytesOf(g, r)) + g[a]
      BY <3>2, BytesMore
    <3>4. Cardinality(BytesOf(g, r)) \in Nat
      BY <3>2, BytesFinite
    <3>5. F[s] = g[a] + F[r]
      BY <3>2, <3>3, <3>4
    <3> QED
      BY <2>2, <3>5 DEF a, r
  <2> QED
    BY <2>1, <2>2
<1> QED
  BY <1>1 DEF Sums

LEMMA SumsUnique ==
  ASSUME NEW g, NEW S, IsFiniteSet(S), NEW f, Sums(f, g, S), NEW h, Sums(h, g, S)
  PROVE  f[S] = h[S]
<1> DEFINE Bad == {s \in SUBSET S : f[s] # h[s]}
           Sizes == {Cardinality(s) : s \in Bad}
<1>1. \A s \in SUBSET S : IsFiniteSet(s) /\ Cardinality(s) \in Nat
  BY FS_Subset, FS_CardinalityType
<1>2. ASSUME f[S] # h[S]
      PROVE  FALSE
  <2>1. Sizes \in SUBSET Nat /\ Sizes # {}
    BY <1>1, <1>2
  <2> HIDE DEF Sizes
  <2>2. PICK n \in Sizes : \A m \in Sizes : n <= m
    BY <2>1, Least
  <2>3. PICK s \in Bad : n = Cardinality(s)
    BY DEF Sizes
  <2>4. \A r \in Bad : Cardinality(s) <= Cardinality(r)
    BY <2>2, <2>3 DEF Sizes
  <2>5. /\ f[s] = IF s = {} THEN 0 ELSE g[Any(s)] + f[s \ {Any(s)}]
        /\ h[s] = IF s = {} THEN 0 ELSE g[Any(s)] + h[s \ {Any(s)}]
    BY Zenon DEF Sums
  <2>6. s # {}
    BY <2>3, <2>5
  <2>7. Any(s) \in s
    BY <2>6, AnyIn
  <2>8. Cardinality(s \ {Any(s)}) = Cardinality(s) - 1
    BY <1>1, <2>7, FS_RemoveElement
  <2>9. s \ {Any(s)} \notin Bad
    BY <1>1, <2>4, <2>8
  <2>10. f[s \ {Any(s)}] = h[s \ {Any(s)}]
    BY <2>9
  <2>11. f[s] = h[s]
    BY <2>5, <2>6, <2>10
  <2> QED
    BY <2>11
<1> QED
  BY <1>2

LEMMA SumIsCount ==
  ASSUME NEW g, NEW S \in SUBSET Block, \A b \in S : g[b] \in 0 .. Limit
  PROVE  MapThenSumSet(LAMBDA b : g[b], S) = Cardinality(BytesOf(g, S))
<1> DEFINE F == [s \in SUBSET S |-> Cardinality(BytesOf(g, s))]
           f == CHOOSE e : Sums(e, g, S)
<1>1. Sums(F, g, S)
  BY CountSums
<1> HIDE DEF F
<1>2. Sums(f, g, S)
  BY <1>1
<1> HIDE DEF f
<1>3. IsFiniteSet(S)
  BY BytesFinite
<1>4. f[S] = F[S]
  BY <1>1, <1>2, <1>3, SumsUnique
<1>5. MapThenSumSet(LAMBDA b : g[b], S) = f[S]
  BY SumUnfolded DEF f
<1> QED
  BY <1>4, <1>5 DEF F

\* curr_size is the memory of the items that entered the cache and were not
\* freed, whoever holds them; between operations items_number is the number of
\* keys, and an item has one reference for the cache and one for each reader,
\* hence is freed by whoever lets go of it last.
THEOREM Accounted == ApartSpec => []Accounting
<1>1. Sound => Accounting
  <2> SUFFICES ASSUME Sound, Running
               PROVE  /\ c.size = MapThenSumSet(LAMBDA b : c.bytes[b], Counted)
                      /\ Quiet => c.items = Cardinality(Cached) /\ RefExact
    BY DEF Accounting
  <2>1. /\ Keeps(c, c.key, Owned, Owned \ Offs, News, Reads, Count)
        /\ Types /\ c \in Cache /\ c.live \in SUBSET Block /\ Null \notin Block
    BY Facts
  <2>2. Counted = c.live \ News
    BY DEF Counted, News, New
  <2>3. c.size = MapThenSumSet(LAMBDA b : c.bytes[b], Counted)
    <3> DEFINE g == c.bytes
               S == c.live \ News
    <3>1. S \in SUBSET Block /\ \A b \in S : g[b] \in 0 .. Limit
      BY <2>1, BytesRange
    <3>2. c.size = Cardinality(BytesOf(g, S))
      BY <2>1 DEF Keeps
    <3> HIDE DEF g, S
    <3>3. MapThenSumSet(LAMBDA b : g[b], S) = Cardinality(BytesOf(g, S))
      BY <3>1, SumIsCount
    <3> QED
      BY <2>2, <3>2, <3>3, Zenon DEF g, S
  <2>4. ASSUME Quiet
        PROVE  c.items = Cardinality(Cached) /\ RefExact
    <3>1. \A w \in Worker : pc[w] \in {"idle", "reading"} /\ Half(w)
      BY <2>4 DEF Quiet, Sound, Body
    <3>2. \A w \in Worker : Out(w) = {} /\ New(w) = {}
      BY <3>1 DEF Out, New, Half
    <3>3. Owned = Cached /\ News = {}
      BY <3>2 DEF Owned, Outs, News
    <3>4. c.items = Cardinality(Cached)
      <4>1. Owned \ News = Cached
        BY <3>3
      <4> QED
        BY <2>1, <4>1 DEF Keeps, Count
    <3>5. ASSUME NEW b \in c.live
          PROVE  c.ref[b] = Cardinality({w \in Worker : item[w] = b})
                              + (IF b \in Cached THEN 1 ELSE 0)
      <4>1. b # Null
        BY <2>1
      <4>2. {w \in Worker : item[w] = b} = Readers(Reads, b)
        BY <3>1, <4>1 DEF Readers, Reads, Half
      <4>3. Cardinality(Readers(Reads, b)) \in Nat
        BY ReadersCount
      <4>4. c.ref[b] = (IF b \in Cached THEN 1 ELSE 0) + Cardinality(Readers(Reads, b))
        BY <2>1, <3>3 DEF Keeps, Refs
      <4> DEFINE n == Cardinality(Readers(Reads, b))
                 m == IF b \in Cached THEN 1 ELSE 0
      <4>5. c.ref[b] = m + n /\ m \in Nat /\ n \in Nat
        BY <4>3, <4>4
      <4> HIDE DEF n, m
      <4>6. c.ref[b] = n + m
        BY <4>5
      <4> QED
        BY <4>2, <4>6 DEF n, m
    <3> QED
      BY <3>4, <3>5 DEF RefExact
  <2> QED
    BY <2>3, <2>4
<1> QED
  BY <1>1, Invariance, PTL

-------------------------------------------------------------------------------
(***************************************************************************)
(* Going round a list                                                      *)
(***************************************************************************)
LEMMA AllNat ==
  ASSUME NEW T \in SUBSET Nat, 0 \in T, \A n \in T : n + 1 \in T
  PROVE  T = Nat
<1> SUFFICES ASSUME Nat \ T # {}
             PROVE  FALSE
  OBVIOUS
<1>1. PICK n \in Nat \ T : \A m \in Nat \ T : n <= m
  BY Least
<1>2. n # 0 /\ n - 1 \in Nat
  BY <1>1
<1>3. n - 1 \in T
  BY <1>1, <1>2
<1> QED
  BY <1>1, <1>2, <1>3

\* f goes n nodes forward from h along the pointers x.
Walks(f, x, h, n) ==
    f = [i \in 0 .. n |->
           IF i = 0 THEN h ELSE IF f[i - 1] = Null THEN Null ELSE x[f[i - 1]]]

LEMMA RingUnfolded ==
  ASSUME NEW h
  PROVE  LET f == CHOOSE f : Walks(f, c.next, h, Cardinality(Block))
         IN  Ring(h) = {f[i] : i \in DOMAIN f} \ {h}
  BY Zenon DEF Ring, Walks

LEMMA WalkExists ==
  ASSUME NEW x, NEW h, NEW n \in Nat
  PROVE  \E f : Walks(f, x, h, n)
<1> DEFINE T == {m \in Nat : \E f : Walks(f, x, h, m)}
<1>1. 0 \in T
  <2> DEFINE f == [i \in 0 .. 0 |-> h]
  <2>1. f = [i \in 0 .. 0 |->
               IF i = 0 THEN h ELSE IF f[i - 1] = Null THEN Null ELSE x[f[i - 1]]]
    OBVIOUS
  <2> HIDE DEF f
  <2> QED
    BY <2>1 DEF Walks
<1>2. ASSUME NEW m \in T
      PROVE  m + 1 \in T
  <2>1. PICK f : Walks(f, x, h, m)
    OBVIOUS
  <2> DEFINE g == [i \in 0 .. m + 1 |->
                     IF i <= m THEN f[i] ELSE IF f[m] = Null THEN Null ELSE x[f[m]]]
             r(i) == IF i = 0 THEN h ELSE IF g[i - 1] = Null THEN Null ELSE x[g[i - 1]]
  <2>2. \A i \in 0 .. m : f[i] = IF i = 0 THEN h
                                 ELSE IF f[i - 1] = Null THEN Null ELSE x[f[i - 1]]
    BY <2>1 DEF Walks
  <2>3. \A i \in 0 .. m : g[i] = f[i]
    OBVIOUS
  <2>4. g[m + 1] = IF f[m] = Null THEN Null ELSE x[f[m]]
    OBVIOUS
  <2>5. \A i \in 0 .. m + 1 : g[i] = r(i)
    <3> SUFFICES ASSUME NEW i \in 0 .. m + 1
                 PROVE  g[i] = r(i)
      OBVIOUS
    <3> HIDE DEF g
    <3>1. CASE i = m + 1
      <4>1. i # 0 /\ i - 1 = m /\ m \in 0 .. m
        BY <3>1
      <4>2. g[i - 1] = f[m]
        BY <2>3, <4>1
      <4> QED
        BY <2>4, <3>1, <4>1, <4>2
    <3>2. CASE i = 0
      BY <2>2, <2>3, <3>2
    <3>3. CASE i \in 1 .. m
      <4>1. i \in 0 .. m /\ i - 1 \in 0 .. m /\ i # 0
        BY <3>3
      <4> QED
        BY <2>2, <2>3, <4>1
    <3> QED
      BY <3>1, <3>2, <3>3
  <2>6. g = [i \in 0 .. m + 1 |-> g[i]]
    OBVIOUS
  <2> HIDE DEF g
  <2>7. Walks(g, x, h, m + 1)
    BY <2>5, <2>6 DEF Walks
  <2> QED
    BY <2>7
<1> HIDE DEF T
<1>3. T \in SUBSET Nat
  BY DEF T
<1>4. T = Nat
  BY <1>1, <1>2, <1>3, AllNat
<1> QED
  BY <1>4 DEF T

LEMMA FromZero ==
  ASSUME NEW n \in Nat
  PROVE  IsFiniteSet(0 .. n) /\ Cardinality(0 .. n) = n + 1
  BY FS_Interval

\* No pointer leads out of A.
Side(d, A) == \A n \in A : d.next[n] \in A /\ d.prev[n] \in A

\* Going round from a head meets all the items I of its list.  If it missed
\* one, its Cardinality(Block) + 1 stations would be among fewer nodes, so one
\* would come twice, and the first to do so is the head; from there on nothing
\* leads to the items it did not meet, which Headed excludes.
LEMMA Round ==
  ASSUME NEW d \in Cache, NEW S \in SUBSET Block, Doubly(d, S), Headed(d, S),
         NEW h \in Head, NEW I \in SUBSET S, Side(d, I \cup {h}),
         NEW f, Walks(f, d.next, h, Cardinality(Block))
  PROVE  /\ \A i \in DOMAIN f : f[i] \in I \cup {h}
         /\ \A a \in I \cup {h} : \E i \in DOMAIN f : f[i] = a
<1> DEFINE N == Cardinality(Block)
           A == I \cup {h}
<1>1. N \in Nat /\ IsFiniteSet(Block)
  BY FS_CardinalityType
<1>2. DOMAIN f = 0 .. N /\ f[0] = h
  BY <1>1 DEF Walks
<1>3. \A i \in 0 .. N : i # 0 => f[i] = IF f[i - 1] = Null THEN Null ELSE d.next[f[i - 1]]
  BY DEF Walks
<1>4. h \in A /\ Null \notin A /\ h \notin I
  BY DEF Node
<1>5. \A n \in A : d.next[n] \in A /\ d.prev[n] \in A /\ d.prev[d.next[n]] = n /\ d.next[d.prev[n]] = n
  BY DEF Side, Doubly
<1>6. IsFiniteSet(I) /\ Cardinality(I) \in Nat /\ Cardinality(I) <= N
  BY <1>1, FS_Subset, FS_CardinalityType
<1>7. IsFiniteSet(A) /\ Cardinality(A) = Cardinality(I) + 1
  BY <1>4, <1>6, FS_AddElement
<1> HIDE DEF N, A
<1>8. \A i \in 0 .. N : f[i] \in A
  <2> DEFINE Bad == {i \in 0 .. N : f[i] \notin A}
  <2> SUFFICES ASSUME Bad # {}
               PROVE  FALSE
    OBVIOUS
  <2>1. Bad \in SUBSET Nat
    BY <1>1
  <2>2. PICK i \in Bad : \A j \in Bad : i <= j
    BY <2>1, Least
  <2>3. i # 0 /\ i - 1 \in 0 .. N
    BY <1>1, <1>2, <1>4, <2>2
  <2>4. f[i - 1] \in A
    BY <1>1, <2>2, <2>3
  <2> QED
    BY <1>3, <1>4, <1>5, <2>2, <2>3, <2>4
<1>9. \A i \in 0 .. N : i # 0 => f[i] = d.next[f[i - 1]] /\ f[i - 1] = d.prev[f[i]]
  <2> SUFFICES ASSUME NEW i \in 0 .. N, i # 0
               PROVE  f[i] = d.next[f[i - 1]] /\ f[i - 1] = d.prev[f[i]]
    OBVIOUS
  <2>1. i - 1 \in 0 .. N
    BY <1>1
  <2> QED
    BY <1>3, <1>4, <1>5, <1>8, <2>1
<1>10. ASSUME NEW a \in A, \A i \in 0 .. N : f[i] # a
       PROVE  FALSE
  <2>1. IsFiniteSet(A \ {a}) /\ Cardinality(A \ {a}) = Cardinality(A) - 1
    BY <1>7, FS_RemoveElement
  <2>2. IsFiniteSet(0 .. N) /\ Cardinality(0 .. N) = N + 1
    BY <1>1, FromZero
  <2>3. f \in [0 .. N -> A \ {a}]
    <3>1. f = [i \in 0 .. N |-> f[i]]
      BY DEF Walks, N
    <3> QED
      BY <1>8, <1>10, <3>1
  <2>4. Cardinality(A \ {a}) < Cardinality(0 .. N)
    BY <1>1, <1>6, <1>7, <2>1, <2>2
  <2>5. PICK i, j \in 0 .. N : i # j /\ f[i] = f[j]
    <3> DEFINE D == 0 .. N
               B == A \ {a}
    <3>1. /\ IsFiniteSet(D) /\ IsFiniteSet(B) /\ Cardinality(B) < Cardinality(D)
          /\ f \in [D -> B]
      BY <2>1, <2>2, <2>3, <2>4
    <3> HIDE DEF D, B
    <3>2. \E i, j \in D : i # j /\ f[i] = f[j]
      BY <3>1, FS_PigeonHole
    <3> QED
      BY <3>2 DEF D
  <2> DEFINE Back == {k \in 0 .. N : \E m \in 0 .. N : k < m /\ f[k] = f[m]}
  <2>6. Back # {} /\ Back \in SUBSET Nat
    <3>1. i < j \/ j < i
      BY <2>5
    <3> QED
      BY <2>5, <3>1
  <2>7. PICK k \in Back : \A l \in Back : k <= l
    BY <2>6, Least
  <2>8. PICK m \in 0 .. N : k < m /\ f[k] = f[m]
    BY <2>7
  <2>9. k = 0
    <3> SUFFICES ASSUME k # 0
                 PROVE  FALSE
      OBVIOUS
    <3>1. k - 1 \in 0 .. N /\ m - 1 \in 0 .. N /\ k - 1 < m - 1 /\ m # 0
      BY <1>1, <2>7, <2>8
    <3>2. f[k - 1] = f[m - 1]
      BY <1>9, <2>8, <3>1
    <3>3. k - 1 \in Back
      BY <3>1, <3>2
    <3> QED
      BY <2>7, <3>3
  <2>10. f[m] = h /\ m # 0
    BY <1>2, <2>8, <2>9
  <2> HIDE DEF Back
  <2> DEFINE R == {f[l] : l \in 0 .. m - 1}
             T == I \ R
  <2>11. h \in R
    BY <1>1, <1>2, <2>8, <2>10
  <2>12. \A n \in R : d.next[n] \in R
    <3> SUFFICES ASSUME NEW l \in 0 .. m - 1
                 PROVE  d.next[f[l]] \in R
      OBVIOUS
    <3>1. l + 1 \in 0 .. N /\ l + 1 # 0 /\ (l + 1) - 1 = l
      BY <1>1, <2>8
    <3>2. d.next[f[l]] = f[l + 1]
      BY <1>9, <3>1
    <3>3. CASE l + 1 = m
      BY <2>10, <2>11, <3>2, <3>3
    <3>4. CASE l + 1 # m
      <4>1. l + 1 \in 0 .. m - 1
        BY <2>8, <3>4
      <4> QED
        BY <3>2, <4>1
    <3> QED
      BY <3>3, <3>4
  <2>13. T = {}
    <3> SUFFICES ASSUME T # {}
                 PROVE  FALSE
      OBVIOUS
    <3> HIDE DEF R
    <3>1. T \in SUBSET S
      OBVIOUS
    <3>2. PICK n \in T : d.prev[n] \notin T
      BY <3>1 DEF Headed
    <3>3. n \in A
      BY DEF A
    <3>4. d.prev[n] \in A /\ d.next[d.prev[n]] = n
      BY <1>5, <3>3
    <3>5. d.prev[n] \in R
      BY <2>11, <3>2, <3>4 DEF A
    <3>6. n \in R
      BY <2>12, <3>4, <3>5
    <3> QED
      BY <3>6
  <2>14. a \notin R
    <3> SUFFICES ASSUME NEW l \in 0 .. m - 1
                 PROVE  f[l] # a
      OBVIOUS
    <3>1. l \in 0 .. N
      BY <1>1, <2>8
    <3> QED
      BY <1>10, <3>1
  <2> QED
    BY <2>11, <2>13, <2>14 DEF A
<1> QED
  BY <1>2, <1>8, <1>10 DEF A

\* Between operations the hash table and the lists show the same items, each
\* on one list: going round the lists from their heads meets the items of the
\* table, which are under their own keys, and the walk can be retraced.
THEOREM TableAndLists == ApartSpec => []TableMatchesLists
<1>1. Sound => TableMatchesLists
  <2> SUFFICES ASSUME Sound, Quiet
               PROVE  /\ Ring(Younger) \cap Ring(Older) = {}
                      /\ Ring(Younger) \cup Ring(Older) = Cached
                      /\ \A k \in Key : table[k] # Null => c.key[table[k]] = k
                      /\ \A n \in Cached \cup Head : c.prev[c.next[n]] = n
    BY DEF TableMatchesLists
  <2> DEFINE S == Cached
  <2>1. Running
    BY DEF Sound
  <2>2. Tabled /\ c \in Cache /\ S \in SUBSET Block
    BY <2>1, Facts
  <2>3. Offs = {} /\ Outs = {}
    <3>1. \A w \in Worker : pc[w] \in {"idle", "reading"} /\ Half(w)
      BY <2>1 DEF Quiet, Sound, Body
    <3>2. \A w \in Worker : Off(w) = {} /\ Out(w) = {}
      BY <3>1 DEF Off, Out, Half
    <3> QED
      BY <3>2 DEF Offs, Outs
  <2>4. Listed(c, S)
    <3>1. Owned \ Offs = S
      BY <2>3 DEF Owned
    <3> QED
      BY <2>1, <3>1, Facts DEF Keeps
  <2> HIDE DEF S
  <2>5. PICK Y \in SUBSET S :
          \A n \in S \cup Head : (n \in Y \cup {Younger}) <=> (c.next[n] \in Y \cup {Younger})
    BY <2>4 DEF Listed, Sided
  <2> DEFINE X == S \ Y
  <2>6. Younger \in Head /\ Older \in Head /\ Head = {Younger, Older} /\ Younger # Older
        /\ S \cap Head = {}
    BY <2>2, Heads DEF Head
  <2>7. \A n \in S \cup Head :
          /\ c.next[n] \in S \cup Head /\ c.prev[n] \in S \cup Head
          /\ c.prev[c.next[n]] = n /\ c.next[c.prev[n]] = n
    BY <2>4 DEF Listed, Doubly
  <2>8. \A n \in S \cup Head : (n \in Y \cup {Younger}) <=> (c.prev[n] \in Y \cup {Younger})
    BY <2>5, <2>7
  <2>9. Side(c, Y \cup {Younger}) /\ Side(c, X \cup {Older})
    BY <2>5, <2>6, <2>7, <2>8 DEF Side
  <2>10. ASSUME NEW h \in Head, NEW I \in SUBSET S, Side(c, I \cup {h})
         PROVE  Ring(h) = I
    <3> DEFINE N == Cardinality(Block)
               f == CHOOSE f : Walks(f, c.next, h, N)
    <3>1. N \in Nat
      BY FS_CardinalityType
    <3>2. Walks(f, c.next, h, N)
      <4> HIDE DEF N
      <4> QED
        BY <3>1, WalkExists
    <3>3. Ring(h) = {f[i] : i \in DOMAIN f} \ {h}
      BY RingUnfolded
    <3> HIDE DEF f
    <3>4. {f[i] : i \in DOMAIN f} = I \cup {h}
      <4>1. Doubly(c, S) /\ Headed(c, S) /\ c \in Cache /\ S \in SUBSET Block
        BY <2>2, <2>4 DEF Listed
      <4>2. Walks(f, c.next, h, Cardinality(Block))
        BY <3>2
      <4>3. /\ \A i \in DOMAIN f : f[i] \in I \cup {h}
            /\ \A a \in I \cup {h} : \E i \in DOMAIN f : f[i] = a
        BY <2>10, <4>1, <4>2, Round
      <4> QED
        BY <4>3
    <3> QED
      BY <2>6, <2>10, <3>3, <3>4
  <2>11. Ring(Younger) = Y
    BY <2>6, <2>9, <2>10
  <2>12. Ring(Older) = X
    <3>1. X \in SUBSET S
      OBVIOUS
    <3> HIDE DEF X
    <3> QED
      BY <2>6, <2>9, <2>10, <3>1
  <2>13. \A k \in Key : table[k] # Null => c.key[table[k]] = k
    BY <2>2 DEF Tabled
  <2> QED
    BY <2>4, <2>7, <2>11, <2>12, <2>13 DEF S
<1> QED
  BY <1>1, Invariance, PTL


===============================================================================
