----------------------------- MODULE MetaService ------------------------------
(***************************************************************************)
(* The request handlers for file metadata in cell/cell.c, between the LRU  *)
(* cache, the master database and the slave that answers queries.          *)
(*                                                                         *)
(* Each call into the cache or the database is a step, so the handlers of  *)
(* several worker threads interleave at those calls.  The cache is the map *)
(* LruCache implements when it is used by one thread at a time; weeding    *)
(* out may drop any entry at any moment.  A database statement takes       *)
(* effect at once on the master and reaches the slave through the ordered  *)
(* replication log `relay'; with Faults, a statement may fail before or    *)
(* after it took effect (db_helper.c reports both as -1).                  *)
(*                                                                         *)
(* Left out: the uploader field (copied as it is), the object pools        *)
(* running out of memory, and the refusal of a helper (DbPool shows that   *)
(* it does not happen).                                                    *)
(***************************************************************************)
EXTENDS Naturals, Sequences

CONSTANTS Worker,     \* the threads of the event loop
          Key,        \* the values of meta_key in the table
          OldKey,     \* OldKey[<<k, n>>]: the key "k.n" replace_meta builds
          Request,    \* the requests clients send
          Absent,     \* no such row, no such entry
          Faults,     \* whether database calls may fail
          MaxLag      \* how far the slave may be behind (0: synchronous)

Op == {"add", "get", "update", "replace", "delete", "clean"}

\* file metadata; a password is the sequence of its characters
Metas == [url : {r.meta.url : r \in Request},
          pwd : Seq(STRING),
          crypt : {""} \cup {r.meta.crypt : r \in Request},
          opened : Nat]

Results == {"SUCC", "KEY_NOT_EXIST", "INSERT_FAILED", "UPDATE_KV_ERROR",
            "DELETE_KV_ERROR"}

Answers == [result : Results, meta : Metas \cup {Absent}]

\* the key under which a replace with a version keeps what it replaces
Versioned(r) == OldKey[<<r.path, r.ver>>]

ASSUME MetaAssumption ==
          /\ Faults \in BOOLEAN
          /\ MaxLag \in Nat
          /\ \A r \in Request :
                /\ r.op \in Op
                /\ r.path \in Key
                /\ r.meta \in Metas
                /\ r.set \subseteq {"pwd", "crypt", "opened"}
                /\ r.ver \in Nat
                /\ r.ver > 0 => /\ <<r.path, r.ver>> \in DOMAIN OldKey
                                /\ Versioned(r) \in Key /\ Versioned(r) # r.path

ASSUME AbsentAssumption ==
          Absent \notin Metas /\ Absent \notin Request /\ Absent \notin Answers

VARIABLES master,     \* master[k]: the row of k in the master database
          slave,      \* slave[k]: the row of k in the slave database
          relay,      \* the changes on their way to the slave
          cache,      \* cache[k]: the entry of k in the LRU cache
          pc,         \* pc[w]: the next call of worker w
          req,        \* req[w]: the request w serves, or Absent
          seen,       \* seen[w]: what get_db_meta returned to w
          answer      \* answer[w]: what w is about to send, or Absent

vars == <<master, slave, relay, cache, pc, req, seen, answer>>
db == <<master, slave, relay>>

Init == /\ master = [k \in Key |-> Absent]
        /\ slave = [k \in Key |-> Absent]
        /\ relay = <<>>
        /\ cache = [k \in Key |-> Absent]
        /\ pc = [w \in Worker |-> "idle"]
        /\ req = [w \in Worker |-> Absent]
        /\ seen = [w \in Worker |-> Absent]
        /\ answer = [w \in Worker |-> Absent]

Goto(w, label) == pc' = [pc EXCEPT ![w] = label]

Answer(result, meta) == [result |-> result, meta |-> meta]

\* the handler has its answer; hander_send is the next step
Finish(w, result, meta) == /\ answer' = [answer EXCEPT ![w] = Answer(result, meta)]
                           /\ Goto(w, "send")

Path(w) == req[w].path

-------------------------------------------------------------------------------
(***************************************************************************)
(* The metadata a handler writes.                                          *)
(***************************************************************************)
\* replace_meta without an old row
Default(r) == [url |-> r.meta.url, pwd |-> <<>>, crypt |-> "", opened |-> 1]

\* the C string left of s when n of its bytes are kept
Cut(s, n) == SubSeq(s, 1, IF n < Len(s) THEN n ELSE Len(s))

\* update_meta: the new fields are set in m, but the value written to the
\* database takes the lengths of pwd and crpyt_key from the request, in which
\* a field that is not set is empty
Updated(m, r) ==
    LET pwd   == IF "pwd" \in r.set THEN r.meta.pwd ELSE m.pwd
        given == IF "pwd" \in r.set THEN Len(r.meta.pwd) ELSE 0
    IN  [url    |-> m.url,
         pwd    |-> Cut(pwd, given + 1),
         crypt  |-> IF "crypt" \in r.set THEN r.meta.crypt ELSE "",
         opened |-> IF "opened" \in r.set THEN r.meta.opened ELSE m.opened]

New(w) == LET r == req[w]
          IN  CASE r.op = "add" -> r.meta
                [] r.op = "update" -> Updated(seen[w], r)
                [] r.op = "replace" ->
                     IF seen[w] = Absent THEN Default(r)
                     ELSE [seen[w] EXCEPT !.url = r.meta.url]

-------------------------------------------------------------------------------
(***************************************************************************)
(* The database.                                                           *)
(***************************************************************************)
Commit(k, m) ==
    /\ master' = [master EXCEPT ![k] = m]
    /\ IF MaxLag = 0
       THEN slave' = [slave EXCEPT ![k] = m] /\ UNCHANGED relay
       ELSE /\ Len(relay) < MaxLag
            /\ relay' = Append(relay, <<k, m>>)
            /\ UNCHANGED slave

\* replication applies the changes of the master in their order
Replicate == /\ relay # <<>>
             /\ slave' = [slave EXCEPT ![Head(relay)[1]] = Head(relay)[2]]
             /\ relay' = Tail(relay)
             /\ UNCHANGED <<master, cache, pc, req, seen, answer>>

\* A statement that sets the row of k to m: `hits' says whether it matches a
\* row (an update of no row succeeds), Done and Failed what follows.
Statement(k, m, hits, Done, Failed) ==
    \/ Done /\ IF hits THEN Commit(k, m) ELSE UNCHANGED db
    \/ Faults /\ Failed /\ UNCHANGED db
    \/ Faults /\ Failed /\ hits /\ Commit(k, m)

-------------------------------------------------------------------------------
(***************************************************************************)
(* The cache.                                                              *)
(***************************************************************************)
Cached(k, m) == cache' = [cache EXCEPT ![k] = m]

WeedOut(k) == /\ cache[k] # Absent
              /\ Cached(k, Absent)
              /\ UNCHANGED <<db, pc, req, seen, answer>>

-------------------------------------------------------------------------------
(***************************************************************************)
(* The handlers.                                                           *)
(***************************************************************************)
First(op) == CASE op = "add" -> "insert"
               [] op = "get" -> "look"
               [] op \in {"update", "replace"} -> "read"
               [] op = "delete" -> "erase"
               [] op = "clean" -> "clean"

\* process: the request is decoded and its handler called
Receive(w) == /\ pc[w] = "idle"
              /\ \E r \in Request : /\ req' = [req EXCEPT ![w] = r]
                                    /\ Goto(w, First(r.op))
              /\ UNCHANGED <<db, cache, seen, answer>>

Send(w) == /\ pc[w] = "send"
           /\ Goto(w, "idle")
           /\ req' = [req EXCEPT ![w] = Absent]
           /\ seen' = [seen EXCEPT ![w] = Absent]
           /\ answer' = [answer EXCEPT ![w] = Absent]
           /\ UNCHANGED <<db, cache>>

\* get_db_meta with cache_flag, from get_meta
Look(w) == /\ pc[w] = "look"
           /\ IF cache[Path(w)] = Absent
              THEN Goto(w, "query") /\ UNCHANGED answer
              ELSE Finish(w, "SUCC", cache[Path(w)])
           /\ UNCHANGED <<db, cache, req, seen>>

Query(w) == /\ pc[w] = "query"
            /\ \/ /\ slave[Path(w)] # Absent
                  /\ seen' = [seen EXCEPT ![w] = slave[Path(w)]]
                  /\ Goto(w, "fill")
                  /\ UNCHANGED answer
               \/ /\ slave[Path(w)] = Absent \/ Faults
                  /\ Finish(w, "KEY_NOT_EXIST", Absent)
                  /\ UNCHANGED seen
            /\ UNCHANGED <<db, cache, req>>

\* get_db_meta without cache_flag, from update_meta and replace_meta; a row
\* that could not be read counts as missing
Missing(w) == /\ Goto(w, IF req[w].op = "update" THEN "forget" ELSE "insert")
              /\ UNCHANGED seen

Read(w) == /\ pc[w] = "read"
           /\ \/ /\ master[Path(w)] # Absent
                 /\ seen' = [seen EXCEPT ![w] = master[Path(w)]]
                 /\ Goto(w, "fill")
              \/ /\ master[Path(w)] = Absent \/ Faults
                 /\ Missing(w)
           /\ UNCHANGED <<db, cache, req, answer>>

\* get_db_meta puts what it read from a database in the cache
Fill(w) == /\ pc[w] = "fill"
           /\ Cached(Path(w), seen[w])
           /\ IF req[w].op = "get"
              THEN Finish(w, "SUCC", seen[w])
              ELSE Goto(w, "write") /\ UNCHANGED answer
           /\ UNCHANGED <<db, req, seen>>

\* a slip: the row is read again instead of answering that there is none
ForgetAndRetry(w) == /\ pc[w] = "forget"
                     /\ Cached(Path(w), Absent)
                     /\ Goto(w, "read")
                     /\ UNCHANGED <<db, req, seen, answer>>

\* update_meta of a row that is not in the database
Forget(w) == /\ pc[w] = "forget"
             /\ Cached(Path(w), Absent)
             /\ Finish(w, "KEY_NOT_EXIST", Absent)
             /\ UNCHANGED <<db, req, seen>>

\* a slip: the result of insert_kv is not looked at
InsertUnchecked(w) ==
    /\ pc[w] = "insert"
    /\ LET Done == Goto(w, "cache") /\ UNCHANGED answer
       IN  IF master[Path(w)] # Absent
           THEN Done /\ UNCHANGED db
           ELSE Statement(Path(w), New(w), TRUE, Done, Done)
    /\ UNCHANGED <<cache, req, seen>>

\* insert_kv, from add_meta and replace_meta; the key is unique
Insert(w) ==
    /\ pc[w] = "insert"
    /\ LET Failed == Finish(w, "INSERT_FAILED", Absent)
       IN  IF master[Path(w)] # Absent
           THEN Failed /\ UNCHANGED db
           ELSE Statement(Path(w), New(w), TRUE,
                          Goto(w, "cache") /\ UNCHANGED answer, Failed)
    /\ UNCHANGED <<cache, req, seen>>

\* update_kv, from update_meta and replace_meta
Write(w) ==
    /\ pc[w] = "write"
    /\ Statement(Path(w), New(w), master[Path(w)] # Absent,
                 Goto(w, "cache") /\ UNCHANGED answer,
                 Finish(w, "UPDATE_KV_ERROR", Absent))
    /\ UNCHANGED <<cache, req, seen>>

SavesOld(w) == /\ req[w].op = "replace"
               /\ seen[w] # Absent
               /\ req[w].ver > 0

\* a slip: the value read before the update goes back into the cache
CacheSeen(w) ==
    /\ pc[w] = "cache"
    /\ Cached(Path(w), seen[w])
    /\ Finish(w, "SUCC", Absent)
    /\ UNCHANGED <<db, req, seen>>

\* insert_cache after a successful insert_kv or update_kv
CacheNew(w) ==
    /\ pc[w] = "cache"
    /\ Cached(Path(w), New(w))
    /\ IF SavesOld(w)
       THEN Goto(w, "save") /\ UNCHANGED answer
       ELSE Finish(w, "SUCC", Absent)
    /\ UNCHANGED <<db, req, seen>>

\* a slip: the new metadata is saved under the versioned key
SaveNew(w) ==
    /\ pc[w] = "save"
    /\ LET Done == Finish(w, "SUCC", Absent)
       IN  Statement(Versioned(req[w]), New(w), TRUE, Done, Done)
    /\ UNCHANGED <<cache, req, seen>>

\* replace_kv of the replaced metadata; its failure is only logged
SaveOld(w) ==
    /\ pc[w] = "save"
    /\ LET Done == Finish(w, "SUCC", Absent)
       IN  Statement(Versioned(req[w]), seen[w], TRUE, Done, Done)
    /\ UNCHANGED <<cache, req, seen>>

\* del_meta: first the cache, then the database
Erase(w) == /\ pc[w] = "erase"
            /\ Cached(Path(w), Absent)
            /\ Goto(w, "delete")
            /\ UNCHANGED <<db, req, seen, answer>>

Delete(w) == /\ pc[w] = "delete"
             /\ Statement(Path(w), Absent, master[Path(w)] # Absent,
                          Finish(w, "SUCC", Absent),
                          Finish(w, "DELETE_KV_ERROR", Absent))
             /\ UNCHANGED <<cache, req, seen>>

\* CLEAN_CACHE
Clean(w) == /\ pc[w] = "clean"
            /\ Cached(Path(w), Absent)
            /\ Finish(w, "SUCC", Absent)
            /\ UNCHANGED <<db, req, seen>>

Step(w) == \/ Look(w) \/ Query(w) \/ Read(w) \/ Fill(w) \/ Forget(w)
           \/ Insert(w) \/ Write(w) \/ CacheNew(w) \/ SaveOld(w)
           \/ Erase(w) \/ Delete(w) \/ Clean(w) \/ Send(w)

Next == \/ \E w \in Worker : Receive(w) \/ Step(w)
        \/ Replicate
        \/ \E k \in Key : WeedOut(k)

Spec == Init /\ [][Next]_vars

(***************************************************************************)
(* When the cache and the database can be told apart.  Requests may        *)
(* overlap, the slave may be behind, statements may fail and the cache may *)
(* drop any entry.  Four events do harm, and cell.c makes none of them     *)
(* impossible; with any one of them allowed TLC finds CacheCoherent or     *)
(* Implements violated:                                                    *)
(*   - a request overlaps one that changes a row it uses                   *)
(*     (meta_get_delete.cfg, meta_lost_update.cfg);                        *)
(*   - the slave answers a query from a row it has not caught up with;     *)
(*   - an update of a row takes effect and is reported as failed;          *)
(*   - the old version is saved under a key that is cached, or not saved   *)
(*     (meta_stale_version.cfg, meta_lost_version.cfg).                    *)
(* Orderly says of a step that it is none of these.                        *)
(***************************************************************************)
Uses(r) == {r.path} \cup (IF r.ver > 0 THEN {Versioned(r)} ELSE {})
Changes(r) == IF r.op \in {"get", "clean"} THEN {} ELSE Uses(r)

Busy == {w \in Worker : req[w] # Absent}

Apart == \A v, w \in Busy : v # w => Changes(req[v]) \cap Uses(req[w]) = {}

Leaves(w, label) == pc[w] = label /\ pc'[w] # label

Orderly ==
    /\ Apart'
    /\ \A w \in Worker :
          /\ Leaves(w, "query") => slave[Path(w)] = master[Path(w)]
          /\ Leaves(w, "write") /\ pc'[w] = "send" => UNCHANGED master
          /\ Leaves(w, "save") =>
                LET k == Versioned(req[w])
                IN  cache[k] = Absent /\ (master[k] = seen[w] \/ master' # master)

OrderlySpec == Init /\ [][Next /\ Orderly]_vars

(***************************************************************************)
(* Threads run and the slave follows the master: replication is never      *)
(* stopped for good, a worker never stops inside a handler.                *)
(***************************************************************************)
FairSpec == Spec /\ WF_vars(Replicate) /\ \A w \in Worker : WF_vars(Step(w))

-------------------------------------------------------------------------------
Label == {"idle", "look", "query", "read", "fill", "forget", "insert", "write",
          "cache", "save", "erase", "delete", "clean", "send"}

Rows == Metas \cup {Absent}

TypeOK == /\ master \in [Key -> Rows]
          /\ slave \in [Key -> Rows]
          /\ cache \in [Key -> Rows]
          /\ relay \in Seq(Key \X Rows)
          /\ pc \in [Worker -> Label]
          /\ req \in [Worker -> Request \cup {Absent}]
          /\ seen \in [Worker -> Rows]
          /\ answer \in [Worker -> Answers \cup {Absent}]

\* Nothing is on its way: no request, no change the slave has not seen.
Quiet == relay = <<>> /\ \A w \in Worker : pc[w] = "idle"

\* the files that are only ever added
WrittenOnce == {k \in Key : \A r \in Request :
                  /\ r.op \in {"update", "replace", "delete"} => r.path # k
                  /\ r.ver > 0 => Versioned(r) # k}

\* As long as a file is only added, never changed, the cache cannot be wrong
\* about it, whatever interleaving, lost answer or replication delay there is:
\* insert_kv comes before insert_cache, and what a slave knows stays true.
CacheNeverWrong == \A k \in WrittenOnce : cache[k] \in {Absent, master[k]}

\* Of two add requests for one path that overlap, at most one is answered with
\* success when no delete comes between: add_meta relies on the unique key.
Won(w) == /\ req[w] # Absent
          /\ req[w].op = "add"
          /\ \/ pc[w] = "cache"
             \/ pc[w] = "send" /\ answer[w].result = "SUCC"

AddExclusive == \A v, w \in Worker :
                   (v # w /\ Won(v) /\ Won(w) /\ Path(v) \in WrittenOnce)
                      => Path(v) # Path(w)

\* The cache agrees with the database about every row no request is changing,
\* whatever was read from the slave, failed, dropped or answered before
\* (get_db_meta, insert_cache, erase_cache and the order of the calls in each
\* handler).
CacheCoherent ==
    \A k \in Key :
        (\A w \in Busy : k \notin Changes(req[w])) => cache[k] \in {Absent, master[k]}

\* "remove the key from the cache" (cell.c:598 on del_meta; cell.c:465 speaks
\* of the consistency of cache and database): once all requests are answered
\* and the slave has caught up, a file that is not in the database is not
\* served from the cache either.
DeletedIsUncached == Quiet => \A k \in Key : master[k] = Absent => cache[k] = Absent

\* "NULL means: do not set this item" (meta_rpc.h:83, :84): an update leaves
\* the password and the key alone that its request does not set.
UnsetSecretsKept ==
    [][\A w \in Worker :
         LET m == master[Path(w)]
             n == master'[Path(w)]
         IN  (pc[w] = "write" /\ pc'[w] # "write" /\ req[w].op = "update"
                /\ m # Absent)
               => /\ "pwd" \notin req[w].set => n.pwd = m.pwd
                  /\ "crypt" \notin req[w].set => n.crypt = m.crypt]_vars

\* "-1 means: do not set this item" (meta_rpc.h:81): an update leaves `opened'
\* alone when its request does not set it.
UnsetOpenedKept ==
    [][\A w \in Worker :
         LET m == master[Path(w)]
             n == master'[Path(w)]
         IN  (pc[w] = "write" /\ pc'[w] # "write" /\ req[w].op = "update"
                /\ m # Absent /\ "opened" \notin req[w].set)
               => n.opened = m.opened]_vars

\* "keeps the metadata of the original file under the file version"
\* (meta_rpc.h:92): when a replace with a version is answered with success,
\* the metadata it replaced is in the database under the versioned key.
OldVersionKept ==
    \A w \in Worker :
       (pc[w] = "send" /\ answer[w].result = "SUCC" /\ SavesOld(w))
         => master[Versioned(req[w])] = seen[w]

\* "get a file by its version number" (meta_rpc.h:26): what is answered for a
\* key while nobody else is at work is what the database holds for it.
GetIsCurrent ==
    \A w \in Worker :
       (/\ pc[w] = "send" /\ req[w].op = "get" /\ answer[w].result = "SUCC"
        /\ relay = <<>> /\ \A v \in Worker \ {w} : pc[v] = "idle")
         => answer[w].meta = master[Path(w)]

\* Every request is answered: no path through a handler ends without sending.
Answered == \A w \in Worker : pc[w] # "idle" ~> pc[w] = "idle"

-------------------------------------------------------------------------------
(***************************************************************************)
(* The service as its clients see it.  A request takes effect when it is   *)
(* written to the database, a get when its answer is fixed; the version a  *)
(* replace still has to save counts as saved from the moment of its write. *)
(***************************************************************************)
Owing == {w \in Worker : pc[w] \in {"cache", "save"} /\ SavesOld(w)}

Settled ==
    [k \in Key |->
        IF \E w \in Owing : Versioned(req[w]) = k
        THEN seen[CHOOSE w \in Owing : Versioned(req[w]) = k]
        ELSE master[k]]

\* the answer of w, from the moment its effect is in the database
Decided(w) == CASE pc[w] = "send" -> answer[w]
                [] pc[w] \in {"cache", "save"} -> Answer("SUCC", Absent)
                [] pc[w] = "fill" /\ req[w].op = "get" -> Answer("SUCC", seen[w])
                [] OTHER -> Absent

Client == INSTANCE MetaStore WITH
             store <- Settled,
             asked <- req,
             answer <- [w \in Worker |-> Decided(w)]

\* The handlers implement MetaStore, what meta_rpc.h promises.
Implements == Client!Spec
===============================================================================
