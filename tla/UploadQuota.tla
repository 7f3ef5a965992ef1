----------------------------- MODULE UploadQuota ------------------------------
(***************************************************************************)
(* A user's uploads, in the calls rpc/meta_rpc.h asks for: is there room   *)
(* (check_upload), then, when the file is stored, a report of its size     *)
(* (update_upload_info), a line for the log (add_file_log) and a date on   *)
(* which it expires (add_life_cycle); and the flag by which uploads are    *)
(* forbidden (set_user_flag).                                              *)
(*                                                                         *)
(* Each of the handlers in cell/cell.c runs one statement of db_helper.c.  *)
(* A call may be under way when its client has stopped waiting: it is      *)
(* executed later or fails, and the client, who does not know, repeats it  *)
(* or goes on.  Storing the file is external, and so is whoever resets     *)
(* used_day: nothing in the program does.                                  *)
(***************************************************************************)
EXTENDS Integers, FiniteSets

CONSTANTS
    Client,      \* who uploads files of the user; each has one upload under way
    Sizes,       \* sizes of files, as the 32 bits of a message hold them
    MaxSize,     \* the largest of them
    Half,        \* 2^31: from here on %d prints a negative number
    TotalSize,   \* total_size
    SizeDay,     \* size_day
    Hash(_),     \* murMurHash of the url of an upload
    Days,        \* days until a file may expire
    MaxUploads,  \* bound on the number of uploads
    MaxTries,    \* bound: how often one call is sent
    MaxTime      \* bound on the clock

ASSUME SizeAssumption ==
    /\ MaxSize \in Nat /\ Half \in Nat /\ MaxSize < 2 * Half
    /\ Sizes \subseteq 0 .. MaxSize
    /\ TotalSize \in Nat /\ SizeDay \in Nat
ASSUME ClientAssumption == IsFiniteSet(Client) /\ Client # {}
ASSUME UploadBoundAssumption ==
    MaxUploads \in Nat /\ MaxTries \in Nat \ {0} /\ MaxTime \in Nat /\ Days \subseteq Nat
ASSUME HashAssumption == \A u \in 1 .. MaxUploads : Hash(u) \in Nat

VARIABLES
    known,     \* there is a row for the user in dfs_user
    used_size, \* its columns; used_day is changed with used_size
    flag,
    log,       \* dfs_log_table: how many lines each upload has
    life,      \* dfs_lifecycle: what expires under each key
    now,       \* the clock, in what a key can tell apart
    uploads,   \* how many uploads were allowed
    stage,     \* what each client does: "idle", "store" or the call it makes
    file,      \* its upload: number, size and days to live
    sent,      \* how many sendings of its call are under way
    tries,     \* how often it has sent its call
    hits,      \* how often its call was executed
    stored,    \* history: the bytes of all files stored
    again,     \* history: the bytes executed reports repeated
    told,      \* history: the bytes whose report was acknowledged
    acked      \* history: what the clients were told is done

row == <<known, used_size, flag>>
tables == <<row, log, life>>
calls == <<stage, file, sent, tries, hits>>
history == <<stored, again, told, acked>>
vars == <<tables, now, uploads, calls, history>>

Calls == {"report", "log", "life"}
Upload == 1 .. MaxUploads

NoFile == [num |-> 0, size |-> 0, days |-> 0]
\* A slip: the key is the date alone.
LifeKeyOfDay(f) == [due |-> now + f.days + 2, hash |-> 0]
\* create_life_key: the second in which the days (and two more) are over, and
\* the hash of the url.
LifeKey(f) == [due |-> now + f.days + 2, hash |-> Hash(f.num)]

Init ==
    /\ known \in BOOLEAN /\ used_size = 0 /\ flag = 0
    /\ log = [u \in Upload |-> 0]
    /\ life = {}
    /\ now = 0 /\ uploads = 0
    /\ stage = [c \in Client |-> "idle"]
    /\ file = [c \in Client |-> NoFile]
    /\ sent = [c \in Client |-> 0]
    /\ tries = [c \in Client |-> 0]
    /\ hits = [c \in Client |-> 0]
    /\ stored = 0 /\ again = 0 /\ told = 0
    /\ acked = [k \in Calls |-> {}]

-----------------------------------------------------------------------------
(* The handlers *)

\* A slip: the size of the file is left out of the comparison.
AllowedByUsed(n) == known /\ flag # 1 /\ used_size < TotalSize /\ used_size < SizeDay

\* check_upload: NET_SUCC, against 8 for a lack of space and 9 for a user that
\* is not known or blocked.
Allowed(n) ==
    /\ known
    /\ used_size + n < TotalSize /\ SizeDay > used_size + n
    /\ flag # 1

\* The size is a uint32_t in the message and %d in the statement.
Printed(n) == IF n < Half THEN n ELSE n - 2 * Half

\* A slip: the size replaces the sum.
AddUsedForgetful(n) == used_size' = IF known THEN Printed(n) ELSE used_size

\* update_dfs_user_info; a statement that finds no row succeeds.
AddUsed(n) == used_size' = IF known THEN used_size + Printed(n) ELSE used_size

\* replace_kv on dfs_lifecycle.
Replace(table, key, u) == {e \in table : e.key # key} \cup {[key |-> key, url |-> u]}

\* add_file_log
AddLine(f) == log' = [log EXCEPT ![f.num] = @ + 1]

\* add_life_cycle
AddLife(f) == life' = Replace(life, LifeKey(f), f.num)

\* The handler of a call (update_upload_info, for a report) runs its statement.
Statement(call, f) ==
    \/ call = "report" /\ AddUsed(f.size) /\ UNCHANGED <<log, life>>
    \/ call = "log" /\ AddLine(f) /\ UNCHANGED <<used_size, life>>
    \/ call = "life" /\ AddLife(f) /\ UNCHANGED <<used_size, log>>

\* set_user_flag
SetFlag ==
    /\ \E f \in {0, 1} : flag' = f
    /\ UNCHANGED <<known, used_size, log, life, now, uploads, calls, history>>

Tick ==
    /\ now < MaxTime /\ now' = now + 1
    /\ UNCHANGED <<tables, uploads, calls, history>>

-----------------------------------------------------------------------------
(* The clients *)

Goto(c, s) ==
    /\ stage' = [stage EXCEPT ![c] = s]
    /\ sent' = [sent EXCEPT ![c] = IF s \in Calls THEN 1 ELSE 0]
    /\ tries' = [tries EXCEPT ![c] = IF s \in Calls THEN 1 ELSE 0]
    /\ hits' = [hits EXCEPT ![c] = 0]

Ends(c) == Goto(c, "idle") /\ file' = [file EXCEPT ![c] = NoFile]

\* rpc_is_upload_file says yes.  An answer that is lost is taken for a no.
Check(c) ==
    /\ stage[c] = "idle" /\ uploads < MaxUploads
    /\ \E n \in Sizes, d \in Days :
          /\ Allowed(n)
          /\ file' = [file EXCEPT ![c] = [num |-> uploads + 1, size |-> n, days |-> d]]
    /\ uploads' = uploads + 1
    /\ Goto(c, "store")
    /\ UNCHANGED <<tables, now, history>>

\* The file cannot be stored; nothing is reported.
Fails(c) ==
    /\ stage[c] = "store"
    /\ Ends(c)
    /\ UNCHANGED <<tables, now, uploads, history>>

\* The file is stored and reported.
Stores(c) ==
    /\ stage[c] = "store"
    /\ stored' = stored + file[c].size
    /\ Goto(c, "report")
    /\ UNCHANGED <<tables, now, uploads, file, again, told, acked>>

Told(c) == file[c].num \in acked[stage[c]]

\* A sending of the call reaches the handler and the statement is executed; the
\* client is told, or the answer comes too late or not at all.
Execute(c) ==
    /\ sent[c] > 0
    /\ sent' = [sent EXCEPT ![c] = @ - 1]
    /\ hits' = [hits EXCEPT ![c] = @ + 1]
    /\ Statement(stage[c], file[c])
    /\ again' = IF stage[c] = "report" /\ hits[c] > 0 THEN again + file[c].size ELSE again
    /\ \/ /\ acked' = [acked EXCEPT ![stage[c]] = @ \cup {file[c].num}]
          /\ told' = IF stage[c] = "report" /\ ~Told(c) THEN told + file[c].size ELSE told
       \/ UNCHANGED <<acked, told>>
    /\ UNCHANGED <<known, flag, now, uploads, stage, file, tries, stored>>

\* A sending is lost, or its statement is not executed.
Lost(c) ==
    /\ sent[c] > 0
    /\ sent' = [sent EXCEPT ![c] = @ - 1]
    /\ UNCHANGED <<tables, now, uploads, stage, file, tries, hits, history>>

\* The client, who was told nothing good, calls once more.
Retry(c) ==
    /\ stage[c] \in Calls /\ ~Told(c)
    /\ tries[c] < MaxTries
    /\ tries' = [tries EXCEPT ![c] = @ + 1]
    /\ sent' = [sent EXCEPT ![c] = @ + 1]
    /\ UNCHANGED <<tables, now, uploads, stage, file, hits, history>>

After == [report |-> "log", log |-> "life"]

\* The client goes on, told or not.  (A new upload while a call of this one is
\* under way is an upload of another client.)
GoesOn(c) ==
    /\ stage[c] \in Calls /\ sent[c] = 0
    /\ IF stage[c] = "life" THEN Ends(c)
       ELSE Goto(c, After[stage[c]]) /\ UNCHANGED file
    /\ UNCHANGED <<tables, now, uploads, history>>

Next ==
    \/ SetFlag \/ Tick
    \/ \E c \in Client :
          Check(c) \/ Fails(c) \/ Stores(c) \/ Execute(c) \/ Lost(c) \/ Retry(c) \/ GoesOn(c)

Spec == Init /\ [][Next]_vars

-----------------------------------------------------------------------------
(* Properties *)

UploadRecord == [num : 0 .. MaxUploads, size : 0 .. MaxSize, days : Nat]
LifeEntry == [key : [due : Nat, hash : Nat], url : Upload]

TypeOK ==
    /\ known \in BOOLEAN /\ used_size \in Int /\ flag \in {0, 1}
    /\ log \in [Upload -> Nat]
    /\ life \subseteq LifeEntry
    /\ now \in Nat /\ uploads \in 0 .. MaxUploads
    /\ stage \in [Client -> Calls \cup {"idle", "store"}]
    /\ file \in [Client -> UploadRecord]
    /\ \A c \in Client : stage[c] # "idle" => file[c].num # 0
    /\ sent \in [Client -> Nat] /\ tries \in [Client -> Nat] /\ hits \in [Client -> Nat]
    /\ stored \in Nat /\ again \in Nat /\ told \in Nat
    /\ acked \in [Calls -> SUBSET Upload]

\* Whatever is lost, late or repeated, the space a user is charged with covers
\* every file whose report was acknowledged, and nothing but files that were
\* stored and reports that were executed twice (update_upload_info adds without
\* knowing which file it is told of).
Accounted == known => told <= used_size /\ used_size <= stored + again

\* Checks and reports of several clients interleave, so a quota is exceeded;
\* but never by more than a file for each client but one, and what was reported
\* twice (check_upload, update_upload_info).
Overshoot ==
    \A quota \in {TotalSize, SizeDay} :
        used_size <= quota + MaxSize * (Cardinality(Client) - 1) + again

\* A log line and an expiry record that were acknowledged are in their tables:
\* no call for another file takes their place (add_file_log, add_life_cycle).
AckedKept ==
    /\ \A u \in acked["log"] : log[u] > 0
    /\ \A u \in acked["life"] : \E e \in life : e.url = u

\* Clients whose upload was allowed and whose report was not executed yet.
Pending == {c \in Client : stage[c] = "store" \/ (stage[c] = "report" /\ hits[c] = 0)}

\* What is still to be added when all but c report the largest file.
Owed(c) == (IF c \in Pending THEN file[c].size ELSE 0) + MaxSize * Cardinality(Pending \ {c})

\* The strengthening of Overshoot: at the last check, the file of the client that
\* was allowed still fitted in.
OvershootInv ==
    \A quota \in {TotalSize, SizeDay} : \E c \in Client :
        used_size + Owed(c) <= quota + MaxSize * (Cardinality(Client) - 1) + again

\* The strengthening of AckedKept: a record's key is that of its file.
KeyInv == \A e \in life : e.key.hash = Hash(e.url)

=============================================================================
