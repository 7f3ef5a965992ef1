------------------------------ MODULE MetaStore -------------------------------
(***************************************************************************)
(* What rpc/meta_rpc.h promises of the metadata server: a map from keys to *)
(* file metadata, and requests that act on it at one instant between the   *)
(* moment they are received and the moment they are answered.  There is no *)
(* cache, no replica and no step between reading and writing.  An update   *)
(* may shorten the password and drop the key it does not set: the header   *)
(* promises to keep them, and the code does not (meta_unset_field.cfg).    *)
(*                                                                         *)
(* MetaService is compared with this module by MetaService!Implements.     *)
(***************************************************************************)
EXTENDS Naturals, Sequences

CONSTANTS Worker, Key, Request, OldKey, Absent, Faults

VARIABLES store,      \* store[k]: the metadata of key k, or Absent
          asked,      \* asked[w]: the request worker w serves, or Absent
          answer      \* answer[w]: what w will answer, or Absent

vars == <<store, asked, answer>>

Answer(result, meta) == [result |-> result, meta |-> meta]

\* rpc_replace_meta without an old file adds a default metadata
Default(r) == [url |-> r.meta.url, pwd |-> <<>>, crypt |-> "", opened |-> 1]

\* what the row m may be after an update: the items that are set are as set
Updates(m, r) ==
    [url    : {m.url},
     pwd    : IF "pwd" \in r.set THEN {r.meta.pwd}
              ELSE {SubSeq(m.pwd, 1, n) : n \in 0 .. Len(m.pwd)},
     crypt  : IF "crypt" \in r.set THEN {r.meta.crypt} ELSE {m.crypt, ""},
     opened : {IF "opened" \in r.set THEN r.meta.opened ELSE m.opened}]

Init == /\ store = [k \in Key |-> Absent]
        /\ asked = [w \in Worker |-> Absent]
        /\ answer = [w \in Worker |-> Absent]

Receive(w) == /\ asked[w] = Absent
              /\ \E r \in Request : asked' = [asked EXCEPT ![w] = r]
              /\ UNCHANGED <<store, answer>>

Put(k, m) == store' = [store EXCEPT ![k] = m]

\* replace keeps the metadata it replaces under the key of the version
Replace(r) ==
    IF store[r.path] = Absent THEN Put(r.path, Default(r))
    ELSE LET s == IF r.ver > 0
                  THEN [store EXCEPT ![OldKey[<<r.path, r.ver>>]] = store[r.path]]
                  ELSE store
         IN  store' = [s EXCEPT ![r.path] = [store[r.path] EXCEPT !.url = r.meta.url]]

\* what a request does to the store when it succeeds
Change(r) ==
    \/ r.op = "add" /\ store[r.path] = Absent /\ Put(r.path, r.meta)
    \/ /\ r.op = "update" /\ store[r.path] # Absent
       /\ \E m \in Updates(store[r.path], r) : Put(r.path, m)
    \/ r.op = "replace" /\ Replace(r)
    \/ r.op = "delete" /\ Put(r.path, Absent)

Reply(w, result, meta) ==
    /\ asked[w] # Absent /\ answer[w] = Absent
    /\ answer' = [answer EXCEPT ![w] = Answer(result, meta)]
    /\ UNCHANGED asked

Do(w) ==
    \/ Reply(w, "SUCC", Absent) /\ Change(asked[w])
    \/ /\ Reply(w, "SUCC", Absent) /\ UNCHANGED store
       /\ asked[w].op = "clean"
    \/ /\ asked[w] # Absent /\ UNCHANGED store
       /\ LET r == asked[w]
              m == store[r.path]
          IN  \/ r.op = "get" /\ m # Absent /\ Reply(w, "SUCC", m)
              \/ r.op \in {"get", "update"} /\ m = Absent /\ Reply(w, "KEY_NOT_EXIST", Absent)
              \/ r.op = "add" /\ m # Absent /\ Reply(w, "INSERT_FAILED", Absent)

Errors == [add |-> {"INSERT_FAILED"}, get |-> {"KEY_NOT_EXIST"},
           update |-> {"KEY_NOT_EXIST", "UPDATE_KV_ERROR"},
           replace |-> {"INSERT_FAILED", "UPDATE_KV_ERROR"},
           delete |-> {"DELETE_KV_ERROR"}, clean |-> {}]

\* A failed request leaves the store alone, but for an insert or a delete: these
\* may have taken effect all the same.
Fail(w) ==
    /\ Faults /\ asked[w] # Absent
    /\ \E result \in Errors[asked[w].op] :
          /\ Reply(w, result, Absent)
          /\ \/ UNCHANGED store
             \/ result \in {"INSERT_FAILED", "DELETE_KV_ERROR"} /\ Change(asked[w])

Send(w) == /\ answer[w] # Absent
           /\ asked' = [asked EXCEPT ![w] = Absent]
           /\ answer' = [answer EXCEPT ![w] = Absent]
           /\ UNCHANGED store

Next == \E w \in Worker : Receive(w) \/ Do(w) \/ Fail(w) \/ Send(w)

Spec == Init /\ [][Next]_vars
===============================================================================
