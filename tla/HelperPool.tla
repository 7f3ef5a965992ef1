------------------------------ MODULE HelperPool ------------------------------
(***************************************************************************)
(* What the two database connection pools of the server promise to the     *)
(* request handlers, without arrays, positions or locks.  A worker thread  *)
(* asks for a connection of one kind; it is given one that nobody holds,   *)
(* or refused, and a refusal means that every connection of that kind is   *)
(* held at that instant.  A held connection is given back exactly once.    *)
(*                                                                         *)
(* DbPool implements this module (DbPool!Implements).                      *)
(***************************************************************************)
CONSTANTS Worker,     \* the threads that run request handlers
          Helper      \* the connections (helpers) of one kind

Kind == {"write", "read"}

VARIABLES phase,      \* phase[w]: where worker w is in its use of the pool
          asked,      \* asked[w]: the kind worker w last asked for
          holds       \* holds[w]: the set of helpers worker w holds, at most one

vars == <<phase, asked, holds>>

Init == /\ phase = [w \in Worker |-> "idle"]
        /\ asked \in [Worker -> Kind]
        /\ holds = [w \in Worker |-> {}]

Taken(k) == UNION {holds[w] : w \in {v \in Worker : asked[v] = k}}

Ask(w) == /\ phase[w] = "idle"
          /\ \E k \in Kind : asked' = [asked EXCEPT ![w] = k]
          /\ phase' = [phase EXCEPT ![w] = "asking"]
          /\ UNCHANGED holds

Grant(w) == /\ phase[w] = "asking"
            /\ \E h \in Helper \ Taken(asked[w]) :
                  holds' = [holds EXCEPT ![w] = {h}]
            /\ phase' = [phase EXCEPT ![w] = "holding"]
            /\ UNCHANGED asked

Refuse(w) == /\ phase[w] = "asking"
             /\ Helper \subseteq Taken(asked[w])
             /\ phase' = [phase EXCEPT ![w] = "refused"]
             /\ UNCHANGED <<asked, holds>>

GiveUp(w) == /\ phase[w] = "refused"
             /\ phase' = [phase EXCEPT ![w] = "idle"]
             /\ UNCHANGED <<asked, holds>>

Return(w) == /\ phase[w] = "holding"
             /\ holds' = [holds EXCEPT ![w] = {}]
             /\ phase' = [phase EXCEPT ![w] = "idle"]
             /\ UNCHANGED asked

Next == \E w \in Worker :
           Ask(w) \/ Grant(w) \/ Refuse(w) \/ GiveUp(w) \/ Return(w)

Spec == Init /\ [][Next]_vars
===============================================================================
