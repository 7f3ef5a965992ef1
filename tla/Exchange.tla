------------------------------- MODULE Exchange -------------------------------
(***************************************************************************)
(* What a connection promises its two ends: the requests put on it are     *)
(* executed once each, whole and in their order, and while the client      *)
(* stays all of them are.  A connection that is over is followed by an     *)
(* empty one, whatever was left on it.                                     *)
(***************************************************************************)
EXTENDS Naturals, Sequences

CONSTANT Requests

VARIABLES asked,  \* the requests put on the connection
          done,   \* the requests executed
          open    \* the client has not hung up

vars == <<asked, done, open>>

Init == asked = <<>> /\ done = <<>> /\ open = TRUE

Ask ==
    /\ open
    /\ \E r \in Requests : asked' = Append(asked, r)
    /\ UNCHANGED <<done, open>>

Do ==
    /\ Len(done) < Len(asked)
    /\ done' = Append(done, asked[Len(done) + 1])
    /\ UNCHANGED <<asked, open>>

HangUp == open /\ open' = FALSE /\ UNCHANGED <<asked, done>>

Again == ~open /\ open' = TRUE /\ asked' = <<>> /\ done' = <<>>

Next == Ask \/ Do \/ HangUp \/ Again

Spec == Init /\ [][Next]_vars /\ WF_vars(open /\ Do)
===============================================================================
