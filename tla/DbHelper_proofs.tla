---------------------------- MODULE DbHelper_proofs ---------------------------
(***************************************************************************)
(* Proofs about DbHelper, for every number of calls and of retries: that a *)
(* statement is executed at most once, that definite answers are true,     *)
(* that what is sent is complete, and, with at least one retry, that an    *)
(* outage which is over when a call begins is hidden from it unless its    *)
(* library has not noticed it, and from every call after that one.         *)
(***************************************************************************)
EXTENDS DbHelper, TLAPS

USE HelperAssumption

Running == {"open", "compose", "query"}

\* The call under way has not been executed before it is answered by the
\* server; the calls after it are untouched.
CallInv == /\ pc # "idle" => /\ call \in Call
                             /\ call \notin underway
                             /\ result[call] = "none"
           /\ pc \in Running => executed[call] = 0
           /\ pc = "fetch" => executed[call] = 1
           /\ \A c \in Call : c > call => /\ executed[c] = 0
                                          /\ c \notin underway
                                          /\ result[c] = "none"

\* What the server may still execute was not executed, and its caller was told
\* that the call failed.
UnderwayInv == \A c \in underway : executed[c] = 0 /\ result[c] = "failed"

\* The arguments are put into the text at the first attempt, and only then.
TextInv == /\ pc \in {"open", "compose"} =>
                 text = IF late /\ count = 0 THEN 0 ELSE 1
           /\ StatementComplete

\* The part of the invariant that bears on executions and answers.
ExecInv == /\ TypeOK
           /\ CallInv
           /\ UnderwayInv
           /\ AtMostOnce
           /\ AnswerTrue
           /\ TextInv

-------------------------------------------------------------------------------
LEMMA InitExec == Init => ExecInv
<1> SUFFICES ASSUME Init PROVE ExecInv
  OBVIOUS
<1> USE DEF Init, Call
<1>4. call \in 0 .. Calls /\ text \in 0 .. 1 /\ count \in 0 .. Retry
  OBVIOUS
<1>5. late \in BOOLEAN /\ reads \in BOOLEAN /\ opened \in BOOLEAN
  OBVIOUS
<1>6. up \in BOOLEAN /\ lost \in BOOLEAN /\ underway \subseteq Call
  OBVIOUS
<1>8. calm \in 0 .. 2
  OBVIOUS
<1>7. /\ executed \in [Call -> Nat]
      /\ result \in [Call -> {"none", "ok", "refused", "failed", "unread"}]
  OBVIOUS
<1>1. TypeOK
  BY <1>4, <1>5, <1>6, <1>7, <1>8 DEF TypeOK
<1>2. CallInv /\ UnderwayInv
  BY DEF CallInv, UnderwayInv, Running
<1>3. AtMostOnce /\ AnswerTrue /\ TextInv
  BY DEF AtMostOnce, AnswerTrue, TextInv, StatementComplete
<1> QED
  BY <1>1, <1>2, <1>3 DEF ExecInv

(***************************************************************************)
(* One lemma per action.                                                   *)
(***************************************************************************)
LEMMA BeginExec == ExecInv /\ Begin => ExecInv'
<1> SUFFICES ASSUME ExecInv, Begin PROVE ExecInv'
  OBVIOUS
<1> USE DEF ExecInv, TypeOK, Begin, Call
<1>5. calm' \in 0 .. 2 /\ call' \in 0 .. Calls /\ text' \in 0 .. 1 /\ count' \in 0 .. Retry
  OBVIOUS
<1>6. lost' \in BOOLEAN /\ late' \in BOOLEAN /\ reads' \in BOOLEAN
  OBVIOUS
<1>1. TypeOK'
  BY <1>5, <1>6
<1>2. CallInv' /\ UnderwayInv'
  BY DEF CallInv, UnderwayInv, Running
<1>3. AtMostOnce' /\ AnswerTrue'
  BY DEF AtMostOnce, AnswerTrue
<1>4. TextInv'
  BY DEF TextInv, StatementComplete
<1> QED
  BY <1>1, <1>2, <1>3, <1>4

LEMMA OpenExec == ExecInv /\ Open => ExecInv'
<1> SUFFICES ASSUME ExecInv, Open PROVE ExecInv'
  OBVIOUS
<1> USE DEF ExecInv, TypeOK, Open, Return, Call, server
<1>1. TypeOK'
  OBVIOUS
<1>2. CallInv' /\ UnderwayInv'
  BY DEF CallInv, UnderwayInv, Running
<1>3. AtMostOnce' /\ AnswerTrue'
  BY DEF AtMostOnce, AnswerTrue, CallInv
<1>4. TextInv'
  BY DEF TextInv, StatementComplete
<1> QED
  BY <1>1, <1>2, <1>3, <1>4

LEMMA ComposeExec == ExecInv /\ Compose => ExecInv'
<1> SUFFICES ASSUME ExecInv, Compose PROVE ExecInv'
  OBVIOUS
<1> USE DEF ExecInv, TypeOK, Compose, Call, server
<1>1. TypeOK' /\ TextInv'
  BY DEF TextInv, StatementComplete
<1>2. CallInv' /\ UnderwayInv'
  BY DEF CallInv, UnderwayInv, Running
<1>3. AtMostOnce' /\ AnswerTrue'
  BY DEF AtMostOnce, AnswerTrue
<1> QED
  BY <1>1, <1>2, <1>3

\* The server executes the statement: it was not executed before.
LEMMA QueryDoneExec == ExecInv /\ QueryDone => ExecInv'
<1> SUFFICES ASSUME ExecInv, QueryDone PROVE ExecInv'
  OBVIOUS
<1> USE DEF ExecInv, TypeOK, QueryDone, Return, Call
<1>1. call \in Call /\ executed[call] = 0 /\ call \notin underway
  BY DEF CallInv, Running
<1>2. executed' = [executed EXCEPT ![call] = 1]
  BY <1>1
<1>3. TypeOK'
  BY <1>1
<1>4. CallInv' /\ UnderwayInv'
  BY <1>1, <1>2 DEF CallInv, UnderwayInv, Running
<1>5. AtMostOnce' /\ AnswerTrue'
  BY <1>1, <1>2 DEF AtMostOnce, AnswerTrue, CallInv
<1>6. TextInv'
  BY DEF TextInv, StatementComplete
<1> QED
  BY <1>3, <1>4, <1>5, <1>6

LEMMA FetchExec == ExecInv /\ (Fetch \/ FetchFails) => ExecInv'
<1> SUFFICES ASSUME ExecInv, Fetch \/ FetchFails PROVE ExecInv'
  OBVIOUS
<1> USE DEF ExecInv, TypeOK, Fetch, FetchFails, Return, Call, server
<1>9. calm' \in 0 .. 2 /\ session' \in {"none", "live", "dead"}
  OBVIOUS
<1>1. TypeOK'
  BY <1>9
<1>5. UNCHANGED <<call, underway, executed>> /\ pc' = "idle"
  OBVIOUS
<1>6. \A c \in Call : c # call => result'[c] = result[c]
  OBVIOUS
<1>7. CallInv'
  BY <1>5, <1>6 DEF CallInv, Running
<1>8. UnderwayInv'
  BY <1>5, <1>6 DEF UnderwayInv, CallInv
<1>2. CallInv' /\ UnderwayInv'
  BY <1>7, <1>8
<1>3. AtMostOnce' /\ AnswerTrue'
  BY DEF AtMostOnce, AnswerTrue, CallInv
<1>4. TextInv'
  BY DEF TextInv, StatementComplete
<1> QED
  BY <1>1, <1>2, <1>3, <1>4

LEMMA QueryRefusedExec == ExecInv /\ QueryRefused => ExecInv'
<1> SUFFICES ASSUME ExecInv, QueryRefused PROVE ExecInv'
  OBVIOUS
<1> USE DEF ExecInv, TypeOK, QueryRefused, Close, Return, Call, server
<1>1. TypeOK'
  OBVIOUS
<1>2. CallInv' /\ UnderwayInv'
  BY DEF CallInv, UnderwayInv, Running
<1>3. AtMostOnce' /\ AnswerTrue'
  BY DEF AtMostOnce, AnswerTrue, CallInv, Running
<1>4. TextInv'
  BY DEF TextInv, StatementComplete
<1> QED
  BY <1>1, <1>2, <1>3, <1>4

\* Another attempt leaves the execution counts alone: nothing had been sent.
LEMMA QueryGoneExec == ExecInv /\ QueryGone => ExecInv'
<1> SUFFICES ASSUME ExecInv, QueryGone PROVE ExecInv'
  OBVIOUS
<1> USE DEF ExecInv, TypeOK, QueryGone, Call, server
<1>1. CASE TryAgain
  <2> USE <1>1 DEF TryAgain, Counted, Close
  <2>3. count' \in 0 .. Retry
    OBVIOUS
  <2>6. opened' \in BOOLEAN /\ session' \in {"none", "live", "dead"}
    OBVIOUS
  <2>1. TypeOK'
    BY <2>3, <2>6
  <2>4. text = 1 /\ count' # 0
    BY DEF TextInv, StatementComplete
  <2>5. TextInv'
    BY <2>4 DEF TextInv, StatementComplete
  <2>2. CallInv' /\ UnderwayInv'
    BY DEF CallInv, UnderwayInv, Running
  <2>7. AtMostOnce' /\ AnswerTrue'
    BY DEF AtMostOnce, AnswerTrue
  <2> QED
    BY <2>1, <2>2, <2>5, <2>7
<1>2. CASE GiveUp
  <2> USE <1>2 DEF GiveUp, Return, Close
  <2>1. TypeOK' /\ TextInv'
    BY DEF TextInv, StatementComplete
  <2>2. CallInv' /\ UnderwayInv'
    BY DEF CallInv, UnderwayInv, Running
  <2>3. AtMostOnce' /\ AnswerTrue'
    BY DEF AtMostOnce, AnswerTrue
  <2> QED
    BY <2>1, <2>2, <2>3
<1> QED
  BY <1>1, <1>2

\* A statement that may be executed behind the caller's back is not sent again.
LEMMA QueryLostExec == ExecInv /\ QueryLost => ExecInv'
<1> SUFFICES ASSUME ExecInv, QueryLost PROVE ExecInv'
  OBVIOUS
<1> USE DEF ExecInv, TypeOK, QueryLost, Unanswered, GiveUp, Close, Return, Call
<1>1. call \in Call /\ executed[call] = 0
  BY DEF CallInv, Running
<1>6. calm' \in 0 .. 2
  OBVIOUS
<1>7. lost' \in BOOLEAN /\ underway' \subseteq Call
  BY <1>1
<1>2. TypeOK' /\ TextInv'
  BY <1>1, <1>6, <1>7 DEF TextInv, StatementComplete
<1>3. CallInv'
  BY DEF CallInv, Running
<1>4. UnderwayInv'
  BY <1>1 DEF UnderwayInv
<1>5. AtMostOnce' /\ AnswerTrue'
  BY <1>1 DEF AtMostOnce, AnswerTrue
<1> QED
  BY <1>2, <1>3, <1>4, <1>5

LEMMA OutageExec == ExecInv /\ (HangUp \/ GoDown \/ ComeUp) => ExecInv'
<1> SUFFICES ASSUME ExecInv, HangUp \/ GoDown \/ ComeUp PROVE ExecInv'
  OBVIOUS
<1>1. UNCHANGED <<caller, executed>> /\ underway' \subseteq underway
  BY DEF HangUp, GoDown, ComeUp
<1>7. calm' \in 0 .. 2
  BY DEF ExecInv, TypeOK, HangUp, GoDown, ComeUp
<1>2. /\ session' \in {"none", "live", "dead"}
      /\ opened' = opened
      /\ up' \in BOOLEAN
  BY DEF ExecInv, TypeOK, HangUp, GoDown, ComeUp, Broken
<1> USE DEF ExecInv, caller
<1>3. TypeOK'
  BY <1>1, <1>2, <1>7 DEF TypeOK
<1>4. CallInv' /\ UnderwayInv'
  BY <1>1 DEF CallInv, UnderwayInv
<1>5. AtMostOnce' /\ AnswerTrue'
  BY <1>1 DEF AtMostOnce, AnswerTrue
<1>6. TextInv'
  BY <1>1 DEF TextInv, StatementComplete
<1> QED
  BY <1>3, <1>4, <1>5, <1>6

\* A late execution is the first one, of a call that is over and was told
\* "failed".
LEMMA ExecuteExec == ExecInv /\ Execute => ExecInv'
<1> SUFFICES ASSUME ExecInv, NEW c \in underway,
                    underway' = underway \ {c},
                    executed' \in {executed, [executed EXCEPT ![c] = @ + 1]},
                    UNCHANGED <<caller, opened, session, up, calm>>
             PROVE  ExecInv'
  BY DEF Execute
<1> USE DEF ExecInv, TypeOK, caller, Call
<1>1. c \in Call /\ executed[c] = 0 /\ result[c] = "failed"
  BY DEF UnderwayInv
<1>2. pc # "idle" => c # call
  BY DEF CallInv
<1>3. c <= call
  BY <1>1 DEF CallInv
<1>4. TypeOK' /\ TextInv'
  BY <1>1 DEF TextInv, StatementComplete
<1>5. CallInv'
  BY <1>1, <1>2, <1>3 DEF CallInv, Running
<1>6. UnderwayInv'
  BY <1>1 DEF UnderwayInv
<1>7. AtMostOnce' /\ AnswerTrue'
  BY <1>1 DEF AtMostOnce, AnswerTrue
<1> QED
  BY <1>4, <1>5, <1>6, <1>7

LEMMA NextExec == ExecInv /\ [Next]_vars => ExecInv'
<1> SUFFICES ASSUME ExecInv, [Next]_vars PROVE ExecInv'
  OBVIOUS
<1>1. CASE UNCHANGED vars
  BY <1>1 DEF vars, ExecInv, TypeOK, CallInv, UnderwayInv, AtMostOnce,
              AnswerTrue, TextInv, StatementComplete
<1>2. CASE Step
  BY <1>2, OpenExec, ComposeExec, QueryDoneExec, FetchExec, QueryRefusedExec,
     QueryGoneExec, QueryLostExec DEF Step
<1> QED
  BY <1>1, <1>2, BeginExec, OutageExec, ExecuteExec DEF Next

\* In every reachable state the counts, the answers and what is under way agree.
THEOREM Executions == Spec => []ExecInv
  BY InitExec, NextExec, PTL DEF Spec

\* No statement is executed twice, however often its call is retried and
\* however late the server executes it: used_size is not increased twice.
THEOREM OnceOnly == Spec => []AtMostOnce
<1>1. ExecInv => AtMostOnce
  BY DEF ExecInv
<1> QED
  BY <1>1, Executions, PTL

\* A handler that is told "done" or "refused" is told the truth.
THEOREM Truthful == Spec => []AnswerTrue
<1>1. ExecInv => AnswerTrue
  BY DEF ExecInv
<1> QED
  BY <1>1, Executions, PTL

\* The text of a statement is complete and has its arguments once on every
\* attempt, the first or a retry.
THEOREM Complete == Spec => []StatementComplete
<1>1. ExecInv => StatementComplete
  BY DEF ExecInv, TextInv
<1> QED
  BY <1>1, Executions, PTL

\* The fields of the helper and what is known of its server keep their types;
\* count never gets beyond retry_count.
THEOREM TypeCorrect == Spec => []TypeOK
<1>1. ExecInv => TypeOK
  BY DEF ExecInv
<1> QED
  BY <1>1, Executions, PTL

-------------------------------------------------------------------------------
(***************************************************************************)
(* A call in whose time nothing breaks may find a session that was closed  *)
(* before.  If its library knows, it closes its end and tries again with a *)
(* new session, which is alive: one retry is enough.  If not, the call     *)
(* fails and closes the connection for the next one.                       *)
(***************************************************************************)
Retries == Retry > 0

\* Since a call began nothing broke: another attempt has a new, live session,
\* and the call fails with CR_SERVER_LOST or not at all.
CalmInv == calm >= 1 => /\ up
                        /\ pc = "open" /\ count > 0 => ~opened
                        /\ pc \in {"compose", "query"} /\ count > 0 => session = "live"
                        /\ pc = "fetch" => session = "live"
                        /\ result[call] # "unread"
                        /\ result[call] = "failed" => lost

\* Once such a call is over the dead session is gone.
ClosedInv == /\ (calm = 2 \/ (calm = 1 /\ pc = "idle")) => session # "dead"
             /\ calm = 2 => result[call] # "failed"

LEMMA CalmStep ==
  ASSUME Retries, ExecInv, CalmInv, [Next]_vars
  PROVE  CalmInv'
<1> USE DEF CalmInv, ExecInv, TypeOK
<1>1. CASE UNCHANGED vars
  BY <1>1 DEF vars, Call
<1>2. CASE Begin
  BY <1>2 DEF Begin, CallInv, Call
<1>3. CASE Open
  BY <1>3 DEF Open, Return, server, Call
<1>4. CASE Compose
  BY <1>4 DEF Compose, server, Call
<1>5. CASE QueryDone \/ Fetch \/ QueryRefused
  BY <1>5 DEF QueryDone, Fetch, QueryRefused, Close, Return, server, Call, CallInv
<1>6. CASE QueryGone
  <2>1. CASE TryAgain
    BY <1>6, <2>1 DEF QueryGone, TryAgain, Counted, Close, server, Call
  <2>2. CASE count >= Retry /\ GiveUp
    \* the session of a second attempt is not dead
    BY <1>6, <2>2 DEF QueryGone, Retries, GiveUp, Close, Return, server
  <2> QED
    BY <1>6, <2>1, <2>2 DEF QueryGone
<1>7. CASE QueryLost
  BY <1>7 DEF QueryLost, Unanswered, GiveUp, Close, Return, Call, CallInv
<1>8. CASE FetchFails \/ HangUp \/ GoDown
  BY <1>8 DEF FetchFails, HangUp, GoDown
<1>9. CASE ComeUp \/ Execute
  BY <1>9 DEF ComeUp, Execute, caller, Call
<1> QED
  BY <1>1, <1>2, <1>3, <1>4, <1>5, <1>6, <1>7, <1>8, <1>9 DEF Next, Step

LEMMA ClosedStep ==
  ASSUME Retries, ExecInv, CalmInv, ClosedInv, [Next]_vars
  PROVE  ClosedInv'
<1> USE DEF ClosedInv, CalmInv, ExecInv, TypeOK
<1>1. CASE UNCHANGED vars
  BY <1>1 DEF vars, Call
<1>2. CASE Begin
  BY <1>2 DEF Begin, CallInv, Call
<1>3. CASE Open
  BY <1>3 DEF Open, Return, server, Call
<1>4. CASE Compose
  BY <1>4 DEF Compose, server, Call
<1>5. CASE QueryDone \/ Fetch \/ QueryRefused
  BY <1>5 DEF QueryDone, Fetch, QueryRefused, Close, Return, server, Call, CallInv
<1>6. CASE QueryGone
  <2>1. CASE TryAgain
    BY <1>6, <2>1 DEF QueryGone, TryAgain, Counted, Close, server, Call
  <2>2. CASE count >= Retry /\ GiveUp
    BY <1>6, <2>2 DEF QueryGone, Retries, GiveUp, Close, Return, server
  <2> QED
    BY <1>6, <2>1, <2>2 DEF QueryGone
<1>7. CASE QueryLost
  BY <1>7 DEF QueryLost, Unanswered, GiveUp, Close, Return, Call, CallInv
<1>8. CASE FetchFails \/ HangUp \/ GoDown
  BY <1>8 DEF FetchFails, HangUp, GoDown
<1>9. CASE ComeUp \/ Execute
  BY <1>9 DEF ComeUp, Execute, caller, Call
<1> QED
  BY <1>1, <1>2, <1>3, <1>4, <1>5, <1>6, <1>7, <1>8, <1>9 DEF Next, Step

\* With at least one retry (create_mysql sets retry_count to 3) an outage that
\* is over when a call begins makes the call fail only if the client library
\* had not noticed it, and makes no later call fail.
THEOREM OutagesHidden == ASSUME Retries PROVE Spec => []OldOutageHidden
<1>1. Init => CalmInv /\ ClosedInv
  BY DEF Init, CalmInv, ClosedInv
<1>2. ExecInv /\ CalmInv /\ ClosedInv /\ [Next]_vars => CalmInv' /\ ClosedInv'
  BY CalmStep, ClosedStep
<1>3. CalmInv /\ ClosedInv => OldOutageHidden
  BY DEF CalmInv, ClosedInv, OldOutageHidden
<1> QED
  BY <1>1, <1>2, <1>3, Executions, PTL DEF Spec
===============================================================================
