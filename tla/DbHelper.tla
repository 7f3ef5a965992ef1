------------------------------- MODULE DbHelper -------------------------------
(***************************************************************************)
(* One MySQL connection of cell/db_helper.c and the statements executed on *)
(* it, one after another, by the handler that holds the helper.  The nine  *)
(* statement functions have one structure, which is modelled once: open    *)
(* the connection if it is closed, complete the text of the statement if   *)
(* this is the first attempt, send it; an error closes the connection,     *)
(* and CR_SERVER_GONE_ERROR, which says that nothing was sent, is followed *)
(* by another attempt, at most retry_count times.  Any other error ends    *)
(* the call.                                                               *)
(*                                                                         *)
(* The database server is external: it may close the session of an idle    *)
(* client or be restarted at any moment, and the path to it may break.  A  *)
(* client that learnt of it before it sends gets CR_SERVER_GONE_ERROR; one *)
(* that did not sends its statement and gets CR_SERVER_LOST, as when the   *)
(* session breaks while the statement is under way: the server may have    *)
(* executed it, may execute it later, or never.                            *)
(***************************************************************************)
EXTENDS Naturals

CONSTANTS Retry,      \* retry_count, 3 in create_mysql
          Calls       \* bound on the number of calls

ASSUME HelperAssumption == Retry \in Nat /\ Calls \in Nat \ {0}

Call == 1 .. Calls

VARIABLES pc,         \* where the call is
          call,       \* the number of the current or last call
          text,       \* how often the arguments are in h->sql
          late,       \* the arguments are added once the connection is open
          reads,      \* the statement is a select: its rows are fetched
          count,      \* the local variable count: attempts that were retried
          opened,     \* the field opened
          session,    \* the session, seen from the server: "none", "live", "dead"
          up,         \* the server accepts connections
          underway,   \* statements the server has received and not answered
          executed,   \* executed[c]: how often the statement of call c was executed
          result,     \* result[c]: "none", "ok", "refused", "failed" or "unread"
          lost,       \* the current or last call ended with CR_SERVER_LOST
          calm        \* calls begun since the last outage, 2 for more

vars == <<pc, call, text, late, reads, count, opened, session, up, underway, executed,
          result, lost, calm>>
caller == <<pc, call, text, late, reads, count, result, lost>>
server == <<up, underway, executed, calm>>

\* create_mysql
Init == /\ pc = "idle"
        /\ call = 0
        /\ text = 0
        /\ late = FALSE
        /\ reads = FALSE
        /\ count = 0
        /\ opened = FALSE
        /\ session = "none"
        /\ up = TRUE
        /\ underway = {}
        /\ executed = [c \in Call |-> 0]
        /\ result = [c \in Call |-> "none"]
        /\ lost = FALSE
        /\ calm = 0

\* A handler calls one of the functions: those on dfs_user and dfs_log_table
\* format their arguments now, those on keys and values escape them later.
Begin == /\ pc = "idle"
         /\ call < Calls
         /\ call' = call + 1
         /\ late' \in BOOLEAN
         /\ reads' \in BOOLEAN
         /\ text' = IF late' THEN 0 ELSE 1
         /\ count' = 0
         /\ lost' = FALSE
         /\ calm' = IF ~up THEN 0 ELSE IF calm < 2 THEN calm + 1 ELSE 2
         /\ pc' = "open"
         /\ UNCHANGED <<opened, session, up, underway, executed, result>>

Return(r) == /\ result' = [result EXCEPT ![call] = r]
             /\ pc' = "idle"
             /\ UNCHANGED <<call, text, late, reads, count>>

\* open_mysql, once for each attempt
Open == /\ pc = "open"
        /\ IF opened \/ up
           THEN /\ opened' = TRUE
                /\ session' = IF opened THEN session ELSE "live"
                /\ pc' = "compose"
                /\ UNCHANGED <<call, text, late, reads, count, result>>
           ELSE Return("failed") /\ UNCHANGED <<opened, session>>
        /\ UNCHANGED <<server, lost>>

Compose == /\ pc = "compose"
           /\ text' = IF late /\ count = 0 THEN text + 1 ELSE text
           /\ pc' = "query"
           /\ UNCHANGED <<call, late, reads, count, opened, session, server, result, lost>>

\* mysql_real_query: the statement is executed and acknowledged
QueryDone == /\ pc = "query"
             /\ session = "live"
             /\ executed' = [executed EXCEPT ![call] = @ + 1]
             /\ IF reads
                THEN pc' = "fetch" /\ UNCHANGED <<call, text, late, reads, count, result>>
                ELSE Return("ok")
             /\ UNCHANGED <<opened, session, up, underway, lost, calm>>

\* mysql_store_result and mysql_fetch_row
Fetch == /\ pc = "fetch"
         /\ session = "live"
         /\ Return("ok")
         /\ UNCHANGED <<opened, session, server, lost>>

\* the rows do not arrive; here the connection is not closed
FetchFails == /\ pc = "fetch"
              /\ session' = "dead"
              /\ calm' = 0
              /\ Return("unread")
              /\ UNCHANGED <<opened, up, underway, executed, lost>>

\* a slip: the connection stays open after an error
KeepOpen == UNCHANGED <<opened, session>>

\* close_mysql
Close == opened' = FALSE /\ session' = "none"

\* the server refuses the statement: a duplicate key (1062), or another error,
\* after which the connection is closed
QueryRefused == /\ pc = "query"
                /\ session = "live"
                /\ Return("refused")
                /\ Close \/ UNCHANGED <<opened, session>>
                /\ UNCHANGED <<server, lost>>

\* a slip: count++ is forgotten
CountedNot(n) == n

Counted(n) == n + 1

\* the error branch that tries again
TryAgain == /\ count < Retry
            /\ count' = Counted(count)
            /\ Close
            /\ pc' = "open"
            /\ UNCHANGED <<call, text, late, reads, result>>

\* the error branch that gives up
GiveUp == Close /\ Return("failed")

\* CR_SERVER_GONE_ERROR: the client knows that the session is closed, it sends
\* nothing
QueryGone == /\ pc = "query"
             /\ session = "dead"
             /\ TryAgain \/ (count >= Retry /\ GiveUp)
             /\ UNCHANGED <<server, lost>>

\* What CR_SERVER_LOST leaves behind: the statement may have reached the server.
\* A session that was dead before is an old outage, a live one breaks now.
Unanswered == /\ underway' \in {underway, underway \cup {call}}
              /\ underway' # underway => up
              /\ calm' = IF session = "live" THEN 0 ELSE calm
              /\ lost' = TRUE
              /\ UNCHANGED <<up, executed>>

\* a slip: every connection error is treated like CR_SERVER_GONE_ERROR
QueryLostRetried ==
    /\ pc = "query"
    /\ session # "none"
    /\ TryAgain \/ (count >= Retry /\ GiveUp)
    /\ Unanswered

\* CR_SERVER_LOST: no answer, because the session breaks now or because it broke
\* before and the client had not noticed
QueryLost ==
    /\ pc = "query"
    /\ session # "none"
    /\ GiveUp
    /\ Unanswered

Step == \/ Open \/ Compose
        \/ QueryDone \/ Fetch \/ FetchFails \/ QueryRefused \/ QueryGone \/ QueryLost

-------------------------------------------------------------------------------
(***************************************************************************)
(* The server (external).                                                  *)
(***************************************************************************)
Broken == IF session = "live" THEN "dead" ELSE session

\* wait_timeout, KILL, or a broken network path, which the client may not notice
HangUp == /\ session = "live"
          /\ calm' = 0
          /\ session' = Broken
          /\ UNCHANGED <<caller, opened, up, underway, executed>>

GoDown == /\ up
          /\ calm' = 0
          /\ up' = FALSE
          /\ underway' = {}
          /\ session' = Broken
          /\ UNCHANGED <<caller, opened, executed>>

ComeUp == /\ ~up
          /\ up' = TRUE
          /\ UNCHANGED <<caller, opened, session, underway, executed, calm>>

\* what was under way when the client gave up is executed after all, or not
Execute == \E c \in underway :
              /\ underway' = underway \ {c}
              /\ executed' \in {executed, [executed EXCEPT ![c] = @ + 1]}
              /\ UNCHANGED <<caller, opened, session, up, calm>>

Next == Begin \/ Step \/ HangUp \/ GoDown \/ ComeUp \/ Execute

Spec == Init /\ [][Next]_vars

(***************************************************************************)
(* A call runs on: read, write and connect timeouts (open_mysql) end every *)
(* wait for the server.                                                    *)
(***************************************************************************)
FairSpec == Spec /\ WF_vars(Step)

-------------------------------------------------------------------------------
TypeOK == /\ pc \in {"idle", "open", "compose", "query", "fetch"}
          /\ call \in 0 .. Calls
          /\ text \in 0 .. 1
          /\ late \in BOOLEAN /\ reads \in BOOLEAN
          /\ count \in 0 .. Retry
          /\ opened \in BOOLEAN
          /\ session \in {"none", "live", "dead"}
          /\ up \in BOOLEAN
          /\ underway \subseteq Call
          /\ executed \in [Call -> Nat]
          /\ result \in [Call -> {"none", "ok", "refused", "failed", "unread"}]
          /\ lost \in BOOLEAN
          /\ calm \in 0 .. 2

\* A statement is executed at most once, although calls are retried: used_size
\* is not increased twice, no log line is written twice.
AtMostOnce == \A c \in Call : executed[c] <= 1

\* The answer is right when it is definite: success means that the statement
\* was executed, a refusal that it never is.
AnswerTrue == \A c \in Call :
                 /\ result[c] = "ok" => executed[c] = 1
                 /\ result[c] = "refused" => executed[c] = 0 /\ c \notin underway

\* What is sent has its arguments exactly once, on every attempt.
StatementComplete == pc = "query" => text = 1

\* The retry hides what happened between calls.  When the server is up and
\* nothing breaks while a call runs, the call fails only if it meets a session
\* that was closed before and whose end the client had not noticed; and that
\* happens to the first call after the outage at most, since every error but a
\* refusal closes the connection.
OldOutageHidden == /\ calm >= 1 => /\ result[call] # "unread"
                                   /\ result[call] = "failed" => lost
                   /\ calm = 2 => result[call] # "failed"

\* Every call returns.
Returns == pc # "idle" ~> pc = "idle"
===============================================================================
