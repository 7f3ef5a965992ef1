----------------------------- MODULE Lifecycle -----------------------------
(***************************************************************************)
(* The life of celld: the supervisor that forks a worker, waits for it and *)
(* starts it again (cell_spawn_wait.c), the main thread of the worker from *)
(* its first instruction to its exit (cell.c), and the ephemeral node by   *)
(* which the worker is found in ZooKeeper (cell_zk.c).                     *)
(*                                                                         *)
(* A caught signal is seen only by a waitpid that is under way: a handler  *)
(* that runs between two calls of waitpid leaves no trace.  Time is        *)
(* abstract: the five seconds of alarm() are enough for a worker that is   *)
(* not hung to start or to leave, except MaxLate times.                    *)
(***************************************************************************)
EXTENDS Naturals, FiniteSets

CONSTANTS
    Sessions,      \* names for ZooKeeper sessions
    None,          \* no session
    MaxAsk,        \* bound: how often the operator signals the supervisor
    MaxCrash,      \* bound: crashes, hangs and failed starts and forks of workers
    MaxLate,       \* bound: how often five seconds are not enough
    MaxFault,      \* bound: lost connections, expired sessions, ZooKeeper away
    LossInConnect  \* may the connection be lost within connect_zookeeper?

ASSUME SessionAssumption == None \notin Sessions
ASSUME BoundAssumption == {MaxAsk, MaxCrash, MaxLate, MaxFault} \subseteq Nat
ASSUME LossAssumption == LossInConnect \in BOOLEAN

VARIABLES
    sup,        \* the supervisor: forks, waits, has ended, or could not fork
    tries,      \* wait_for_process: i, as far as the code looks at it
    sig,        \* wait_for_process: the last signal sent to this worker
    alarm,      \* an alarm is set
    worker,     \* where the main thread of the worker is, or how it ended
    zk,         \* where connect_zookeeper is
    handles,    \* what SIGINT does to the worker
    booted,     \* cell_init is over
    daemon_run, \* the flag of the worker's loops
    hung,       \* the worker makes no step any more
    handle,     \* zk_handle of the worker: its session
    alive,      \* the sessions ZooKeeper has not ended
    node,       \* the session that owns the worker's node
    named,      \* the node holds ip:port
    told,       \* history: the operator's signal has interrupted a waitpid
    missed,     \* history: a signal was caught outside waitpid
    count       \* how much of each bound is used up

supVars == <<sup, tries, sig, alarm, told, missed>>
workVars == <<worker, handles, booted, daemon_run, hung>>
zkVars == <<zk, handle, alive, node, named>>
vars == <<supVars, workVars, zkVars, count>>

Bounds == [ask |-> MaxAsk, crash |-> MaxCrash, late |-> MaxLate, fault |-> MaxFault]
Use(b) == count[b] < Bounds[b] /\ count' = [count EXCEPT ![b] = @ + 1]

Ended == {"none", "exited", "killed"}
Over == {"ended", "failed"}

TypeOK ==
    /\ sup \in {"fork", "wait"} \cup Over
    /\ tries \in 0..2
    /\ sig \in {"none", "INT", "KILL"}
    /\ alarm \in BOOLEAN
    /\ worker \in Ended \cup {"boot", "connect", "init", "run", "leave"}
    /\ zk \in {"idle", "init", "parents", "clear", "create", "set"}
    /\ handles \in {"dies", "nothing", "clears"}
    /\ booted \in BOOLEAN /\ daemon_run \in BOOLEAN /\ hung \in BOOLEAN
    /\ handle \in Sessions \cup {None}
    /\ alive \subseteq Sessions
    /\ node \in alive \cup {None}
    /\ named \in BOOLEAN
    /\ told \in BOOLEAN /\ missed \in BOOLEAN
    /\ \A b \in DOMAIN Bounds : count[b] \in 0..Bounds[b]
    /\ worker \in Ended => handle = None

Init ==
    /\ sup = "fork" /\ tries = 0 /\ sig = "none" /\ alarm = FALSE
    /\ worker = "none" /\ zk = "idle"
    /\ handles = "dies"
    /\ booted = FALSE /\ daemon_run = FALSE /\ hung = FALSE
    /\ handle = None /\ alive = {} /\ node = None /\ named = FALSE
    /\ told = FALSE /\ missed = FALSE
    /\ count = [b \in DOMAIN Bounds |-> 0]

-----------------------------------------------------------------------------
(* The supervisor *)

\* What SIGINT does to a worker: its own handler clears daemon_run, which does
\* nothing when it is not yet set.
Interrupt ==
    /\ worker' = IF handles = "dies" THEN "killed" ELSE worker
    /\ daemon_run' = (daemon_run /\ handles # "clears")

\* The third signal, and those after it, cannot be caught.
Kill == worker' = "killed" /\ UNCHANGED daemon_run

\* A process that is gone has no handle; its session stays until it expires.
Gone ==
    /\ handle' = IF worker' \in Ended THEN None ELSE handle
    /\ zk' = IF worker' \in Ended THEN "idle" ELSE zk
    /\ hung' = (hung /\ worker' \notin Ended)

\* A slip: a worker that is hung is only asked, again and again.
SignalMildly(i) == "INT"
Signal(i) == IF i > 1 THEN "KILL" ELSE "INT"

\* A signal interrupts waitpid: the worker is asked to end, or killed, and the
\* alarm is set.  (waitpid looks for an ended child before it looks at signals.)
Interrupted ==
    /\ sup = "wait" /\ worker \notin Ended
    /\ sig' = Signal(tries)
    /\ IF sig' = "KILL" THEN Kill ELSE Interrupt
    /\ Gone
    /\ tries' = IF tries = 2 THEN 2 ELSE tries + 1
    /\ alarm' = TRUE
    /\ UNCHANGED <<sup, missed, handles, booted, alive, node, named>>

\* A signal at any other time leaves no trace but a variable nobody reads.
Unnoticed ==
    /\ sup \notin Over /\ worker \in Ended \ {"none"}
    /\ missed' = TRUE
    /\ UNCHANGED <<sup, tries, sig, told, workVars, zkVars>>

\* An operator asks the supervisor to end.
Ask ==
    /\ Use("ask")
    /\ \/ Interrupted /\ told' = TRUE
       \/ Unnoticed /\ UNCHANGED alarm

\* Five seconds are enough for a worker that can make a step.
Settled == hung \/ worker \in Ended \/ (worker = "run" /\ daemon_run)

Alarm ==
    /\ alarm
    /\ \/ Settled /\ UNCHANGED count
       \/ ~Settled /\ Use("late")
    /\ \/ Interrupted /\ UNCHANGED told
       \/ Unnoticed /\ alarm' = FALSE

\* The worker inherits what SIGINT does in its parent: the first one the
\* default, the later ones a handler that does nothing.
Fork ==
    /\ sup = "fork"
    /\ sup' = "wait"
    /\ tries' = 0 /\ sig' = "none"
    /\ worker' = "boot"
    /\ handles' = IF worker = "none" THEN "dies" ELSE "nothing"
    /\ booted' = FALSE /\ daemon_run' = FALSE
    /\ UNCHANGED <<alarm, told, missed, hung, zkVars, count>>

\* No process can be made: the supervisor ends, and no worker is left.
ForkFails ==
    /\ sup = "fork" /\ Use("crash")
    /\ sup' = "failed"
    /\ UNCHANGED <<tries, sig, alarm, told, missed, workVars, zkVars>>

\* A slip: a worker that exits is never started again.
StopsAlways == worker = "exited"
Stops == worker = "exited" /\ sig # "none"

\* waitpid returns the worker.
Reap ==
    /\ sup = "wait" /\ worker \in {"exited", "killed"}
    /\ sup' = IF Stops THEN "ended" ELSE "fork"
    /\ UNCHANGED <<tries, sig, alarm, told, missed, workVars, zkVars, count>>

Supervisor == Fork \/ ForkFails \/ Reap

-----------------------------------------------------------------------------
(* The worker: main *)

Runs == worker \notin Ended /\ ~hung

\* The handlers of the worker are in place.
SetHandlers ==
    /\ Runs /\ worker = "boot"
    /\ handles' = "clears"
    /\ worker' = "connect" /\ zk' = "init"
    /\ UNCHANGED <<supVars, booted, daemon_run, hung, handle, alive, node, named, count>>

\* cell_init sets daemon_run and listens, or ends the process.
CellInit ==
    /\ Runs /\ worker = "init"
    /\ \/ /\ worker' = "run" /\ booted' = TRUE /\ daemon_run' = TRUE
          /\ UNCHANGED <<zkVars, count>>
       \/ /\ worker' = "exited" /\ Use("crash")
          /\ handle' = None
          /\ UNCHANGED <<booted, daemon_run, zk, alive, node, named>>
    /\ UNCHANGED <<supVars, handles, hung>>

\* check_zookeeper and loop_run end when daemon_run is cleared.
LoopEnds ==
    /\ Runs /\ worker = "run" /\ ~daemon_run
    /\ worker' = "leave"
    /\ UNCHANGED <<supVars, handles, booted, daemon_run, hung, zkVars, count>>

Crash ==
    /\ worker \notin Ended /\ Use("crash")
    /\ worker' = "killed" /\ Gone
    /\ UNCHANGED <<supVars, handles, booted, daemon_run, alive, node, named>>

Hang ==
    /\ Runs /\ Use("crash")
    /\ hung' = TRUE
    /\ UNCHANGED <<supVars, worker, handles, booted, daemon_run, zkVars>>

-----------------------------------------------------------------------------
(* The worker: ZooKeeper.  A call fails when the session has expired, or when
   the connection is lost; then nobody knows whether it was executed.        *)

Valid == handle \in alive
Loses == Use("fault") /\ (LossInConnect \/ zk = "idle")

\* zookeeper_close ends the session if it gets through, else it will expire.
Closed ==
    /\ handle' = None
    /\ \/ UNCHANGED <<alive, node, named>>
       \/ /\ alive' = alive \ {handle}
          /\ node' = IF node = handle THEN None ELSE node
          /\ named' = (named /\ node' # None)

\* connect_zookeeper returns: to main at the start, to check_zookeeper later.
Back ==
    /\ zk' = "idle"
    /\ worker' = IF booted THEN "run" ELSE "init"

InConnect(step) == Runs /\ worker = "connect" /\ zk = step
Rest == UNCHANGED <<supVars, handles, booted, daemon_run, hung>>

\* A new session, or ZooKeeper is not there for five seconds.
ZkInit ==
    /\ InConnect("init") /\ Rest
    /\ \/ /\ \E s \in Sessions \ alive : handle' = s /\ alive' = alive \cup {s}
          /\ zk' = "parents"
          /\ UNCHANGED <<worker, node, named, count>>
       \/ /\ Use("fault") /\ Back
          /\ UNCHANGED <<handle, alive, node, named>>

\* The three directories above the node.
Parents ==
    /\ InConnect("parents") /\ Rest
    /\ \/ Valid /\ zk' = "clear" /\ UNCHANGED <<worker, count>>
       \/ ~Valid /\ Back /\ UNCHANGED count
       \/ Valid /\ Loses /\ Back
    /\ UNCHANGED <<handle, alive, node, named>>

\* A slip: a node that is there already is taken for one's own.
ClearKeeping ==
    /\ InConnect("clear") /\ Rest
    /\ zk' = "create"
    /\ UNCHANGED <<worker, handle, alive, node, named, count>>

\* A node that is there already is of an earlier session and is deleted.
\* Whether it could be deleted is not looked at.
Clear ==
    /\ InConnect("clear") /\ Rest
    /\ zk' = "create"
    /\ \/ Valid /\ node' = None /\ named' = FALSE /\ UNCHANGED count
       \/ ~Valid /\ UNCHANGED <<node, named, count>>
       \/ /\ Valid /\ Loses
          /\ node' \in {node, None}
          /\ named' = (named /\ node' # None)
    /\ UNCHANGED <<worker, handle, alive>>

Created == node' = handle /\ named' = FALSE
Kept == UNCHANGED <<node, named>>

\* zk_create_node is content with a node that is there.  When it fails,
\* connect_zookeeper returns with the handle it has.
Create ==
    /\ InConnect("create") /\ Rest
    /\ \/ /\ Valid /\ zk' = "set"
          /\ IF node = None THEN Created ELSE Kept
          /\ UNCHANGED <<worker, count>>
       \/ ~Valid /\ Back /\ Kept /\ UNCHANGED count
       \/ /\ Valid /\ Loses /\ Back
          /\ Kept \/ (node = None /\ Created)
    /\ UNCHANGED <<handle, alive>>

\* The value is written; when that fails, the node is deleted and the session closed.
Set ==
    /\ InConnect("set") /\ Rest /\ Back
    /\ \/ /\ Valid /\ node # None /\ named' = TRUE
          /\ UNCHANGED <<handle, alive, node, count>>
       \/ (~Valid \/ node = None) /\ Closed /\ UNCHANGED count
       \/ /\ Valid /\ node # None /\ Loses
          /\ \/ Closed
             \/ node' = None /\ named' = FALSE /\ handle' = None /\ alive' \in {alive, alive \ {handle}}

\* What makes check_zookeeper connect again: no handle, or a session that is over.
Reconnects == handle = None \/ ~Valid

\* A round of check_zookeeper.  A node that has gone (ZNONODE) changes nothing.
Check ==
    /\ Runs /\ worker = "run" /\ daemon_run /\ Rest
    /\ \/ /\ Valid
          /\ named' = (node # None)
          /\ UNCHANGED <<worker, zk, handle, alive, node, count>>
       \/ /\ Reconnects /\ UNCHANGED count
          /\ worker' = "connect" /\ zk' = "init" /\ Closed
       \/ /\ Valid /\ Loses
          /\ worker' = "connect" /\ zk' = "init" /\ Closed

\* disconnect_zookeeper, and the end of the process.
Disconnect ==
    /\ Runs /\ worker = "leave" /\ Rest
    /\ worker' = "exited"
    /\ \/ /\ Valid
          /\ node' = None /\ named' = FALSE
          /\ handle' = None /\ alive' = alive \ {handle}
          /\ UNCHANGED count
       \/ /\ Valid /\ Loses
          /\ \/ Closed
             \/ node' = None /\ named' = FALSE /\ handle' = None /\ UNCHANGED alive
       \/ ~Valid /\ handle' = None /\ UNCHANGED <<alive, node, named, count>>
    /\ UNCHANGED zk

Register == ZkInit \/ Parents \/ Clear \/ Create \/ Set
Worker == SetHandlers \/ CellInit \/ LoopEnds \/ Register \/ Check \/ Disconnect

-----------------------------------------------------------------------------
(* ZooKeeper *)

\* A session ends when nothing is heard from its client for 15 seconds.
Expire(s) ==
    /\ s \in alive
    /\ IF s = handle THEN Use("fault") ELSE UNCHANGED count
    /\ alive' = alive \ {s}
    /\ node' = IF node = s THEN None ELSE node
    /\ named' = (named /\ node' # None)
    /\ UNCHANGED <<supVars, workVars, zk, handle>>

-----------------------------------------------------------------------------
Next ==
    \/ Ask \/ Alarm \/ Supervisor
    \/ Worker \/ Crash \/ Hang
    \/ \E s \in Sessions : Expire(s)

Spec == Init /\ [][Next]_vars

\* The supervisor and the worker run on, alarms go off, and sessions nobody
\* holds any more expire.
FairSpec ==
    /\ Spec
    /\ WF_vars(Supervisor) /\ WF_vars(Worker) /\ WF_vars(Alarm)
    /\ \A s \in Sessions : WF_vars(s # handle /\ Expire(s))

-----------------------------------------------------------------------------
Serving == worker = "run" /\ daemon_run /\ ~hung
Registered == handle # None /\ node = handle /\ named

\* A supervisor that was asked to end while it waited for its worker ends,
\* whether the worker is starting, running, hung, or crashes while it ends
\* -- unless an alarm goes off while it is not waiting, which it never learns of
\* (wait_for_process: the signals it escalates, and the alarm that outlives the worker).
StopEnds == told ~> (sup \in Over \/ missed)

\* A worker that ended although nobody asked is followed by one that serves
\* (cell.c:1061, "restarted at once"), unless the supervisor is asked to end, no
\* process can be made, or the new worker hangs, which nobody watches for.
Restarted ==
    (worker \in {"exited", "killed"} /\ ~told) ~> (Serving \/ told \/ hung \/ sup = "failed")

\* A worker that serves is found in ZooKeeper again after an expired session, a
\* connection lost while check_zookeeper looks at its node, and a crash of the
\* worker before it whose node was still there (check_zookeeper,
\* check_zookeeper_path).  It does not hold of a connection lost while
\* connect_zookeeper runs: the runs that check it set LossInConnect = FALSE.
StaysRegistered == Serving ~> (Registered \/ ~Serving)

\* The comment at cell_spawn_wait.c:36: a child its parent has killed is the
\* end, not the begin of the next.
KilledMeansStop == [][sig = "KILL" /\ worker = "killed" => sup' # "fork"]_sup
=============================================================================
