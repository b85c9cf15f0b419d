---------------------------- MODULE GuestDaemons ----------------------------
(***************************************************************************)
(* The daemons of a container (internal/guestagent/daemon/daemon.go and    *)
(* its handlers, grpcserver/daemons.go): a table of background processes   *)
(* that calls start, stop, restart and stop all together, while the        *)
(* processes end by themselves.                                            *)
(*                                                                         *)
(* The table is read and written under a mutex; a stop signals and waits   *)
(* outside of it, and a start, which replaces a running daemon of its      *)
(* name, and a restart are a look, a stop and the launch of a process,     *)
(* between which other calls and evictions come.                           *)
(***************************************************************************)
EXTENDS Naturals, FiniteSets

CONSTANTS
  DaemonCalls,   \* the calls; the daemon a call starts bears its name
  DaemonNames,   \* the names daemons are started under
  DaemonOps,     \* the operations a call may be of
  MaxDaemons,    \* maxDaemons: how many daemons the table holds
  NoDaemon

DaemonOperations == {"start", "stop", "restart", "stop_all"}

ASSUME DaemonsAssumption ==
  /\ DaemonOps \in [DaemonCalls -> SUBSET DaemonOperations]
  /\ MaxDaemons \in Nat \ {0}
  /\ NoDaemon \notin DaemonCalls

VARIABLES
  table,        \* Manager.daemons: the daemon of each name
  daemon,       \* the daemons: what the manager records, and the processes
  daemonCall,   \* the calls of StartDaemon, StopDaemon, RestartDaemon and StopAllDaemons
  stopping      \* the execution of Manager.Stop for each call and name

daemonVars == <<table, daemon, daemonCall, stopping>>

\* running is info.Running.  group: the process that was started, or another
\* one of its process group that holds its output.  strays: processes that left
\* the group and hold its output.  cmd.Wait waits for all of these; no signal to
\* the group reaches a stray.  A process of the group that gave the output up is
\* waited for by nobody.
NeverStarted == [name |-> "", running |-> FALSE, group |-> "none", strays |-> "none"]

\* ran is history: the daemons that ran when the call came to stop them.
NewDaemonCall == [op |-> "start", name |-> "", phase |-> "idle", ran |-> {}]
NotStopping == [phase |-> "off", of |-> NoDaemon]

DaemonsInit ==
  /\ table = [n \in DaemonNames |-> NoDaemon]
  /\ daemon = [d \in DaemonCalls |-> NeverStarted]
  /\ daemonCall = [c \in DaemonCalls |-> NewDaemonCall]
  /\ stopping = [c \in DaemonCalls |-> [n \in DaemonNames |-> NotStopping]]

-----------------------------------------------------------------------------
TrackedIn(names) == {n \in DaemonNames : names[n] # NoDaemon}
IsRunning(n) == table[n] # NoDaemon /\ daemon[table[n]].running
RunningAs(n) == IF IsRunning(n) THEN {table[n]} ELSE {}
Stoppable == {n \in TrackedIn(table) : ~daemon[table[n]].running}

\* Mutant: a full table forgets a daemon without asking whether it runs.
EvictedAny == IF Cardinality(TrackedIn(table)) < MaxDaemons
                THEN {table}
              ELSE {[table EXCEPT ![n] = NoDaemon] : n \in TrackedIn(table)}

\* evictStoppedLocked: when the table is full a stopped daemon is forgotten,
\* the one that stopped first; stops within a second are in no order.
Evicted == IF Cardinality(TrackedIn(table)) < MaxDaemons \/ Stoppable = {}
             THEN {table}
           ELSE {[table EXCEPT ![n] = NoDaemon] : n \in Stoppable}

DaemonPhase(c, p) == daemonCall' = [daemonCall EXCEPT ![c].phase = p]

(***************************************************************************)
(* Start: one critical section, with the eviction.  A program that does    *)
(* not start leaves what was evicted forgotten; negative identities        *)
(* and a home that cannot be made are refused before it.                   *)
(***************************************************************************)
StartLocked(c, n) ==
  \/ DaemonPhase(c, "failed") /\ UNCHANGED <<table, daemon>>
  \/ IsRunning(n) /\ DaemonPhase(c, "refused") /\ UNCHANGED <<table, daemon>>
  \/ /\ ~IsRunning(n)
     /\ \E room \in Evicted :
          \/ /\ Cardinality(TrackedIn(room)) >= MaxDaemons
             /\ table' = room
             /\ DaemonPhase(c, "refused") /\ UNCHANGED daemon
          \/ /\ Cardinality(TrackedIn(room)) < MaxDaemons
             /\ table' = room
             /\ DaemonPhase(c, "failed") /\ UNCHANGED daemon
          \/ /\ Cardinality(TrackedIn(room)) < MaxDaemons
             /\ table' = [room EXCEPT ![n] = c]
             /\ daemon' = [daemon EXCEPT ![c] = [name |-> n, running |-> TRUE, group |-> "up", strays |-> "none"]]
             /\ DaemonPhase(c, "done")

\* The handler looks the name up before it stops and launches.
StartDaemon(c, n) ==
  /\ daemonCall[c].phase = "idle" /\ "start" \in DaemonOps[c]
  /\ daemonCall' = [daemonCall EXCEPT ![c] = [op |-> "start", name |-> n, phase |-> "stops", ran |-> RunningAs(n)]]
  /\ stopping' = IF IsRunning(n) THEN [stopping EXCEPT ![c][n].phase = "look"] ELSE stopping
  /\ UNCHANGED <<table, daemon>>

(***************************************************************************)
(* Stop: looks the name up, signals the group of what it found, and waits  *)
(* outside of the mutex for the record to say that it stopped; after the   *)
(* grace it kills the group and waits as long again.                       *)
(***************************************************************************)
StopDaemon(c, n) ==
  /\ daemonCall[c].phase = "idle" /\ "stop" \in DaemonOps[c]
  /\ daemonCall' = [daemonCall EXCEPT ![c] = [op |-> "stop", name |-> n, phase |-> "stops", ran |-> RunningAs(n)]]
  /\ stopping' = [stopping EXCEPT ![c][n].phase = "look"]
  /\ UNCHANGED <<table, daemon>>

StopLooks(c, n) ==
  /\ stopping[c][n].phase = "look"
  /\ stopping' = [stopping EXCEPT ![c][n] =
       IF table[n] = NoDaemon THEN [phase |-> "unknown", of |-> NoDaemon]
       ELSE IF IsRunning(n) THEN [phase |-> "waits", of |-> table[n]]
       ELSE [phase |-> "over", of |-> NoDaemon]]
  /\ UNCHANGED <<table, daemon, daemonCall>>

\* waitForStop
StopSees(c, n) ==
  /\ stopping[c][n].phase \in {"waits", "killed"} /\ ~daemon[stopping[c][n].of].running
  /\ stopping' = [stopping EXCEPT ![c][n].phase = "over"]
  /\ UNCHANGED <<table, daemon, daemonCall>>

GraceEnds(c, n) ==
  /\ stopping[c][n].phase = "waits"
  /\ daemon' = [daemon EXCEPT ![stopping[c][n].of].group = "gone"]
  /\ stopping' = [stopping EXCEPT ![c][n].phase = "killed"]
  /\ UNCHANGED <<table, daemonCall>>

\* A killed group is waited for well within the second grace, unless strays
\* hold its output.
SecondGraceEnds(c, n) ==
  /\ stopping[c][n].phase = "killed" /\ daemon[stopping[c][n].of].strays = "up"
  /\ stopping' = [stopping EXCEPT ![c][n].phase = "over"]
  /\ UNCHANGED <<table, daemon, daemonCall>>

Through(c) == \A n \in DaemonNames : stopping[c][n].phase \in {"off", "over", "unknown"}
UnknownTo(c) == \E n \in DaemonNames : stopping[c][n].phase = "unknown"

StopReturns(c) ==
  /\ daemonCall[c].op = "stop" /\ daemonCall[c].phase = "stops" /\ Through(c)
  /\ DaemonPhase(c, IF UnknownTo(c) THEN "refused" ELSE "done")
  /\ UNCHANGED <<table, daemon, stopping>>

(***************************************************************************)
(* Restart.  Stop looks the name up again, and Start once more.            *)
(***************************************************************************)
RestartDaemon(c, n) ==
  /\ daemonCall[c].phase = "idle" /\ "restart" \in DaemonOps[c]
  /\ IF table[n] = NoDaemon
       THEN DaemonPhase(c, "refused") /\ UNCHANGED stopping
     ELSE /\ daemonCall' = [daemonCall EXCEPT ![c] = [op |-> "restart", name |-> n, phase |-> "stops", ran |-> RunningAs(n)]]
          /\ stopping' = IF IsRunning(n) THEN [stopping EXCEPT ![c][n].phase = "look"] ELSE stopping
  /\ UNCHANGED <<table, daemon>>

\* The second half of a start and of a restart.
Launches(c) ==
  /\ daemonCall[c].op \in {"start", "restart"} /\ daemonCall[c].phase = "stops" /\ Through(c)
  /\ IF UnknownTo(c) THEN DaemonPhase(c, "refused") /\ UNCHANGED <<table, daemon>>
     ELSE StartLocked(c, daemonCall[c].name)
  /\ UNCHANGED stopping

(***************************************************************************)
(* StopAllDaemons, the shutdown of the container: the terminals first,     *)
(* one after the other, and then the daemons that run, each by a Stop of   *)
(* its own at once with the others.                                        *)
(***************************************************************************)
StopAllDaemons(c) ==
  /\ daemonCall[c].phase = "idle" /\ "stop_all" \in DaemonOps[c]
  /\ daemonCall' = [daemonCall EXCEPT ![c].op = "stop_all", ![c].phase = "terminals",
                                      ![c].ran = {d \in DaemonCalls : daemon[d].running}]
  /\ UNCHANGED <<table, daemon, stopping>>

StopAllLists(c) ==
  /\ daemonCall[c].op = "stop_all" /\ daemonCall[c].phase = "terminals"
  /\ DaemonPhase(c, "stops")
  /\ stopping' = [stopping EXCEPT ![c] =
       [n \in DaemonNames |-> IF IsRunning(n) THEN [phase |-> "look", of |-> NoDaemon] ELSE NotStopping]]
  /\ UNCHANGED <<table, daemon>>

\* The errors of the single stops are dropped.
StopAllReturns(c) ==
  /\ daemonCall[c].op = "stop_all" /\ daemonCall[c].phase = "stops" /\ Through(c)
  /\ DaemonPhase(c, "done")
  /\ UNCHANGED <<table, daemon, stopping>>

(***************************************************************************)
(* The processes, and wait, which records their end.                       *)
(***************************************************************************)
\* By itself, or because it obeys SIGTERM.
GroupEnds(d) ==
  /\ daemon[d].group = "up"
  /\ daemon' = [daemon EXCEPT ![d].group = "gone"]
  /\ UNCHANGED <<table, daemonCall, stopping>>

Strays(d) ==
  /\ \/ daemon[d].group = "up" /\ daemon[d].strays = "none" /\ daemon' = [daemon EXCEPT ![d].strays = "up"]
     \/ daemon[d].strays = "up" /\ daemon' = [daemon EXCEPT ![d].strays = "gone"]
  /\ UNCHANGED <<table, daemonCall, stopping>>

WaitReturns(d) ==
  /\ daemon[d].running /\ daemon[d].group = "gone" /\ daemon[d].strays # "up"
  /\ daemon' = [daemon EXCEPT ![d].running = FALSE]
  /\ UNCHANGED <<table, daemonCall, stopping>>

DaemonCallStep(c) ==
  \/ \E n \in DaemonNames : StopLooks(c, n) \/ StopSees(c, n) \/ GraceEnds(c, n) \/ SecondGraceEnds(c, n)
  \/ StopReturns(c) \/ Launches(c) \/ StopAllLists(c) \/ StopAllReturns(c)

DaemonsNext ==
  \E c \in DaemonCalls :
    \/ \E n \in DaemonNames : StartDaemon(c, n) \/ StopDaemon(c, n) \/ RestartDaemon(c, n)
    \/ StopAllDaemons(c) \/ DaemonCallStep(c)
    \/ GroupEnds(c) \/ Strays(c) \/ WaitReturns(c)

\* The scheduler and the clock go on, and the kernel reports an end.
DaemonsFairness == \A c \in DaemonCalls : WF_daemonVars(DaemonCallStep(c)) /\ WF_daemonVars(WaitReturns(c))

DaemonsSpec == DaemonsInit /\ [][DaemonsNext]_daemonVars /\ DaemonsFairness

-----------------------------------------------------------------------------
\* The table, the daemons, the calls and their stops are of the shapes the
\* code gives them.
DaemonsTypeOK ==
  /\ table \in [DaemonNames -> DaemonCalls \cup {NoDaemon}]
  /\ daemon \in [DaemonCalls -> [name : DaemonNames \cup {""}, running : BOOLEAN,
                                 group : {"none", "up", "gone"}, strays : {"none", "up", "gone"}]]
  /\ daemonCall \in [DaemonCalls -> [op : DaemonOperations, name : DaemonNames \cup {""},
                                     phase : {"idle", "terminals", "stops", "done", "refused", "failed"},
                                     ran : SUBSET DaemonCalls]]
  /\ stopping \in [DaemonCalls -> [DaemonNames ->
       [phase : {"off", "look", "waits", "killed", "over", "unknown"}, of : DaemonCalls \cup {NoDaemon}]]]

\* A daemon whose process runs, or whose end is not recorded, is the one of its
\* name in the table, so that it can be listed and stopped; the table keeps its
\* bound; and a call that has stopped or replaced a daemon leaves nothing of the
\* group it found running, although it may have found another daemon of that
\* name meanwhile (Manager.Start, evictStoppedLocked, Stop, StopAll).
DaemonsAccounted ==
  /\ \A d \in DaemonCalls :
       daemon[d].group = "up" \/ daemon[d].running => daemon[d].name \in DaemonNames /\ table[daemon[d].name] = d
  /\ Cardinality(TrackedIn(table)) <= MaxDaemons
  /\ \A c \in DaemonCalls : daemonCall[c].phase = "done" =>
       \A d \in daemonCall[c].ran : daemon[d].group = "gone"

\* A start, a stop, a restart and the shutdown of the container return, whatever
\* the processes do (waitForStop).
DaemonCallsEnd == []<>(\A c \in DaemonCalls : daemonCall[c].phase \notin {"terminals", "stops"})

=============================================================================
