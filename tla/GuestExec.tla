----------------------------- MODULE GuestExec -----------------------------
(***************************************************************************)
(* Commands the plugin runs in a container: the handles of                 *)
(* src/src/subprocess.ts (a spawn of the harness, or a control spawn in    *)
(* the PTC container under an identity of its own) and the commands of     *)
(* runExec in src/src/guest-rpc.ts.                                        *)
(*                                                                         *)
(* A handle is one exec stream to the guest agent, which starts the        *)
(* process, tells its id, forwards its output and tells its exit.  A       *)
(* termination sends SIGTERM and arms a timer for SIGKILL; the id may not  *)
(* be known yet, the stream may break, and the consumer may pause it.      *)
(***************************************************************************)
EXTENDS Naturals, Sequences

CONSTANTS
  Handles,     \* numbered in the order of their spawns
  Kinds,       \* which of "spawn", "control" and "command" are spawned
  Uids,        \* the identities of the PTC pool
  MaxChunks    \* chunks of output of a process

ASSUME ExecAssumption ==
  Handles \subseteq Nat /\ Kinds \subseteq {"spawn", "control", "command"} /\ Uids \subseteq Nat \ {0} /\ MaxChunks \in Nat

VARIABLES
  handle,    \* the plugin's side of a handle
  process,   \* the guest's side
  wire,      \* the messages of the stream on their way to the plugin
  uidsInUse  \* PtcUidPool.inUse

execVars == <<handle, process, wire, uidsInUse>>

NoUid == 0

\* pid: the process id arrived; timer: the kill timer; late: it fired before.
IdleHandle ==
  [pc |-> "idle", kind |-> "spawn", uid |-> NoUid, pid |-> FALSE, stopped |-> FALSE,
   timer |-> "off", late |-> FALSE, paused |-> FALSE, heard |-> 0, outcome |-> "none"]
NoProcess == [at |-> "none", stubborn |-> FALSE, signal |-> "none", sent |-> 0, stream |-> "none"]

ExecInit ==
  /\ handle = [h \in Handles |-> IdleHandle]
  /\ process = [h \in Handles |-> NoProcess]
  /\ wire = [h \in Handles |-> <<>>]
  /\ uidsInUse = {}

Unsettled(h) == handle[h].outcome = "none"
Alive(h) == process[h].at \in {"starting", "running"}
Streaming(h) == process[h].stream = "open"

(***************************************************************************)
(* Spawning.                                                               *)
(***************************************************************************)
Lowest(S) == CHOOSE u \in S : \A v \in S : u <= v

FreeUntilOpen == Uids \ {handle[h].uid : h \in {g \in Handles : handle[g].pc = "open"}}
Free == Uids \ uidsInUse

\* A control spawn takes the lowest free identity, or is refused.
Spawn(h, kind) ==
  LET free == Free IN
  /\ handle[h].pc = "idle" /\ \A g \in Handles : g < h => handle[g].pc # "idle"
  /\ IF kind = "control"
       THEN \/ /\ free # {}
               /\ handle' = [handle EXCEPT ![h].pc = "binding", ![h].kind = kind, ![h].uid = Lowest(free)]
               /\ uidsInUse' = uidsInUse \cup {Lowest(free)}
            \/ /\ free = {}
               /\ handle' = [handle EXCEPT ![h].pc = "settled", ![h].kind = kind, ![h].outcome = "refused"]
               /\ UNCHANGED uidsInUse
       ELSE /\ handle' = [handle EXCEPT ![h].pc = "binding", ![h].kind = kind]
            /\ UNCHANGED uidsInUse
  /\ UNCHANGED <<process, wire>>

\* done settles: the identity goes back to the pool.
Released(h) == uidsInUse \ {handle[h].uid}

\* The binding is there; a control spawn asks first whether the agent has the
\* control transport, and a process is started in either case.
Bound(h) ==
  /\ handle[h].pc = "binding"
  /\ IF handle[h].kind = "control"
       THEN handle' = [handle EXCEPT ![h].pc = "probing"] /\ UNCHANGED process
       ELSE /\ handle' = [handle EXCEPT ![h].pc = "open"]
            /\ process' = [process EXCEPT ![h].at = "starting", ![h].stream = "open"]
  /\ UNCHANGED <<wire, uidsInUse>>

BindFails(h) ==
  /\ handle[h].pc = "binding"
  /\ handle' = [handle EXCEPT ![h].pc = "settled", ![h].outcome = "error"]
  /\ uidsInUse' = Released(h)
  /\ UNCHANGED <<process, wire>>

Probed(h) ==
  /\ handle[h].pc = "probing"
  /\ handle' = [handle EXCEPT ![h].pc = "open"]
  /\ process' = [process EXCEPT ![h].at = "starting", ![h].stream = "open"]
  /\ UNCHANGED <<wire, uidsInUse>>

(***************************************************************************)
(* The guest agent and the process.  A stubborn process ignores SIGTERM; a *)
(* stream that ends before the process kills its group.                    *)
(***************************************************************************)
Tell(h, message) == wire' = [wire EXCEPT ![h] = IF Streaming(h) THEN Append(@, message) ELSE @]

GuestStarts(h, stubborn) ==
  /\ process[h].at = "starting"
  /\ process' = [process EXCEPT ![h].at = "running", ![h].stubborn = stubborn]
  /\ Tell(h, "pid")
  /\ UNCHANGED <<handle, uidsInUse>>

GuestWrites(h) ==
  /\ process[h].at = "running" /\ Streaming(h)
  /\ process[h].sent < MaxChunks
  /\ process' = [process EXCEPT ![h].sent = @ + 1]
  /\ Tell(h, "out")
  /\ UNCHANGED <<handle, uidsInUse>>

GuestExits(h) ==
  /\ process[h].at = "running"
  /\ process' = [process EXCEPT ![h].at = "ended"]
  /\ Tell(h, "exit")
  /\ UNCHANGED <<handle, uidsInUse>>

MustEnd(h) ==
  \/ process[h].signal = "KILL"
  \/ process[h].signal = "TERM" /\ ~process[h].stubborn
  \/ process[h].stream = "cut"

GuestDies(h) == MustEnd(h) /\ GuestExits(h)

(***************************************************************************)
(* Termination, which the caller, its signal, a timeout or dispose asks.   *)
(***************************************************************************)
Signalled(h, signal) ==
  [process[h] EXCEPT !.signal = IF handle[h].pid /\ @ # "KILL" THEN signal ELSE @]

StoppedNoTimer(h) == [handle[h] EXCEPT !.stopped = TRUE]
Stopped(h) == [handle[h] EXCEPT !.stopped = TRUE, !.timer = IF @ = "off" THEN "armed" ELSE @]

TerminateReleases(h) ==
  /\ handle[h].pc \in {"binding", "probing", "open"} /\ handle[h].kind # "command"
  /\ handle' = [handle EXCEPT ![h] = Stopped(h)]
  /\ process' = [process EXCEPT ![h] = Signalled(h, "TERM")]
  /\ uidsInUse' = Released(h)
  /\ UNCHANGED wire

\* terminate() of a spawn: the handle settles only when the stream says so.
Terminate(h) ==
  /\ handle[h].pc \in {"binding", "probing", "open"} /\ handle[h].kind # "command"
  /\ handle' = [handle EXCEPT ![h] = Stopped(h)]
  /\ process' = [process EXCEPT ![h] = Signalled(h, "TERM")]
  /\ UNCHANGED <<wire, uidsInUse>>

\* The abort or the timeout of a command: it settles at once; what has no
\* process id yet is stopped by cancelling the stream.
Cancelled(h) == [Signalled(h, "TERM") EXCEPT !.stream = IF handle[h].pid THEN @ ELSE "cut"]

AbortCommand(h) ==
  /\ handle[h].pc = "open" /\ handle[h].kind = "command" /\ Unsettled(h)
  /\ handle' = [handle EXCEPT ![h] =
       [handle[h] EXCEPT !.stopped = TRUE, !.outcome = "aborted", !.timer = IF @ = "off" /\ handle[h].pid THEN "armed" ELSE @]]
  /\ process' = [process EXCEPT ![h] = Cancelled(h)]
  /\ wire' = [wire EXCEPT ![h] = IF handle[h].pid THEN @ ELSE <<>>]
  /\ UNCHANGED uidsInUse

\* The grace period is over.  A spawn without process id sends nothing, and
\* its timer is not armed again.
KillTimer(h) ==
  /\ handle[h].timer = "armed"
  /\ handle' = [handle EXCEPT ![h].timer = "fired", ![h].late = ~handle[h].pid]
  /\ process' = [process EXCEPT ![h] =
       [Signalled(h, "KILL") EXCEPT !.stream = IF handle[h].kind = "command" /\ @ = "open" THEN "cut" ELSE @]]
  /\ UNCHANGED <<wire, uidsInUse>>

(***************************************************************************)
(* What the stream brings.                                                 *)
(***************************************************************************)
\* finish and settle: once, with the timer of a spawn cleared.
Finished(h, r, outcome) ==
  IF r.outcome # "none" THEN r
  ELSE [r EXCEPT !.pc = "settled", !.outcome = outcome, !.paused = FALSE,
                 !.timer = IF r.kind # "command" /\ @ = "armed" THEN "cleared" ELSE @]

ReceivePid(h) ==
  /\ Head(wire[h]) = "pid"
  /\ handle' = [handle EXCEPT ![h].pid = TRUE]
  /\ process' = [process EXCEPT ![h].signal =
       IF handle[h].stopped /\ handle[h].kind # "command" THEN "TERM" ELSE @]
  /\ UNCHANGED uidsInUse

ReceiveOutputLossy(h) ==
  /\ Head(wire[h]) = "out"
  /\ \E pause \in BOOLEAN :
       /\ pause => handle[h].kind # "command" /\ Unsettled(h)
       /\ handle' = [handle EXCEPT ![h].heard = @ + (IF pause THEN 0 ELSE 1), ![h].paused = pause]
  /\ UNCHANGED <<process, uidsInUse>>

\* A consumer that falls behind pauses the stream.
ReceiveOutput(h) ==
  /\ Head(wire[h]) = "out"
  /\ \E pause \in BOOLEAN :
       /\ pause => handle[h].kind # "command" /\ Unsettled(h)
       /\ handle' = [handle EXCEPT ![h].heard = @ + 1, ![h].paused = pause]
  /\ UNCHANGED <<process, uidsInUse>>

ReceiveExit(h) ==
  /\ Head(wire[h]) = "exit"
  /\ handle' = [handle EXCEPT ![h] =
       [Finished(h, handle[h], "exit") EXCEPT !.timer = IF @ = "armed" THEN "cleared" ELSE @]]
  /\ process' = [process EXCEPT ![h].stream = "closed"]
  /\ uidsInUse' = Released(h)

Receive(h) ==
  /\ Streaming(h) /\ ~handle[h].paused /\ wire[h] # <<>>
  /\ wire' = [wire EXCEPT ![h] = Tail(@)]
  /\ ReceivePid(h) \/ ReceiveOutput(h) \/ ReceiveExit(h)

Drain(h) ==
  /\ handle[h].paused
  /\ handle' = [handle EXCEPT ![h].paused = FALSE]
  /\ UNCHANGED <<process, wire, uidsInUse>>

\* The stream breaks, or ends without an exit: the process is told to stop, and
\* the caller is released.
StreamBreaks(h) ==
  /\ Streaming(h)
  /\ handle' = [handle EXCEPT ![h] =
       Finished(h, IF handle[h].kind = "command" THEN @ ELSE Stopped(h), "error")]
  /\ process' = [process EXCEPT ![h] = [IF handle[h].kind = "command" THEN @ ELSE Signalled(h, "TERM")
                                          EXCEPT !.stream = "cut"]]
  /\ wire' = [wire EXCEPT ![h] = <<>>]
  /\ uidsInUse' = Released(h)

ExecStep(h) ==
  \/ Bound(h) \/ BindFails(h) \/ Probed(h)
  \/ GuestDies(h) \/ KillTimer(h) \/ Receive(h) \/ Drain(h)

ExecNext ==
  \E h \in Handles :
    \/ \E kind \in Kinds : Spawn(h, kind)
    \/ ExecStep(h)
    \/ \E stubborn \in BOOLEAN : GuestStarts(h, stubborn)
    \/ GuestWrites(h) \/ GuestExits(h)
    \/ Terminate(h) \/ AbortCommand(h) \/ StreamBreaks(h)

ExecSpec == ExecInit /\ [][ExecNext]_execVars

\* Promises settle, timers fire, consumers read, the agent starts what it was
\* asked to start, and a process that must end does.  A handle takes finitely
\* many of these steps, so one fairness condition on them all is enough.
ExecFairness ==
  \A h \in Handles : WF_execVars(ExecStep(h) \/ \E stubborn \in BOOLEAN : GuestStarts(h, stubborn))

(***************************************************************************)
(* Properties                                                              *)
(***************************************************************************)

\* Shapes of the handles and of what the guest knows of them.
ExecTypeOK ==
  /\ handle \in [Handles ->
       [pc : {"idle", "binding", "probing", "open", "settled"}, kind : {"spawn", "control", "command"}, uid : Uids \cup {NoUid},
        pid : BOOLEAN, stopped : BOOLEAN, timer : {"off", "armed", "fired", "cleared"}, late : BOOLEAN,
        paused : BOOLEAN, heard : 0..MaxChunks, outcome : {"none", "exit", "error", "aborted", "refused"}]]
  /\ process \in [Handles ->
       [at : {"none", "starting", "running", "ended"}, stubborn : BOOLEAN, signal : {"none", "TERM", "KILL"},
        sent : 0..MaxChunks, stream : {"none", "open", "cut", "closed"}]]
  /\ wire \in [Handles -> Seq({"pid", "out", "exit"})]
  /\ uidsInUse \subseteq Uids

\* Two processes of the PTC container never run under one identity, unless the
\* stream of one broke and its agent has yet to notice.
UidExclusive ==
  \A h, g \in Handles :
    h # g /\ Alive(h) /\ Alive(g) /\ handle[h].uid = handle[g].uid /\ handle[h].uid # NoUid =>
      process[h].stream = "cut" \/ process[g].stream = "cut"

\* An exit is told when the process has ended, and after all of its output,
\* however the consumer paused the stream and whatever was terminated.
ExitAfterOutput ==
  \A h \in Handles : handle[h].outcome = "exit" =>
    process[h].at = "ended" /\ handle[h].heard = process[h].sent

\* A handle that was stopped does not leave its process behind, also one that
\* ignores SIGTERM: unless the kill timer of a spawn fired before its process
\* id was known.
StoppedEnds == []<>(\A h \in Handles : handle[h].stopped /\ ~handle[h].late => ~Alive(h))

\* Once its process has ended, or its stream is gone, a handle settles: no
\* pause and no termination leaves the caller waiting.
EndSettles == []<>(\A h \in Handles : process[h].at = "ended" \/ process[h].stream = "cut" => ~Unsettled(h))

\* The identity pool, as its users see it: an identity belongs to the handles
\* that have it and have not settled.
Pool == INSTANCE ExclusiveUse WITH
  Resources <- Uids, Users <- Handles,
  users <- [u \in Uids |-> {h \in Handles : handle[h].uid = u /\ Unsettled(h)}]
PoolExclusive == Pool!UseSpec
=============================================================================
