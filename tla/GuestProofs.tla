---------------------------- MODULE GuestProofs ----------------------------
(***************************************************************************)
(* What holds inside a container.  Of GuestExec for any number of handles, *)
(* identities and chunks: its types, an identity of the PTC pool has one   *)
(* user at a time, which is the refinement of ExclusiveUse, no two         *)
(* processes run under one, and the exit of a process comes after its      *)
(* whole output.  Of GuestDaemons for any number of calls, of names and of *)
(* daemons in the table: its types, and what the table says of the         *)
(* daemons.  Of GuestFiles for any number of calls, sessions and versions: *)
(* its types, the mutual exclusion of the mutations of a path, and the     *)
(* read-before-write guard.                                                *)
(***************************************************************************)
EXTENDS GuestExec, GuestDaemons, GuestFiles, FiniteSetTheorems, TLAPS

-----------------------------------------------------------------------------
(* GuestExec: the identities of the pool.                                  *)

HandleOutcomes == {"none", "exit", "error", "aborted", "refused"}
HandleType ==
  [pc : {"idle", "binding", "probing", "open", "settled"}, kind : {"spawn", "control", "command"},
   uid : Uids \cup {NoUid}, pid : BOOLEAN, stopped : BOOLEAN, timer : {"off", "armed", "fired", "cleared"},
   late : BOOLEAN, paused : BOOLEAN, heard : Nat, outcome : HandleOutcomes]
ProcessType ==
  [at : {"none", "starting", "running", "ended"}, stubborn : BOOLEAN, signal : {"none", "TERM", "KILL"},
   sent : Nat, stream : {"none", "open", "cut", "closed"}]
Messages == {"pid", "out", "exit"}

ExecShape ==
  /\ handle \in [Handles -> HandleType]
  /\ process \in [Handles -> ProcessType]
  /\ wire \in [Handles -> Seq(Messages)]
  /\ uidsInUse \subseteq Uids

-----------------------------------------------------------------------------
(* The lowest free identity is a free one.                                 *)

LEMMA LowestIsMember ==
  ASSUME NEW S, S \subseteq Nat, S # {}
  PROVE  Lowest(S) \in S
PROOF
<1>1. IsWellFoundedOn(OpToRel(<, Nat), Nat) BY NatLessThanWellFounded
<1>2. PICK x \in S : \A y \in S : <<y, x>> \notin OpToRel(<, Nat) BY <1>1, WFMin
<1>3. \A y \in S : ~(y < x) BY <1>2 DEF OpToRel
<1>4. \A y \in S : x <= y BY <1>3
<1> QED BY <1>4 DEF Lowest

-----------------------------------------------------------------------------
(* What a step of one handle may do to the others, and to the pool.        *)

\* The facts of a handle that the pool rests on.
Local(h) ==
  /\ handle[h].uid # NoUid => handle[h].kind = "control"
  /\ handle[h].uid # NoUid /\ Streaming(h) => Unsettled(h)
  /\ Alive(h) => process[h].stream \in {"open", "cut"}
  /\ handle[h].pc = "idle" => handle[h].uid = NoUid /\ handle[h].timer = "off" /\ ~handle[h].paused
  /\ handle[h].pc \in {"idle", "binding", "probing"} =>
       Unsettled(h) /\ process[h].at = "none" /\ process[h].stream = "none"
  /\ \A i \in 1..Len(wire[h]) : wire[h][i] = "exit" => process[h].at = "ended"

OtherHandles(h) ==
  \A g \in Handles : g # h => handle'[g] = handle[g] /\ process'[g] = process[g] /\ wire'[g] = wire[g]

\* An identity stays with its handle, and goes back when the handle settles.
Contract(h) ==
  /\ ExecShape' /\ OtherHandles(h) /\ Local(h)'
  /\ handle'[h].uid = handle[h].uid
  /\ \/ handle'[h].outcome = handle[h].outcome /\ uidsInUse' = uidsInUse
     \/ handle'[h].outcome = handle[h].outcome /\ handle[h].uid = NoUid /\ uidsInUse' = Released(h)
     \/ Unsettled(h) /\ handle'[h].outcome # "none" /\ uidsInUse' = Released(h)
     \/ Unsettled(h) /\ handle'[h].outcome # "none" /\ uidsInUse' = uidsInUse /\ handle[h].uid = NoUid

\* A step that assigns the records of one handle.
LEMMA RecordsAssigned ==
  ASSUME ExecShape, NEW h \in Handles, NEW r \in HandleType, NEW p \in ProcessType, NEW w \in Seq(Messages),
         handle' = [handle EXCEPT ![h] = r], process' = [process EXCEPT ![h] = p],
         wire' = [wire EXCEPT ![h] = w], uidsInUse' \subseteq Uids
  PROVE  /\ ExecShape' /\ OtherHandles(h)
         /\ handle'[h] = r /\ process'[h] = p /\ wire'[h] = w
PROOF BY DEF ExecShape, OtherHandles

\* An unchanged function is one that assigns what it held.
LEMMA Reassigned ==
  ASSUME ExecShape, NEW h \in Handles
  PROVE  /\ handle = [handle EXCEPT ![h] = handle[h]] /\ handle[h] \in HandleType
         /\ process = [process EXCEPT ![h] = process[h]] /\ process[h] \in ProcessType
         /\ wire = [wire EXCEPT ![h] = wire[h]] /\ wire[h] \in Seq(Messages)
         /\ Released(h) \subseteq Uids
PROOF BY DEF ExecShape, Released

\* What the stream is told: nothing but what was told, and the message.
LEMMA StreamTold ==
  ASSUME ExecShape, NEW h \in Handles, NEW m \in Messages, Tell(h, m)
  PROVE  \E w \in Seq(Messages) :
           /\ wire' = [wire EXCEPT ![h] = w]
           /\ w = wire[h] \/ (/\ Streaming(h) /\ Len(w) = Len(wire[h]) + 1
                              /\ w[Len(w)] = m
                              /\ \A i \in 1..Len(wire[h]) : w[i] = wire[h][i])
PROOF
<1>1. wire[h] \in Seq(Messages) BY DEF ExecShape
<1>2. CASE Streaming(h)
  <2> DEFINE w == Append(wire[h], m)
  <2>1. w \in Seq(Messages) /\ Len(w) = Len(wire[h]) + 1 BY <1>1
  <2>2. w[Len(w)] = m BY <1>1
  <2>3. \A i \in 1..Len(wire[h]) : w[i] = wire[h][i] BY <1>1
  <2>4. wire' = [wire EXCEPT ![h] = w] BY <1>2 DEF Tell, ExecShape
  <2> QED BY <1>2, <2>1, <2>2, <2>3, <2>4
<1>3. CASE ~Streaming(h)
  <2>1. wire' = [wire EXCEPT ![h] = wire[h]] BY <1>3 DEF Tell
  <2> QED BY <1>1, <2>1
<1> QED BY <1>2, <1>3

\* The actions of the guest.
LEMMA GuestKeepsContract ==
  ASSUME ExecShape, NEW h \in Handles, Local(h),
         \/ \E stubborn \in BOOLEAN : GuestStarts(h, stubborn)
         \/ GuestWrites(h)
         \/ GuestExits(h)
  PROVE  Contract(h)
PROOF
<1>t. handle[h] \in HandleType /\ process[h] \in ProcessType /\ wire[h] \in Seq(Messages)
  BY DEF ExecShape
<1>h. handle' = [handle EXCEPT ![h] = handle[h]] /\ uidsInUse' = uidsInUse
  BY DEF GuestStarts, GuestWrites, GuestExits, ExecShape
<1>u. uidsInUse' \subseteq Uids BY <1>h DEF ExecShape
<1>r. ASSUME NEW p \in ProcessType, process' = [process EXCEPT ![h] = p], NEW m \in Messages, Tell(h, m),
             p.stream = process[h].stream, p.at \in {"running", "ended"},
             process[h].at \in {"starting", "running"}, m = "exit" => p.at = "ended"
      PROVE  Contract(h)
  <2>1. PICK w \in Seq(Messages) :
           /\ wire' = [wire EXCEPT ![h] = w]
           /\ w = wire[h] \/ (/\ Streaming(h) /\ Len(w) = Len(wire[h]) + 1
                              /\ w[Len(w)] = m
                              /\ \A i \in 1..Len(wire[h]) : w[i] = wire[h][i])
    BY <1>r, StreamTold
  <2>2. ExecShape' /\ OtherHandles(h) /\ handle'[h] = handle[h] /\ process'[h] = p /\ wire'[h] = w
    BY <1>t, <1>h, <1>u, <1>r, <2>1, RecordsAssigned, ZenonT(40)
  <2>3. \A i \in 1..Len(w) : w[i] = "exit" => p.at = "ended"
    <3>1. CASE m = "exit" BY <3>1, <1>r
    <3>2. CASE m # "exit"
      <4>1. \A i \in 1..Len(wire[h]) : wire[h][i] # "exit" BY <1>r DEF Local
      <4>2. CASE w = wire[h] BY <4>1, <4>2
      <4>3. CASE /\ Len(w) = Len(wire[h]) + 1
                 /\ w[Len(w)] = m
                 /\ \A i \in 1..Len(wire[h]) : w[i] = wire[h][i]
        <5> SUFFICES ASSUME NEW i \in 1..Len(w), w[i] = "exit" PROVE FALSE
          OBVIOUS
        <5>1. i # Len(w) BY <3>2, <4>3
        <5>2. i \in 1..Len(wire[h]) BY <5>1, <4>3, <1>t
        <5> QED BY <5>2, <4>1, <4>3
      <4> QED BY <2>1, <4>2, <4>3
    <3> QED BY <3>1, <3>2
  <2>4. Local(h)'
    <3>1. handle[h].uid # NoUid => handle[h].kind = "control" BY DEF Local
    <3>2. handle[h].uid # NoUid /\ p.stream = "open" => handle[h].outcome = "none"
      BY <1>r DEF Local, Streaming, Unsettled
    <3>3. p.stream \in {"open", "cut"} BY <1>r DEF Local, Alive
    <3>4. handle[h].pc \notin {"idle", "binding", "probing"} BY <1>r DEF Local
    <3> QED BY <2>2, <2>3, <3>1, <3>2, <3>3, <3>4 DEF Local, Streaming, Unsettled, Alive
  <2> QED BY <2>2, <2>4, <1>h DEF Contract
<1>1. ASSUME NEW stubborn \in BOOLEAN, GuestStarts(h, stubborn) PROVE Contract(h)
  <2> DEFINE p == [process[h] EXCEPT !.at = "running", !.stubborn = stubborn]
  <2>1. p \in ProcessType /\ p.stream = process[h].stream /\ p.at = "running" BY <1>t DEF ProcessType
  <2>2. process' = [process EXCEPT ![h] = p] /\ Tell(h, "pid") /\ process[h].at = "starting"
    BY <1>1, <1>t DEF GuestStarts, ProcessType, ExecShape
  <2> QED BY <2>1, <2>2, <1>r DEF Messages
<1>2. CASE GuestWrites(h)
  <2> DEFINE p == [process[h] EXCEPT !.sent = @ + 1]
  <2>1. p \in ProcessType /\ p.stream = process[h].stream /\ p.at = process[h].at BY <1>t DEF ProcessType
  <2>2. process' = [process EXCEPT ![h] = p] /\ Tell(h, "out") /\ process[h].at = "running"
    BY <1>2, <1>t DEF GuestWrites, ProcessType, ExecShape
  <2> QED BY <2>1, <2>2, <1>r DEF Messages
<1>3. CASE GuestExits(h)
  <2> DEFINE p == [process[h] EXCEPT !.at = "ended"]
  <2>1. p \in ProcessType /\ p.stream = process[h].stream /\ p.at = "ended" BY <1>t DEF ProcessType
  <2>2. process' = [process EXCEPT ![h] = p] /\ Tell(h, "exit") /\ process[h].at = "running"
    BY <1>3, <1>t DEF GuestExits, ProcessType, ExecShape
  <2> QED BY <2>1, <2>2, <1>r DEF Messages
<1> QED BY <1>1, <1>2, <1>3

\* What the plugin's side owes for the records it leaves.
LEMMA AssignedContract ==
  ASSUME ExecShape, NEW h \in Handles, Local(h),
         NEW r \in HandleType, NEW p \in ProcessType, NEW w \in Seq(Messages),
         handle' = [handle EXCEPT ![h] = r], process' = [process EXCEPT ![h] = p],
         wire' = [wire EXCEPT ![h] = w],
         r.uid = handle[h].uid, r.kind = handle[h].kind, r.pc # "idle",
         \/ r.outcome = handle[h].outcome /\ uidsInUse' = uidsInUse
         \/ r.outcome = handle[h].outcome /\ handle[h].uid = NoUid /\ uidsInUse' = Released(h)
         \/ Unsettled(h) /\ r.outcome # "none" /\ uidsInUse' = Released(h)
         \/ Unsettled(h) /\ r.outcome # "none" /\ uidsInUse' = uidsInUse /\ handle[h].uid = NoUid,
         r.uid # NoUid /\ p.stream = "open" => r.outcome = "none",
         p.at \in {"starting", "running"} => p.stream \in {"open", "cut"},
         r.pc \in {"binding", "probing"} => r.outcome = "none" /\ p.at = "none" /\ p.stream = "none",
         \A i \in 1..Len(w) : w[i] = "exit" => p.at = "ended"
  PROVE  Contract(h)
PROOF
<1>1. uidsInUse' \subseteq Uids BY DEF ExecShape, Released
<1>2. ExecShape' /\ OtherHandles(h) /\ handle'[h] = r /\ process'[h] = p /\ wire'[h] = w
  BY <1>1, RecordsAssigned, ZenonT(40)
<1>3. r.uid # NoUid => r.kind = "control" BY DEF Local
<1>4. Local(h)' BY <1>2, <1>3 DEF Local, Streaming, Unsettled, Alive
<1> QED BY <1>2, <1>4 DEF Contract

\* The parts of Local, field by field.
LEMMA LocalFacts ==
  ASSUME ExecShape, NEW h \in Handles, Local(h)
  PROVE  /\ handle[h] \in HandleType /\ process[h] \in ProcessType /\ wire[h] \in Seq(Messages)
         /\ handle[h].uid # NoUid => handle[h].kind = "control"
         /\ handle[h].uid # NoUid /\ process[h].stream = "open" => handle[h].outcome = "none"
         /\ process[h].at \in {"starting", "running"} => process[h].stream \in {"open", "cut"}
         /\ handle[h].pc \in {"idle", "binding", "probing"} =>
              handle[h].outcome = "none" /\ process[h].at = "none" /\ process[h].stream = "none"
         /\ \A i \in 1..Len(wire[h]) : wire[h][i] = "exit" => process[h].at = "ended"
PROOF BY DEF ExecShape, Local, Streaming, Unsettled, Alive

LEMMA StartKeepsContract ==
  ASSUME ExecShape, NEW h \in Handles, Local(h), Bound(h) \/ BindFails(h) \/ Probed(h)
  PROVE  Contract(h)
PROOF
<1>t. /\ handle[h] \in HandleType /\ process[h] \in ProcessType /\ wire[h] \in Seq(Messages)
      /\ handle[h].pc \in {"idle", "binding", "probing"} =>
              handle[h].outcome = "none" /\ process[h].at = "none" /\ process[h].stream = "none"
      /\ \A i \in 1..Len(wire[h]) : wire[h][i] = "exit" => process[h].at = "ended"
  BY LocalFacts
<1>r. /\ handle = [handle EXCEPT ![h] = handle[h]] /\ process = [process EXCEPT ![h] = process[h]]
      /\ wire = [wire EXCEPT ![h] = wire[h]]
  BY Reassigned
<1> DEFINE started == [process[h] EXCEPT !.at = "starting", !.stream = "open"]
           opened == [handle[h] EXCEPT !.pc = "open"]
           probing == [handle[h] EXCEPT !.pc = "probing"]
           failed == [handle[h] EXCEPT !.pc = "settled", !.outcome = "error"]
<1>s. started \in ProcessType /\ started.at = "starting" /\ started.stream = "open" BY <1>t DEF ProcessType
<1>o. /\ opened \in HandleType /\ opened.uid = handle[h].uid /\ opened.kind = handle[h].kind
      /\ opened.pc = "open" /\ opened.outcome = handle[h].outcome
  BY <1>t DEF HandleType
<1>p. /\ probing \in HandleType /\ probing.uid = handle[h].uid /\ probing.kind = handle[h].kind
      /\ probing.pc = "probing" /\ probing.outcome = handle[h].outcome
  BY <1>t DEF HandleType
<1>f. /\ failed \in HandleType /\ failed.uid = handle[h].uid /\ failed.kind = handle[h].kind
      /\ failed.pc = "settled" /\ failed.outcome = "error"
  BY <1>t DEF HandleType, HandleOutcomes
<1>e. handle[h].pc \in {"binding", "probing"} => \A i \in 1..Len(wire[h]) : wire[h][i] # "exit"
  BY <1>t
<1>1. ASSUME handle[h].pc \in {"binding", "probing"}, handle' = [handle EXCEPT ![h] = opened],
             process' = [process EXCEPT ![h] = started], UNCHANGED <<wire, uidsInUse>>
      PROVE  Contract(h)
  <2> HIDE DEF started, opened
  <2>1. \A i \in 1..Len(wire[h]) : wire[h][i] = "exit" => started.at = "ended" BY <1>1, <1>e
  <2>2. wire' = [wire EXCEPT ![h] = wire[h]] BY <1>1, <1>r
  <2> QED BY <1>1, <1>s, <1>o, <1>t, <2>1, <2>2, AssignedContract
<1>2. CASE Bound(h)
  <2>1. CASE handle[h].kind = "control"
    <3>1. handle' = [handle EXCEPT ![h] = probing] BY <1>2, <2>1, <1>t DEF Bound, HandleType, ExecShape
    <3>2. process' = [process EXCEPT ![h] = process[h]] /\ wire' = [wire EXCEPT ![h] = wire[h]]
          /\ uidsInUse' = uidsInUse /\ handle[h].pc = "binding"
      BY <1>2, <2>1, <1>r DEF Bound
    <3> HIDE DEF probing
    <3> QED BY <3>1, <3>2, <1>p, <1>t, AssignedContract
  <2>2. CASE handle[h].kind # "control"
    BY <1>2, <2>2, <1>t, <1>1 DEF Bound, HandleType, ProcessType, ExecShape
  <2> QED BY <2>1, <2>2
<1>3. CASE BindFails(h)
  <2>1. handle' = [handle EXCEPT ![h] = failed] BY <1>3, <1>t DEF BindFails, HandleType, ExecShape
  <2>2. process' = [process EXCEPT ![h] = process[h]] /\ wire' = [wire EXCEPT ![h] = wire[h]]
        /\ uidsInUse' = Released(h) /\ handle[h].pc = "binding"
    BY <1>3, <1>r DEF BindFails
  <2>3. Unsettled(h) BY <2>2, <1>t DEF Unsettled
  <2> HIDE DEF failed
  <2> QED BY <2>1, <2>2, <2>3, <1>f, <1>t, AssignedContract
<1>4. CASE Probed(h)
  BY <1>4, <1>t, <1>1 DEF Probed, HandleType, ProcessType, ExecShape
<1> QED BY <1>2, <1>3, <1>4

\* finish and settle, and clearing the timer: the handle stays what it was.
LEMMA FinishedFacts ==
  ASSUME NEW q \in HandleType, NEW o \in HandleOutcomes \ {"none"}, NEW h
  PROVE  /\ Finished(h, q, o) \in HandleType
         /\ Finished(h, q, o).uid = q.uid /\ Finished(h, q, o).kind = q.kind
         /\ Finished(h, q, o).pc \in {q.pc, "settled"}
         /\ IF q.outcome = "none" THEN Finished(h, q, o).outcome = o
                                 ELSE Finished(h, q, o).outcome = q.outcome
PROOF
<1>1. CASE q.outcome # "none" BY <1>1 DEF Finished
<1>2. CASE q.outcome = "none"
  <2> DEFINE t == IF q.kind # "command" /\ q.timer = "armed" THEN "cleared" ELSE q.timer
             f == [q EXCEPT !.pc = "settled", !.outcome = o, !.paused = FALSE, !.timer = t]
  <2>1. Finished(h, q, o) = f BY <1>2 DEF Finished
  <2>2. t \in {"off", "armed", "fired", "cleared"} BY DEF HandleType
  <2> HIDE DEF t
  <2>3. f \in HandleType BY <2>2 DEF HandleType
  <2>4. f.uid = q.uid /\ f.kind = q.kind /\ f.pc = "settled" /\ f.outcome = o BY DEF HandleType
  <2> QED BY <1>2, <2>1, <2>3, <2>4
<1> QED BY <1>1, <1>2

LEMMA StoppedFacts ==
  ASSUME NEW h, handle[h] \in HandleType
  PROVE  /\ Stopped(h) \in HandleType
         /\ Stopped(h).uid = handle[h].uid /\ Stopped(h).kind = handle[h].kind
         /\ Stopped(h).pc = handle[h].pc /\ Stopped(h).outcome = handle[h].outcome
PROOF
<1> DEFINE t == IF handle[h].timer = "off" THEN "armed" ELSE handle[h].timer
           f == [handle[h] EXCEPT !.stopped = TRUE, !.timer = t]
<1>1. Stopped(h) = f BY DEF Stopped
<1>2. t \in {"off", "armed", "fired", "cleared"} BY DEF HandleType
<1> HIDE DEF t
<1>3. f \in HandleType BY <1>2 DEF HandleType
<1>4. f.uid = handle[h].uid /\ f.kind = handle[h].kind /\ f.pc = handle[h].pc /\ f.outcome = handle[h].outcome
  BY DEF HandleType
<1> QED BY <1>1, <1>3, <1>4

\* A termination, a timer, a drain and a break of the stream: the handle keeps
\* its identity until it settles.
LEMMA StopKeepsContract ==
  ASSUME ExecShape, NEW h \in Handles, Local(h),
         Terminate(h) \/ AbortCommand(h) \/ KillTimer(h) \/ Drain(h) \/ StreamBreaks(h)
  PROVE  Contract(h)
PROOF
<1>t. /\ handle[h] \in HandleType /\ process[h] \in ProcessType /\ wire[h] \in Seq(Messages)
      /\ handle[h].uid # NoUid => handle[h].kind = "control"
      /\ handle[h].uid # NoUid /\ process[h].stream = "open" => handle[h].outcome = "none"
      /\ process[h].at \in {"starting", "running"} => process[h].stream \in {"open", "cut"}
      /\ handle[h].pc \in {"idle", "binding", "probing"} =>
              handle[h].outcome = "none" /\ process[h].at = "none" /\ process[h].stream = "none"
      /\ \A i \in 1..Len(wire[h]) : wire[h][i] = "exit" => process[h].at = "ended"
  BY LocalFacts
<1>r. /\ handle = [handle EXCEPT ![h] = handle[h]] /\ process = [process EXCEPT ![h] = process[h]]
      /\ wire = [wire EXCEPT ![h] = wire[h]]
  BY Reassigned
<1>i. handle[h].pc # "idle"
  BY <1>t DEF Local, Terminate, AbortCommand, KillTimer, Drain, StreamBreaks, Streaming
<1>e. <<>> \in Seq(Messages) /\ \A i \in 1..Len(<<>>) : <<>>[i] = "exit" => process[h].at = "ended"
  OBVIOUS
<1>1. CASE Terminate(h)
  <2> DEFINE r == Stopped(h)
             p == Signalled(h, "TERM")
  <2>1. /\ r \in HandleType /\ r.uid = handle[h].uid /\ r.kind = handle[h].kind
        /\ r.pc = handle[h].pc /\ r.outcome = handle[h].outcome
    BY <1>t, StoppedFacts
  <2>2. p \in ProcessType /\ p.at = process[h].at /\ p.stream = process[h].stream
    BY <1>t DEF Signalled, ProcessType
  <2>3. handle' = [handle EXCEPT ![h] = r] /\ process' = [process EXCEPT ![h] = p]
        /\ wire' = [wire EXCEPT ![h] = wire[h]] /\ uidsInUse' = uidsInUse
    BY <1>1, <1>r DEF Terminate
  <2> HIDE DEF r, p
  <2> QED BY <2>1, <2>2, <2>3, <1>t, <1>i, AssignedContract
<1>2. CASE AbortCommand(h)
  <2> DEFINE r == [handle[h] EXCEPT !.stopped = TRUE, !.outcome = "aborted",
                                    !.timer = IF @ = "off" /\ handle[h].pid THEN "armed" ELSE @]
             p == Cancelled(h)
             w == IF handle[h].pid THEN wire[h] ELSE <<>>
  <2>1. /\ r \in HandleType /\ r.uid = handle[h].uid /\ r.kind = handle[h].kind
        /\ r.pc = handle[h].pc /\ r.outcome = "aborted"
    BY <1>t DEF HandleType, HandleOutcomes
  <2>2. p \in ProcessType /\ p.at = process[h].at /\ p.stream \in {process[h].stream, "cut"}
    BY <1>t DEF Cancelled, Signalled, ProcessType
  <2>3. w \in Seq(Messages) /\ \A i \in 1..Len(w) : w[i] = "exit" => process[h].at = "ended"
    BY <1>t, <1>e
  <2>4. /\ handle' = [handle EXCEPT ![h] = r]
        /\ process' = [process EXCEPT ![h] = p] /\ uidsInUse' = uidsInUse
        /\ handle[h].pc = "open" /\ handle[h].kind = "command" /\ Unsettled(h)
    BY <1>2, Zenon DEF AbortCommand
  <2>6. wire' = [wire EXCEPT ![h] = w] BY <1>2, Zenon DEF AbortCommand
  <2>5. handle[h].uid = NoUid BY <2>4, <1>t
  <2> HIDE DEF r, p, w
  <2> QED BY <2>1, <2>2, <2>3, <2>4, <2>5, <2>6, <1>t, AssignedContract
<1>3. CASE KillTimer(h)
  <2> DEFINE r == [handle[h] EXCEPT !.timer = "fired", !.late = ~handle[h].pid]
             p == [Signalled(h, "KILL") EXCEPT !.stream =
                     IF handle[h].kind = "command" /\ @ = "open" THEN "cut" ELSE @]
  <2>1. /\ r \in HandleType /\ r.uid = handle[h].uid /\ r.kind = handle[h].kind
        /\ r.pc = handle[h].pc /\ r.outcome = handle[h].outcome
    BY <1>t DEF HandleType
  <2>2. /\ p \in ProcessType /\ p.at = process[h].at
        /\ p.stream = process[h].stream \/ (process[h].stream = "open" /\ p.stream = "cut")
    BY <1>t DEF Signalled, ProcessType
  <2>3. wire' = [wire EXCEPT ![h] = wire[h]] /\ uidsInUse' = uidsInUse
    BY <1>3, <1>r DEF KillTimer
  <2>4. handle' = [handle EXCEPT ![h] = r] BY <1>3, <1>t DEF KillTimer, HandleType, ExecShape
  <2>5. process' = [process EXCEPT ![h] = p] BY <1>3, Zenon DEF KillTimer
  <2> HIDE DEF r, p
  <2> QED BY <2>1, <2>2, <2>3, <2>4, <2>5, <1>t, <1>i, AssignedContract
<1>4. CASE Drain(h)
  <2> DEFINE r == [handle[h] EXCEPT !.paused = FALSE]
  <2>1. /\ r \in HandleType /\ r.uid = handle[h].uid /\ r.kind = handle[h].kind
        /\ r.pc = handle[h].pc /\ r.outcome = handle[h].outcome
    BY <1>t DEF HandleType
  <2>2. handle' = [handle EXCEPT ![h] = r] /\ process' = [process EXCEPT ![h] = process[h]]
        /\ wire' = [wire EXCEPT ![h] = wire[h]] /\ uidsInUse' = uidsInUse
    BY <1>4, <1>r, <1>t DEF Drain, HandleType, ExecShape
  <2> HIDE DEF r
  <2> QED BY <2>1, <2>2, <1>t, <1>i, AssignedContract
<1>5. CASE StreamBreaks(h)
  <2> DEFINE q == IF handle[h].kind = "command" THEN handle[h] ELSE Stopped(h)
             r == Finished(h, q, "error")
             p == [IF handle[h].kind = "command" THEN process[h] ELSE Signalled(h, "TERM")
                     EXCEPT !.stream = "cut"]
  <2>1. /\ q \in HandleType /\ q.uid = handle[h].uid /\ q.kind = handle[h].kind
        /\ q.pc = handle[h].pc /\ q.outcome = handle[h].outcome
    BY <1>t, StoppedFacts
  <2>2. p \in ProcessType /\ p.at = process[h].at /\ p.stream = "cut"
    BY <1>t DEF Signalled, ProcessType
  <2>3. handle' = [handle EXCEPT ![h] = r] /\ process' = [process EXCEPT ![h] = p]
        /\ wire' = [wire EXCEPT ![h] = <<>>] /\ uidsInUse' = Released(h) /\ process[h].stream = "open"
    BY <1>5, <1>r, <1>t DEF StreamBreaks, Streaming, HandleType, ExecShape
  <2> HIDE DEF q, p
  <2>4. /\ r \in HandleType /\ r.uid = handle[h].uid /\ r.kind = handle[h].kind
        /\ r.pc \in {handle[h].pc, "settled"}
        /\ IF Unsettled(h) THEN r.outcome = "error" ELSE r.outcome = handle[h].outcome
    BY <2>1, FinishedFacts DEF HandleOutcomes, Unsettled
  <2>5. ~Unsettled(h) => handle[h].uid = NoUid BY <2>3, <1>t DEF Unsettled
  <2>6. handle[h].pc \notin {"idle", "binding", "probing"} BY <2>3, <1>t
  <2> HIDE DEF r
  <2> QED BY <2>2, <2>3, <2>4, <2>5, <2>6, <1>t, <1>e, AssignedContract
<1> QED BY <1>1, <1>2, <1>3, <1>4, <1>5

\* A message of the stream: an exit settles the handle and releases its
\* identity, and the process has ended.
LEMMA ReceiveKeepsContract ==
  ASSUME ExecShape, NEW h \in Handles, Local(h), Receive(h)
  PROVE  Contract(h)
PROOF
<1>t. /\ handle[h] \in HandleType /\ process[h] \in ProcessType /\ wire[h] \in Seq(Messages)
      /\ handle[h].uid # NoUid => handle[h].kind = "control"
      /\ handle[h].uid # NoUid /\ process[h].stream = "open" => handle[h].outcome = "none"
      /\ process[h].at \in {"starting", "running"} => process[h].stream \in {"open", "cut"}
      /\ handle[h].pc \in {"idle", "binding", "probing"} =>
              handle[h].outcome = "none" /\ process[h].at = "none" /\ process[h].stream = "none"
      /\ \A i \in 1..Len(wire[h]) : wire[h][i] = "exit" => process[h].at = "ended"
  BY LocalFacts
<1>r. handle = [handle EXCEPT ![h] = handle[h]] /\ process = [process EXCEPT ![h] = process[h]]
  BY Reassigned
<1> DEFINE w == Tail(wire[h])
<1>w. w \in Seq(Messages) /\ wire' = [wire EXCEPT ![h] = w] /\ wire[h] # <<>> /\ process[h].stream = "open"
  BY <1>t DEF Receive, ExecShape, Streaming
<1>e. \A i \in 1..Len(w) : w[i] = "exit" => process[h].at = "ended"
  <2>1. \A i \in 1..Len(w) : w[i] = wire[h][i + 1] /\ i + 1 \in 1..Len(wire[h]) BY <1>t, <1>w
  <2> QED BY <2>1, <1>t
<1>i. handle[h].pc \notin {"idle", "binding", "probing"} BY <1>w, <1>t
<1> HIDE DEF w
<1>1. CASE ReceivePid(h)
  <2> DEFINE r == [handle[h] EXCEPT !.pid = TRUE]
             p == [process[h] EXCEPT !.signal =
                     IF handle[h].stopped /\ handle[h].kind # "command" THEN "TERM" ELSE @]
  <2>1. /\ r \in HandleType /\ r.uid = handle[h].uid /\ r.kind = handle[h].kind
        /\ r.pc = handle[h].pc /\ r.outcome = handle[h].outcome
    BY <1>t DEF HandleType
  <2>2. p \in ProcessType /\ p.at = process[h].at /\ p.stream = process[h].stream BY <1>t DEF ProcessType
  <2>3. handle' = [handle EXCEPT ![h] = r] /\ process' = [process EXCEPT ![h] = p]
        /\ uidsInUse' = uidsInUse
    BY <1>1, <1>t DEF ReceivePid, HandleType, ProcessType, ExecShape
  <2> HIDE DEF r, p
  <2> QED BY <2>1, <2>2, <2>3, <1>w, <1>e, <1>t, <1>i, AssignedContract
<1>2. CASE ReceiveOutput(h)
  <2>0. PICK pause \in BOOLEAN :
          handle' = [handle EXCEPT ![h].heard = @ + 1, ![h].paused = pause]
    BY <1>2 DEF ReceiveOutput
  <2> DEFINE r == [handle[h] EXCEPT !.heard = @ + 1, !.paused = pause]
  <2>1. /\ r.uid = handle[h].uid /\ r.kind = handle[h].kind
        /\ r.pc = handle[h].pc /\ r.outcome = handle[h].outcome
    BY <1>t DEF HandleType
  <2>3. handle[h].heard + 1 \in Nat BY <1>t DEF HandleType
  <2>4. r \in HandleType BY <1>t, <2>3 DEF HandleType
  <2>2. process' = [process EXCEPT ![h] = process[h]] /\ uidsInUse' = uidsInUse
    BY <1>2, <1>r DEF ReceiveOutput
  <2>5. handle' = [handle EXCEPT ![h] = r] BY <2>0, <1>t DEF ExecShape, HandleType
  <2> HIDE DEF r
  <2> QED BY <2>1, <2>2, <2>4, <2>5, <1>w, <1>e, <1>t, <1>i, AssignedContract
<1>3. CASE ReceiveExit(h)
  <2> DEFINE q == Finished(h, handle[h], "exit")
             r == [q EXCEPT !.timer = IF @ = "armed" THEN "cleared" ELSE @]
             p == [process[h] EXCEPT !.stream = "closed"]
  <2>1. /\ q \in HandleType /\ q.uid = handle[h].uid /\ q.kind = handle[h].kind
        /\ q.pc \in {handle[h].pc, "settled"}
        /\ IF Unsettled(h) THEN q.outcome = "exit" ELSE q.outcome = handle[h].outcome
    BY <1>t, FinishedFacts DEF HandleOutcomes, Unsettled
  <2>2. p \in ProcessType /\ p.at = process[h].at /\ p.stream = "closed" BY <1>t DEF ProcessType
  <2>3. uidsInUse' = Released(h) /\ Head(wire[h]) = "exit" BY <1>3 DEF ReceiveExit
  <2>7. process' = [process EXCEPT ![h] = p] BY <1>3, <1>t DEF ReceiveExit, ProcessType, ExecShape
  <2>8. handle' = [handle EXCEPT ![h] = r] BY <1>3, Zenon DEF ReceiveExit
  <2> HIDE DEF q
  <2>4. /\ r \in HandleType /\ r.uid = q.uid /\ r.kind = q.kind /\ r.pc = q.pc /\ r.outcome = q.outcome
    BY <2>1 DEF HandleType
  <2>5. process[h].at = "ended"
    <3>1. 1 \in 1..Len(wire[h]) /\ wire[h][1] = "exit" BY <2>3, <1>t, <1>w
    <3> QED BY <3>1, <1>t
  <2>6. ~Unsettled(h) => handle[h].uid = NoUid BY <1>w, <1>t DEF Unsettled
  <2> HIDE DEF r, p
  <2> QED BY <2>1, <2>2, <2>3, <2>4, <2>5, <2>6, <2>7, <2>8, <1>w, <1>e, <1>i, AssignedContract
<1> QED BY <1>1, <1>2, <1>3 DEF Receive

-----------------------------------------------------------------------------
(***************************************************************************)
(* The pool.  An unsettled handle holds its identity: it is in inUse, and  *)
(* nobody else's.                                                          *)
(***************************************************************************)
PoolInv ==
  /\ ExecShape
  /\ \A h \in Handles : Local(h)
  /\ \A h \in Handles : handle[h].uid # NoUid /\ Unsettled(h) => handle[h].uid \in uidsInUse
  /\ \A h, g \in Handles :
       handle[h].uid # NoUid /\ handle[h].uid = handle[g].uid /\ Unsettled(h) /\ Unsettled(g) => h = g

HeldBy(u) == {h \in Handles : handle[h].uid = u /\ Unsettled(h)}
PoolUsers == [u \in Uids |-> HeldBy(u)]
PoolStep == Pool!UseNext \/ UNCHANGED PoolUsers

LEMMA ContractIsPoolStep ==
  ASSUME PoolInv, NEW h \in Handles, Contract(h)
  PROVE  PoolInv' /\ PoolStep
PROOF
<1> USE ExecAssumption
<1>0. NoUid \notin Uids BY DEF NoUid
<1>1. ASSUME NEW g \in Handles, g # h
      PROVE  /\ handle'[g] = handle[g] /\ (Unsettled(g)' <=> Unsettled(g))
             /\ Local(g)'
  <2>1. handle'[g] = handle[g] /\ process'[g] = process[g] /\ wire'[g] = wire[g]
    BY <1>1 DEF Contract, OtherHandles
  <2>2. Local(g) BY DEF PoolInv
  <2> QED BY <2>1, <2>2 DEF Local, Unsettled, Streaming, Alive
<1>2. ExecShape' /\ \A g \in Handles : Local(g)' BY <1>1 DEF Contract
<1>u. \A g \in Handles : handle'[g].uid = handle[g].uid BY <1>1 DEF Contract
<1>s. Unsettled(h)' => Unsettled(h) BY DEF Contract, Unsettled
<1>3. \A g \in Handles : Unsettled(g)' => Unsettled(g) BY <1>1, <1>s
<1>4. \A f, g \in Handles :
        handle'[f].uid # NoUid /\ handle'[f].uid = handle'[g].uid /\ Unsettled(f)' /\ Unsettled(g)' => f = g
  BY <1>u, <1>3 DEF PoolInv
<1>5. ASSUME NEW g \in Handles, handle'[g].uid # NoUid, Unsettled(g)'
      PROVE  handle'[g].uid \in uidsInUse'
  <2>1. Unsettled(g) /\ handle[g].uid \in uidsInUse /\ handle'[g].uid = handle[g].uid
    BY <1>5, <1>u, <1>3 DEF PoolInv
  <2>2. CASE uidsInUse' = uidsInUse BY <2>1, <2>2
  <2>3. CASE uidsInUse' = Released(h) /\ handle[h].uid = NoUid BY <1>5, <2>1, <2>3 DEF Released
  <2>4. CASE uidsInUse' = Released(h) /\ Unsettled(h) /\ ~(Unsettled(h)')
    <3>1. g # h BY <1>5, <2>4
    <3>2. handle[g].uid # handle[h].uid BY <1>5, <2>1, <2>4, <3>1 DEF PoolInv
    <3> QED BY <2>1, <2>4, <3>2 DEF Released
  <2> QED BY <2>2, <2>3, <2>4 DEF Contract, Unsettled
<1>6. PoolInv' BY <1>2, <1>4, <1>5 DEF PoolInv
<1>7. PoolStep
  <2>1. CASE handle[h].uid = NoUid \/ (Unsettled(h)' <=> Unsettled(h))
    <3>1. \A u \in Uids : \A g \in Handles :
            (handle'[g].uid = u /\ Unsettled(g)') <=> (handle[g].uid = u /\ Unsettled(g))
      BY <2>1, <1>0, <1>1, <1>u
    <3>2. \A u \in Uids : HeldBy(u)' = HeldBy(u) BY <3>1 DEF HeldBy
    <3>3. PoolUsers' = PoolUsers BY <3>2 DEF PoolUsers
    <3> QED BY <3>3 DEF PoolStep
  <2>2. CASE handle[h].uid # NoUid /\ Unsettled(h) /\ ~(Unsettled(h)')
    <3>1. PICK r \in Uids : r = handle[h].uid BY <2>2 DEF PoolInv, ExecShape, HandleType
    <3>2. HeldBy(r) = {h} BY <2>2, <3>1 DEF HeldBy, PoolInv
    <3>3. ASSUME NEW u \in Uids, u # r PROVE HeldBy(u)' = HeldBy(u)
      <4>1. \A g \in Handles :
              (handle'[g].uid = u /\ Unsettled(g)') <=> (handle[g].uid = u /\ Unsettled(g))
        BY <3>1, <3>3, <1>1, <1>u
      <4> QED BY <4>1 DEF HeldBy
    <3>4. {g \in Handles : handle'[g].uid = r /\ Unsettled(g)'} = {}
      <4> SUFFICES ASSUME NEW g \in Handles, handle'[g].uid = r, Unsettled(g)' PROVE FALSE
        OBVIOUS
      <4>1. handle[g].uid = r /\ Unsettled(g) BY <1>u, <1>3
      <4>2. g = h BY <4>1, <3>2 DEF HeldBy
      <4> QED BY <4>2, <2>2
    <3>5. PoolUsers' = [PoolUsers EXCEPT ![r] = {}]
      <4>1. \A u \in Uids : HeldBy(u)' = IF u = r THEN {} ELSE HeldBy(u) BY <3>3, <3>4 DEF HeldBy
      <4>2. PoolUsers' = [u \in Uids |-> IF u = r THEN {} ELSE HeldBy(u)] BY <4>1 DEF PoolUsers
      <4> QED BY <4>2 DEF PoolUsers
    <3>6. Pool!Give(r, h)
      BY <3>1, <3>2, <3>5 DEF Pool!Give, PoolUsers, HeldBy
    <3> QED BY <3>1, <3>6 DEF PoolStep, Pool!UseNext
  <2> QED BY <2>1, <2>2, <1>s
<1> QED BY <1>6, <1>7

LEMMA SpawnIsPoolStep ==
  ASSUME PoolInv, NEW h \in Handles, NEW kind \in Kinds, Spawn(h, kind)
  PROVE  PoolInv' /\ PoolStep
PROOF
<1> USE ExecAssumption
<1>0. NoUid \notin Uids /\ kind \in {"spawn", "control", "command"} BY DEF NoUid
<1>t. /\ handle \in [Handles -> HandleType] /\ handle[h] \in HandleType /\ handle[h].pc = "idle"
      /\ handle[h].uid = NoUid /\ Unsettled(h) /\ process[h].at = "none" /\ process[h].stream = "none"
      /\ Local(h)
  BY DEF PoolInv, ExecShape, Local, Spawn
<1>1. PICK u \in Uids \cup {NoUid}, o \in {"none", "refused"} :
        /\ handle' \in [Handles -> HandleType]
        /\ handle'[h].uid = u /\ handle'[h].outcome = o /\ handle'[h].kind = kind
        /\ handle'[h].pc = IF o = "none" THEN "binding" ELSE "settled"
        /\ \A g \in Handles : g # h => handle'[g] = handle[g]
        /\ uidsInUse' = uidsInUse \cup (IF u = NoUid THEN {} ELSE {u})
        /\ u # NoUid => u \notin uidsInUse /\ kind = "control" /\ o = "none"
  <2>0. handle[h].outcome = "none" BY <1>t DEF Unsettled
  <2>1. CASE kind = "control" /\ Free # {}
    <3>0. PICK v \in Uids \ uidsInUse : v = Lowest(Free) BY <2>1, LowestIsMember DEF Free
    <3>1. handle' = [handle EXCEPT ![h].pc = "binding", ![h].kind = kind, ![h].uid = v]
      BY <2>1, <3>0 DEF Spawn
    <3>2. handle' \in [Handles -> HandleType] BY <1>0, <1>t, <3>1 DEF HandleType
    <3>3. /\ handle'[h].uid = v /\ handle'[h].outcome = "none" /\ handle'[h].kind = kind
          /\ handle'[h].pc = "binding" /\ \A g \in Handles : g # h => handle'[g] = handle[g]
      BY <1>t, <2>0, <3>1 DEF HandleType
    <3>4. uidsInUse' = uidsInUse \cup {v} /\ v # NoUid BY <2>1, <3>0, <1>0 DEF Spawn
    <3> QED BY <2>1, <3>2, <3>3, <3>4
  <2>2. CASE kind = "control" /\ Free = {}
    <3>1. handle' = [handle EXCEPT ![h].pc = "settled", ![h].kind = kind, ![h].outcome = "refused"]
      BY <2>2 DEF Spawn
    <3>2. handle' \in [Handles -> HandleType] BY <1>0, <1>t, <3>1 DEF HandleType, HandleOutcomes
    <3>3. /\ handle'[h].uid = NoUid /\ handle'[h].outcome = "refused" /\ handle'[h].kind = kind
          /\ handle'[h].pc = "settled" /\ \A g \in Handles : g # h => handle'[g] = handle[g]
      BY <1>t, <3>1 DEF HandleType
    <3>4. uidsInUse' = uidsInUse BY <2>2 DEF Spawn
    <3> QED BY <3>2, <3>3, <3>4
  <2>3. CASE kind # "control"
    <3>1. handle' = [handle EXCEPT ![h].pc = "binding", ![h].kind = kind] BY <2>3 DEF Spawn
    <3>2. handle' \in [Handles -> HandleType] BY <1>0, <1>t, <3>1 DEF HandleType
    <3>3. /\ handle'[h].uid = NoUid /\ handle'[h].outcome = "none" /\ handle'[h].kind = kind
          /\ handle'[h].pc = "binding" /\ \A g \in Handles : g # h => handle'[g] = handle[g]
      BY <1>t, <2>0, <3>1 DEF HandleType
    <3>4. uidsInUse' = uidsInUse BY <2>3 DEF Spawn
    <3> QED BY <3>2, <3>3, <3>4
  <2> QED BY <2>1, <2>2, <2>3
<1>2. process' = process /\ wire' = wire BY DEF Spawn
<1>3. ExecShape'
  <2>2. uidsInUse' \subseteq Uids BY <1>1 DEF PoolInv, ExecShape
  <2> QED BY <1>1, <2>2, <1>2 DEF PoolInv, ExecShape
<1>4. ASSUME NEW g \in Handles PROVE Local(g)'
  <2>1. CASE g = h BY <2>1, <1>1, <1>2, <1>t DEF Local, Streaming, Unsettled, Alive
  <2>2. CASE g # h
    <3>1. Local(g) /\ handle'[g] = handle[g] BY <2>2, <1>1 DEF PoolInv
    <3> QED BY <3>1, <1>2 DEF Local, Streaming, Unsettled, Alive
  <2> QED BY <2>1, <2>2
<1>5. ASSUME NEW g \in Handles, g # h
      PROVE  handle'[g].uid = handle[g].uid /\ (Unsettled(g)' <=> Unsettled(g))
  BY <1>5, <1>1 DEF Unsettled
<1>6. ASSUME NEW g \in Handles, handle'[g].uid # NoUid, Unsettled(g)'
      PROVE  handle'[g].uid \in uidsInUse'
  <2>1. CASE g = h BY <2>1, <1>6, <1>1
  <2>2. CASE g # h
    <3>1. handle[g].uid # NoUid /\ Unsettled(g) /\ handle'[g].uid = handle[g].uid BY <2>2, <1>6, <1>5
    <3>2. handle[g].uid \in uidsInUse BY <3>1 DEF PoolInv
    <3> QED BY <3>1, <3>2, <1>1
  <2> QED BY <2>1, <2>2
<1>7. ASSUME NEW f \in Handles, NEW g \in Handles, handle'[f].uid # NoUid,
             handle'[f].uid = handle'[g].uid, Unsettled(f)', Unsettled(g)'
      PROVE  f = g
  <2>1. CASE f # h /\ g # h BY <2>1, <1>7, <1>5 DEF PoolInv
  <2>2. ASSUME NEW x \in Handles, x # h, u # NoUid, handle'[x].uid = u, Unsettled(x)' PROVE FALSE
    <3>1. handle[x].uid \in uidsInUse BY <2>2, <1>5 DEF PoolInv
    <3> QED BY <2>2, <3>1, <1>1, <1>5
  <2> QED BY <2>1, <2>2, <1>7, <1>1
<1>8. PoolInv' BY <1>3, <1>4, <1>6, <1>7 DEF PoolInv
<1>9. PoolStep
  <2>1. CASE u = NoUid
    <3>1. \A v \in Uids : \A g \in Handles :
            (handle'[g].uid = v /\ Unsettled(g)') <=> (handle[g].uid = v /\ Unsettled(g))
      BY <2>1, <1>0, <1>1, <1>5, <1>t
    <3>2. \A v \in Uids : HeldBy(v)' = HeldBy(v) BY <3>1 DEF HeldBy
    <3>3. PoolUsers' = PoolUsers BY <3>2 DEF PoolUsers
    <3> QED BY <3>3 DEF PoolStep
  <2>2. CASE u # NoUid
    <3>1. u \in Uids /\ o = "none" /\ u \notin uidsInUse BY <2>2, <1>1
    <3>2. HeldBy(u) = {} BY <3>1, <2>2 DEF HeldBy, PoolInv
    <3>3. HeldBy(u)' = {h}
      <4>1. Unsettled(h)' BY <1>1, <3>1 DEF Unsettled
      <4> QED BY <4>1, <3>2, <1>1, <1>5 DEF HeldBy
    <3>4. ASSUME NEW v \in Uids, v # u PROVE HeldBy(v)' = HeldBy(v)
      <4>1. \A g \in Handles :
              (handle'[g].uid = v /\ Unsettled(g)') <=> (handle[g].uid = v /\ Unsettled(g))
        BY <3>4, <1>0, <1>1, <1>5, <1>t
      <4> QED BY <4>1 DEF HeldBy
    <3>5. PoolUsers' = [PoolUsers EXCEPT ![u] = {h}] BY <3>1, <3>3, <3>4 DEF PoolUsers
    <3>6. Pool!Take(u, h) BY <3>1, <3>2, <3>5 DEF Pool!Take, PoolUsers, HeldBy
    <3> QED BY <3>1, <3>6 DEF PoolStep, Pool!UseNext
  <2> QED BY <2>1, <2>2
<1> QED BY <1>8, <1>9

LEMMA PoolInit == ExecInit => PoolInv /\ Pool!UseInit
PROOF
<1> SUFFICES ASSUME ExecInit PROVE PoolInv /\ Pool!UseInit
  OBVIOUS
<1> USE ExecAssumption
<1>0. NoUid \notin Uids BY DEF NoUid
<1>1. IdleHandle \in HandleType BY DEF IdleHandle, HandleType, HandleOutcomes
<1>2. NoProcess \in ProcessType BY DEF NoProcess, ProcessType
<1>3. ExecShape BY <1>1, <1>2 DEF ExecInit, ExecShape
<1>4. \A h \in Handles : handle[h] = IdleHandle /\ process[h] = NoProcess /\ wire[h] = <<>> BY DEF ExecInit
<1>5. \A h \in Handles : Local(h)
  <2> SUFFICES ASSUME NEW h \in Handles PROVE Local(h)
    OBVIOUS
  <2>1. /\ handle[h].uid = NoUid /\ handle[h].outcome = "none" /\ handle[h].timer = "off"
        /\ ~handle[h].paused
    BY <1>4 DEF IdleHandle
  <2>2. process[h].at = "none" /\ process[h].stream = "none" /\ Len(wire[h]) = 0 BY <1>4 DEF NoProcess
  <2> QED BY <2>1, <2>2 DEF Local, Unsettled, Streaming, Alive
<1>6. ASSUME NEW h \in Handles PROVE handle[h].uid = NoUid
  <2>1. handle[h] = IdleHandle BY <1>4
  <2> QED BY <2>1 DEF IdleHandle
<1>7. PoolInv BY <1>3, <1>5, <1>6 DEF PoolInv
<1>8. Pool!UseInit BY <1>0, <1>6 DEF Pool!UseInit
<1> QED BY <1>7, <1>8

LEMMA PoolNext == PoolInv /\ [ExecNext]_execVars => PoolInv' /\ PoolStep
PROOF
<1> SUFFICES ASSUME PoolInv, [ExecNext]_execVars PROVE PoolInv' /\ PoolStep
  OBVIOUS
<1>1. CASE UNCHANGED execVars
  <2>1. PoolInv'
    BY <1>1 DEF execVars, PoolInv, ExecShape, Local, Streaming, Unsettled, Alive
  <2>2. PoolUsers' = PoolUsers BY <1>1 DEF execVars, PoolUsers, HeldBy, Unsettled
  <2> QED BY <2>1, <2>2 DEF PoolStep
<1>2. CASE ExecNext
  <2>1. PICK h \in Handles :
          \/ \E kind \in Kinds : Spawn(h, kind)
          \/ ExecStep(h)
          \/ \E stubborn \in BOOLEAN : GuestStarts(h, stubborn)
          \/ GuestWrites(h) \/ GuestExits(h)
          \/ Terminate(h) \/ AbortCommand(h) \/ StreamBreaks(h)
    BY <1>2 DEF ExecNext
  <2>2. CASE \E kind \in Kinds : Spawn(h, kind) BY <2>2, SpawnIsPoolStep
  <2>3. CASE ~\E kind \in Kinds : Spawn(h, kind)
    <3>1. ExecShape /\ Local(h) BY DEF PoolInv
    <3>2. Contract(h)
      BY <2>1, <2>3, <3>1, GuestKeepsContract, StartKeepsContract, StopKeepsContract, ReceiveKeepsContract
         DEF ExecStep, GuestDies
    <3> QED BY <3>2, ContractIsPoolStep
  <2> QED BY <2>2, <2>3
<1> QED BY <1>1, <1>2

LEMMA PoolImplies == PoolInv => UidExclusive
PROOF
<1> SUFFICES ASSUME PoolInv, NEW h \in Handles, NEW g \in Handles, h # g, Alive(h), Alive(g),
                    handle[h].uid = handle[g].uid, handle[h].uid # NoUid,
                    process[h].stream # "cut", process[g].stream # "cut"
             PROVE  FALSE
  BY DEF UidExclusive
<1>1. Local(h) /\ Local(g) BY DEF PoolInv
<1>2. Unsettled(h) /\ Unsettled(g) BY <1>1 DEF Local, Streaming
<1> QED BY <1>2 DEF PoolInv

\* Two processes of the PTC container never run under one identity unless a
\* stream broke (PtcUidPool and the settling of the handles), for any number
\* of handles and identities.
THEOREM UidsExclude == ExecSpec => []UidExclusive
PROOF
<1>1. ExecInit => PoolInv BY PoolInit
<1>2. PoolInv /\ [ExecNext]_execVars => PoolInv' BY PoolNext
<1>3. PoolInv => UidExclusive BY PoolImplies
<1> QED BY <1>1, <1>2, <1>3, PTL DEF ExecSpec

\* The handles implement the abstract pool: an identity is taken by one user
\* and goes back before the next one has it (PtcUidPool.acquire and release).
THEOREM PoolImplements == ExecSpec => PoolExclusive
PROOF
<1>1. ExecInit => PoolInv /\ Pool!UseInit BY PoolInit
<1>2. PoolInv /\ [ExecNext]_execVars => PoolInv' BY PoolNext
<1>3. PoolInv /\ [ExecNext]_execVars => [Pool!UseNext]_PoolUsers
  BY PoolNext DEF PoolStep
<1>4. PoolUsers = [u \in Uids |-> {h \in Handles : handle[h].uid = u /\ Unsettled(h)}]
  BY DEF PoolUsers, HeldBy
<1> QED BY <1>1, <1>2, <1>3, <1>4, PTL DEF ExecSpec, PoolExclusive, Pool!UseSpec, PoolUsers, HeldBy

-----------------------------------------------------------------------------
(* The output: what the stream holds is what was sent and not yet heard,   *)
(* after a process id that may wait at its front and before an exit.       *)

PidWaits(w) == Len(w) > 0 /\ w[1] = "pid"
One(b) == IF b THEN 1 ELSE 0

\* The messages of an open stream, for a process that is at `at`.
WireOrdered(w, at) ==
  \A i \in 1..Len(w) : (w[i] = "pid" => i = 1) /\ (w[i] = "exit" <=> at = "ended" /\ i = Len(w))

OutputSound(h) ==
  /\ handle[h].outcome = "exit" =>
       process[h].at = "ended" /\ handle[h].heard = process[h].sent /\ process[h].stream # "open"
  /\ process[h].stream = "none" =>
       process[h].at = "none" /\ handle[h].heard = process[h].sent /\ Len(wire[h]) = 0
  /\ process[h].stream = "open" =>
       /\ process[h].at \in {"starting", "running", "ended"}
       /\ process[h].at = "starting" => Len(wire[h]) = 0
       /\ process[h].at = "ended" => Len(wire[h]) > 0
       /\ WireOrdered(wire[h], process[h].at)
       /\ Len(wire[h]) + handle[h].heard =
            process[h].sent + One(PidWaits(wire[h])) + One(process[h].at = "ended")

OutputInv == PoolInv /\ \A h \in Handles : OutputSound(h)

\* A step that hears and sends nothing, and leaves the stream or cuts it.
NothingHeard(h) ==
  /\ handle'[h].heard = handle[h].heard /\ process'[h].sent = process[h].sent
  /\ process'[h].at = process[h].at
  /\ handle'[h].outcome = handle[h].outcome \/ handle'[h].outcome # "exit"
  /\ \/ process'[h].stream = process[h].stream /\ wire'[h] = wire[h]
     \/ process'[h].stream = "cut"

LEMMA QuietKeepsOutput ==
  ASSUME NEW h, OutputSound(h), NothingHeard(h)
  PROVE  OutputSound(h)'
PROOF
<1>1. CASE process'[h].stream = "cut" BY <1>1 DEF NothingHeard, OutputSound
<1>2. CASE process'[h].stream = process[h].stream /\ wire'[h] = wire[h]
  BY <1>2, Zenon DEF NothingHeard, OutputSound
<1> QED BY <1>1, <1>2 DEF NothingHeard

LEMMA StopIsQuiet ==
  ASSUME ExecShape, NEW h \in Handles,
         Terminate(h) \/ AbortCommand(h) \/ KillTimer(h) \/ Drain(h) \/ StreamBreaks(h) \/ BindFails(h)
  PROVE  NothingHeard(h)
PROOF
<1>t. /\ handle[h] \in HandleType /\ process[h] \in ProcessType
      /\ handle \in [Handles -> HandleType] /\ process \in [Handles -> ProcessType]
      /\ wire \in [Handles -> Seq(Messages)]
  BY DEF ExecShape
<1>1. /\ Stopped(h).heard = handle[h].heard /\ Stopped(h).outcome = handle[h].outcome
      /\ Stopped(h) \in HandleType
  BY <1>t, StoppedFacts, ZenonT(40) DEF Stopped, HandleType
<1>2. ASSUME NEW s
      PROVE  /\ Signalled(h, s).sent = process[h].sent /\ Signalled(h, s).at = process[h].at
             /\ Signalled(h, s).stream = process[h].stream
             /\ \A x : [Signalled(h, s) EXCEPT !.stream = x].sent = process[h].sent
                       /\ [Signalled(h, s) EXCEPT !.stream = x].at = process[h].at
                       /\ [Signalled(h, s) EXCEPT !.stream = x].stream = x
  BY <1>t DEF Signalled, ProcessType
<1>3. CASE Terminate(h)
  <2>1. handle'[h] = Stopped(h) /\ process'[h] = Signalled(h, "TERM") /\ wire' = wire
    BY <1>3, <1>t DEF Terminate
  <2> QED BY <2>1, <1>1, <1>2 DEF NothingHeard
<1>4. CASE AbortCommand(h)
  <2>1. process'[h] = Cancelled(h) /\ wire'[h] = IF handle[h].pid THEN wire[h] ELSE <<>>
    BY <1>4, <1>t DEF AbortCommand
  <2>2. handle'[h].heard = handle[h].heard /\ handle'[h].outcome = "aborted"
    BY <1>4, <1>t DEF AbortCommand, HandleType
  <2>3. /\ Cancelled(h).sent = process[h].sent /\ Cancelled(h).at = process[h].at
        /\ Cancelled(h).stream = IF handle[h].pid THEN process[h].stream ELSE "cut"
    BY <1>t DEF Cancelled, Signalled, ProcessType
  <2> QED BY <2>1, <2>2, <2>3 DEF NothingHeard
<1>5. CASE KillTimer(h)
  <2>1. handle'[h].heard = handle[h].heard /\ handle'[h].outcome = handle[h].outcome /\ wire' = wire
    BY <1>5, <1>t DEF KillTimer, HandleType
  <2>2. PICK x : /\ process'[h] = [Signalled(h, "KILL") EXCEPT !.stream = x]
                 /\ x = process[h].stream \/ x = "cut"
    BY <1>5, <1>t, <1>2 DEF KillTimer
  <2> QED BY <2>1, <2>2, <1>2 DEF NothingHeard
<1>6. CASE Drain(h)
  <2>1. handle'[h].heard = handle[h].heard /\ handle'[h].outcome = handle[h].outcome
        /\ wire' = wire /\ process' = process
    BY <1>6, <1>t DEF Drain, HandleType
  <2> QED BY <2>1 DEF NothingHeard
<1>7. CASE BindFails(h)
  <2>1. handle'[h].heard = handle[h].heard /\ handle'[h].outcome = "error"
        /\ wire' = wire /\ process' = process
    BY <1>7, <1>t DEF BindFails, HandleType
  <2> QED BY <2>1 DEF NothingHeard
<1>8. CASE StreamBreaks(h)
  <2> DEFINE q == IF handle[h].kind = "command" THEN handle[h] ELSE Stopped(h)
  <2>1. q \in HandleType /\ q.heard = handle[h].heard /\ q.outcome = handle[h].outcome BY <1>1, <1>t
  <2>2. handle'[h] = Finished(h, q, "error") BY <1>8, <1>t DEF StreamBreaks
  <2> HIDE DEF q
  <2>3. Finished(h, q, "error").heard = q.heard
        /\ (Finished(h, q, "error").outcome = q.outcome \/ Finished(h, q, "error").outcome = "error")
    BY <2>1 DEF Finished, HandleType
  <2>4. process'[h].sent = process[h].sent /\ process'[h].at = process[h].at /\ process'[h].stream = "cut"
    <3>1. CASE handle[h].kind = "command"
      <4>1. process'[h] = [process[h] EXCEPT !.stream = "cut"] BY <1>8, <3>1, <1>t DEF StreamBreaks
      <4> QED BY <4>1, <1>t DEF ProcessType
    <3>2. CASE handle[h].kind # "command"
      <4>1. process'[h] = [Signalled(h, "TERM") EXCEPT !.stream = "cut"] BY <1>8, <3>2, <1>t DEF StreamBreaks
      <4> QED BY <4>1, <1>2
    <3> QED BY <3>1, <3>2
  <2> QED BY <2>1, <2>2, <2>3, <2>4 DEF NothingHeard
<1> QED BY <1>3, <1>4, <1>5, <1>6, <1>7, <1>8

\* The process starts: nothing is sent and nothing waits.
LEMMA OpeningKeepsOutput ==
  ASSUME ExecShape, NEW h \in Handles, Local(h), OutputSound(h), Bound(h) \/ Probed(h)
  PROVE  OutputSound(h)'
PROOF
<1>t. /\ handle[h] \in HandleType /\ process[h] \in ProcessType
      /\ handle \in [Handles -> HandleType] /\ process \in [Handles -> ProcessType]
  BY DEF ExecShape
<1>0. handle[h].pc \in {"binding", "probing"} /\ wire' = wire BY DEF Bound, Probed
<1>1. process[h].stream = "none" /\ process[h].at = "none" /\ handle[h].outcome = "none"
  BY <1>0 DEF Local, Unsettled
<1>2. Len(wire[h]) = 0 /\ handle[h].heard = process[h].sent BY <1>1 DEF OutputSound
<1>3. CASE process' = process
  <2>1. handle'[h].heard = handle[h].heard /\ handle'[h].outcome = handle[h].outcome
    BY <1>t DEF Bound, Probed, HandleType
  <2> QED BY <1>3, <1>0, <2>1, QuietKeepsOutput DEF NothingHeard
<1>4. CASE process' # process
  <2>1. handle'[h].heard = handle[h].heard /\ handle'[h].outcome = handle[h].outcome
    BY <1>t DEF Bound, Probed, HandleType
  <2>2. process'[h].sent = process[h].sent /\ process'[h].at = "starting" /\ process'[h].stream = "open"
    BY <1>4, <1>t DEF Bound, Probed, ProcessType
  <2>3. WireOrdered(wire[h], "starting") /\ ~PidWaits(wire[h]) BY <1>2 DEF WireOrdered, PidWaits
  <2>4. handle[h].heard \in Nat /\ process[h].sent \in Nat BY <1>t DEF HandleType, ProcessType
  <2> QED BY <2>1, <2>2, <2>3, <2>4, <1>0, <1>1, <1>2 DEF OutputSound, One
<1> QED BY <1>3, <1>4

\* What the guest tells comes after what it told.
LEMMA TellingKeepsOutput ==
  ASSUME ExecShape, NEW h \in Handles, Local(h), OutputSound(h),
         \/ \E stubborn \in BOOLEAN : GuestStarts(h, stubborn)
         \/ GuestWrites(h)
         \/ GuestExits(h)
  PROVE  OutputSound(h)'
PROOF
<1>t. /\ process[h] \in ProcessType /\ handle[h] \in HandleType /\ process \in [Handles -> ProcessType]
      /\ wire[h] \in Seq(Messages) /\ wire \in [Handles -> Seq(Messages)]
      /\ handle[h].heard \in Nat /\ process[h].sent \in Nat
  BY DEF ExecShape, HandleType, ProcessType
<1>0. handle' = handle /\ process[h].at \in {"starting", "running"} /\ process[h].stream # "none"
  BY DEF GuestStarts, GuestWrites, GuestExits, Local, Alive
<1>1. handle[h].outcome # "exit" BY <1>0 DEF OutputSound
<1>2. PICK m \in Messages :
        /\ Tell(h, m) /\ process'[h].stream = process[h].stream
        /\ \/ m = "pid" /\ process[h].at = "starting" /\ process'[h].at = "running" /\ process'[h].sent = process[h].sent
           \/ m = "out" /\ process[h].at = "running" /\ process'[h].at = "running" /\ process'[h].sent = process[h].sent + 1
           \/ m = "exit" /\ process[h].at = "running" /\ process'[h].at = "ended" /\ process'[h].sent = process[h].sent
  <2>1. ASSUME NEW b \in BOOLEAN, GuestStarts(h, b)
        PROVE  /\ process'[h].stream = process[h].stream /\ process'[h].at = "running"
               /\ process'[h].sent = process[h].sent
    BY <2>1, <1>t DEF GuestStarts, ProcessType
  <2>2. ASSUME GuestWrites(h)
        PROVE  /\ process'[h].stream = process[h].stream /\ process'[h].at = "running"
               /\ process'[h].sent = process[h].sent + 1
    BY <2>2, <1>t DEF GuestWrites, ProcessType
  <2>3. ASSUME GuestExits(h)
        PROVE  /\ process'[h].stream = process[h].stream /\ process'[h].at = "ended"
               /\ process'[h].sent = process[h].sent
    BY <2>3, <1>t DEF GuestExits, ProcessType
  <2> QED BY <2>1, <2>2, <2>3 DEF GuestStarts, GuestWrites, GuestExits, Messages
<1>3. CASE process[h].stream # "open" BY <1>0, <1>1, <1>2, <1>3 DEF OutputSound
<1>4. CASE process[h].stream = "open"
  <2> DEFINE w == wire[h]
             v == Append(w, m)
  <2>1. wire'[h] = v BY <1>2, <1>4, <1>t DEF Tell, Streaming
  <2>2. /\ w \in Seq(Messages) /\ Len(w) \in Nat /\ Len(v) = Len(w) + 1 /\ v[Len(v)] = m
        /\ \A i \in 1..Len(w) : v[i] = w[i]
    BY <1>t
  <2>3. /\ process[h].at = "starting" => Len(w) = 0
        /\ WireOrdered(w, process[h].at) /\ process[h].at # "ended"
        /\ Len(w) + handle[h].heard = process[h].sent + One(PidWaits(w))
    BY <1>0, <1>4, <1>t DEF OutputSound, One
  <2>4. \A i \in 1..Len(w) : (w[i] = "pid" => i = 1) /\ w[i] # "exit" BY <2>3 DEF WireOrdered
  <2> HIDE DEF v, w
  <2>5. WireOrdered(v, process'[h].at)
    <3> SUFFICES ASSUME NEW i \in 1..Len(v)
                 PROVE  (v[i] = "pid" => i = 1) /\ (v[i] = "exit" <=> process'[h].at = "ended" /\ i = Len(v))
      BY DEF WireOrdered
    <3>1. CASE i = Len(v)
      <4>1. v[i] = m /\ (process[h].at = "starting" => i = 1) BY <2>2, <2>3, <3>1
      <4> QED BY <4>1, <3>1, <1>2
    <3>2. CASE i # Len(v)
      <4>1. i \in 1..Len(w) /\ v[i] = w[i] BY <2>2, <3>2
      <4>2. process[h].at = "starting" => FALSE BY <2>2, <2>3, <4>1
      <4> QED BY <4>1, <4>2, <2>4, <3>2
    <3> QED BY <3>1, <3>2
  <2>6. Len(v) + handle[h].heard = process'[h].sent + One(PidWaits(v)) + One(process'[h].at = "ended")
    <3>0. /\ process'[h].sent = process[h].sent + One(m = "out")
          /\ One(process'[h].at = "ended") = One(m = "exit")
          /\ One(m = "pid") + One(m = "out") + One(m = "exit") = 1
          /\ One(m = "pid") \in Nat /\ One(m = "out") \in Nat /\ One(m = "exit") \in Nat
          /\ process[h].at # "starting" => One(m = "pid") = 0
      BY <1>2, <1>t DEF One
    <3>1. CASE Len(w) = 0
      <4>1. One(PidWaits(w)) = 0 BY <3>1 DEF One, PidWaits
      <4>2. One(PidWaits(v)) = One(m = "pid") BY <3>1, <2>2 DEF One, PidWaits
      <4>3. Len(w) + handle[h].heard = process[h].sent BY <4>1, <2>3, <1>t
      <4> DEFINE a == One(m = "pid")
                 b == One(m = "out")
                 e == One(m = "exit")
      <4>4. /\ process'[h].sent = process[h].sent + b /\ a + b + e = 1 /\ a \in Nat /\ b \in Nat /\ e \in Nat
            /\ One(process'[h].at = "ended") = e /\ One(PidWaits(v)) = a
        BY <3>0, <4>2
      <4> HIDE DEF a, b, e
      <4> DEFINE k == Len(w)
                 l == Len(v)
                 y == handle[h].heard
                 s == process[h].sent
                 t == process'[h].sent
      <4>5. k \in Nat /\ y \in Nat /\ s \in Nat /\ l = k + 1 /\ t = s + b /\ k + y = s
            /\ a + b + e = 1 /\ a \in Nat /\ b \in Nat /\ e \in Nat
        BY <4>3, <4>4, <2>2, <1>t
      <4> HIDE DEF k, l, y, s, t
      <4>6. l + y = t + a + e BY <4>5
      <4> QED BY <4>4, <4>6 DEF l, y, t
    <3>2. CASE Len(w) > 0
      <4>1. One(PidWaits(v)) = One(PidWaits(w)) BY <3>2, <2>2 DEF One, PidWaits
      <4>2. process[h].at # "starting" /\ One(PidWaits(w)) \in Nat BY <3>2, <2>3 DEF One
      <4> DEFINE x == One(PidWaits(w))
                 b == One(m = "out")
                 e == One(m = "exit")
      <4>3. /\ process'[h].sent = process[h].sent + b /\ b + e = 1 /\ x \in Nat /\ b \in Nat /\ e \in Nat
            /\ One(process'[h].at = "ended") = e /\ One(PidWaits(v)) = x
            /\ Len(w) + handle[h].heard = process[h].sent + x
        BY <3>0, <4>1, <4>2, <2>3
      <4> HIDE DEF x, b, e
      <4> DEFINE k == Len(w)
                 l == Len(v)
                 y == handle[h].heard
                 s == process[h].sent
                 t == process'[h].sent
      <4>4. k \in Nat /\ y \in Nat /\ s \in Nat /\ l = k + 1 /\ t = s + b /\ k + y = s + x
            /\ b + e = 1 /\ x \in Nat /\ b \in Nat /\ e \in Nat
        BY <4>3, <2>2, <1>t
      <4> HIDE DEF k, l, y, s, t
      <4>5. l + y = t + x + e BY <4>4
      <4> QED BY <4>3, <4>5 DEF l, y, t
    <3> QED BY <3>1, <3>2, <2>2
  <2> QED BY <1>0, <1>1, <1>2, <1>4, <2>1, <2>2, <2>5, <2>6 DEF OutputSound
<1> QED BY <1>3, <1>4

\* What is heard leaves the stream; the exit is heard when all the rest was.
LEMMA HearingKeepsOutput ==
  ASSUME ExecShape, NEW h \in Handles, Local(h), OutputSound(h), Receive(h)
  PROVE  OutputSound(h)'
PROOF
<1> DEFINE w == wire[h]
           v == Tail(w)
<1>t. /\ process[h] \in ProcessType /\ handle[h] \in HandleType /\ process \in [Handles -> ProcessType]
      /\ handle \in [Handles -> HandleType] /\ w \in Seq(Messages) /\ wire \in [Handles -> Seq(Messages)]
      /\ handle[h].heard \in Nat /\ process[h].sent \in Nat
  BY DEF ExecShape, HandleType, ProcessType
<1>0. process[h].stream = "open" /\ w # <<>> /\ wire'[h] = v BY <1>t DEF Receive, Streaming
<1>1. /\ Len(w) \in Nat /\ Len(w) > 0 /\ Head(w) = w[1] /\ Len(v) = Len(w) - 1
      /\ \A i \in 1..Len(v) : v[i] = w[i + 1]
  BY <1>0, <1>t
<1>2. /\ process[h].at \in {"running", "ended"} /\ handle[h].outcome # "exit" /\ WireOrdered(w, process[h].at)
      /\ Len(w) + handle[h].heard = process[h].sent + One(PidWaits(w)) + One(process[h].at = "ended")
  BY <1>0, <1>1 DEF OutputSound
<1>3. \A i \in 1..Len(w) : (w[i] = "pid" => i = 1) /\ (w[i] = "exit" <=> process[h].at = "ended" /\ i = Len(w))
  BY <1>2 DEF WireOrdered
<1> HIDE DEF v, w
<1>4. WireOrdered(v, process[h].at) /\ One(PidWaits(v)) = 0
  <2>1. \A i \in 1..Len(v) : v[i] # "pid" /\ (v[i] = "exit" <=> process[h].at = "ended" /\ i = Len(v))
    <3> SUFFICES ASSUME NEW i \in 1..Len(v)
                 PROVE  v[i] # "pid" /\ (v[i] = "exit" <=> process[h].at = "ended" /\ i = Len(v))
      OBVIOUS
    <3>1. i + 1 \in 1..Len(w) /\ i + 1 # 1 /\ (i + 1 = Len(w) <=> i = Len(v)) BY <1>1
    <3>2. v[i] = w[i + 1] BY <1>1
    <3> QED BY <3>1, <3>2, <1>3
  <2>2. Len(v) > 0 => 1 \in 1..Len(v) BY <1>1
  <2> QED BY <2>1, <2>2 DEF WireOrdered, One, PidWaits
<1>5. One(PidWaits(w)) = One(w[1] = "pid") BY <1>1 DEF One, PidWaits
<1>6. CASE w[1] = "exit"
  <2>1. process[h].at = "ended" /\ Len(w) = 1
    <3>1. 1 \in 1..Len(w) BY <1>1
    <3> QED BY <3>1, <1>3, <1>6
  <2>2. handle[h].heard = process[h].sent BY <2>1, <1>2, <1>5, <1>6, <1>t DEF One
  <2>3. ReceiveExit(h) BY <1>1, <1>6 DEF Receive, ReceivePid, ReceiveOutput, w
  <2> DEFINE f == Finished(h, handle[h], "exit")
  <2>4. f \in HandleType /\ f.heard = handle[h].heard
    <3>1. handle[h] \in HandleType /\ "exit" \in HandleOutcomes \ {"none"} BY <1>t DEF HandleOutcomes
    <3>2. f \in HandleType BY <3>1, FinishedFacts
    <3>3. f.heard = handle[h].heard BY <3>1 DEF Finished, HandleType
    <3> QED BY <3>2, <3>3
  <2>5. handle'[h].heard = f.heard
    <3>1. handle' = [handle EXCEPT ![h] = [f EXCEPT !.timer = IF @ = "armed" THEN "cleared" ELSE @]]
      BY <2>3 DEF ReceiveExit
    <3> HIDE DEF f
    <3>2. handle'[h] = [f EXCEPT !.timer = IF @ = "armed" THEN "cleared" ELSE @] BY <3>1, <1>t
    <3> QED BY <3>2, <2>4 DEF HandleType
  <2>6. /\ process'[h].stream = "closed" /\ process'[h].at = process[h].at
        /\ process'[h].sent = process[h].sent
    BY <2>3, <1>t DEF ReceiveExit, ProcessType
  <2> QED BY <2>1, <2>2, <2>4, <2>5, <2>6 DEF OutputSound
<1>7. CASE w[1] # "exit"
  <2>1. /\ process'[h].stream = "open" /\ process'[h].at = process[h].at /\ process'[h].sent = process[h].sent
        /\ handle'[h].outcome = handle[h].outcome
        /\ handle'[h].heard = handle[h].heard + One(w[1] # "pid")
    <3>1. CASE ReceivePid(h)
      <4>1. w[1] = "pid" BY <3>1, <1>1 DEF ReceivePid, w
      <4>2. handle'[h].outcome = handle[h].outcome /\ handle'[h].heard = handle[h].heard
        BY <3>1, <1>t DEF ReceivePid, HandleType
      <4>3. /\ process'[h].stream = "open" /\ process'[h].at = process[h].at /\ process'[h].sent = process[h].sent
        BY <3>1, <1>0, <1>t DEF ReceivePid, ProcessType
      <4> QED BY <4>1, <4>2, <4>3, <1>t DEF One
    <3>2. CASE ReceiveOutput(h)
      <4>1. w[1] = "out" /\ process' = process BY <3>2, <1>1 DEF ReceiveOutput, w
      <4>2. handle'[h].outcome = handle[h].outcome /\ handle'[h].heard = handle[h].heard + 1
        BY <3>2, <1>t DEF ReceiveOutput, HandleType
      <4> QED BY <4>1, <4>2, <1>0 DEF One
    <3>3. ~ReceiveExit(h) BY <1>7, <1>1 DEF ReceiveExit, w
    <3> QED BY <3>1, <3>2, <3>3 DEF Receive
  <2>2. process[h].at = "ended" => Len(v) > 0
    <3>1. Len(w) \in 1..Len(w) /\ 1 \in 1..Len(w) BY <1>1
    <3>2. process[h].at = "ended" => Len(w) # 1 BY <3>1, <1>3, <1>7
    <3> QED BY <3>2, <1>1
  <2>3. Len(v) + handle'[h].heard = process[h].sent + One(process[h].at = "ended")
    <3>1. One(w[1] = "pid") + One(w[1] # "pid") = 1 /\ One(w[1] = "pid") \in Nat /\ One(w[1] # "pid") \in Nat
          /\ One(process[h].at = "ended") \in Nat
      BY DEF One
    <3>2. Len(w) + handle[h].heard = process[h].sent + One(w[1] = "pid") + One(process[h].at = "ended")
      BY <1>2, <1>5
    <3> DEFINE a == One(w[1] = "pid")
               b == One(w[1] # "pid")
               e == One(process[h].at = "ended")
    <3>3. a + b = 1 /\ a \in Nat /\ b \in Nat /\ e \in Nat BY <3>1
    <3>4. Len(w) + handle[h].heard = process[h].sent + a + e BY <3>2
    <3>5. handle'[h].heard = handle[h].heard + b /\ Len(v) = Len(w) - 1 BY <2>1, <1>1
    <3> HIDE DEF a, b, e
    <3> DEFINE k == Len(w)
               l == Len(v)
               x == handle[h].heard
               y == handle'[h].heard
               s == process[h].sent
    <3>6. k \in Nat /\ x \in Nat /\ s \in Nat /\ l = k - 1 /\ y = x + b /\ k + x = s + a + e
      BY <3>4, <3>5, <1>1, <1>t
    <3> HIDE DEF k, l, x, y, s
    <3>7. l + y = s + e BY <3>3, <3>6
    <3> QED BY <3>7 DEF e, l, y, s
  <2>4. One(process[h].at = "ended") \in Nat /\ process[h].sent \in Nat BY <1>t DEF One
  <2>5. Len(v) + handle'[h].heard = process[h].sent + One(PidWaits(v)) + One(process[h].at = "ended")
    BY <2>3, <2>4, <1>4
  <2> QED BY <1>0, <1>2, <1>4, <2>1, <2>2, <2>5 DEF OutputSound
<1> QED BY <1>6, <1>7

LEMMA OutputInit == ExecInit => \A h \in Handles : OutputSound(h)
PROOF
<1> SUFFICES ASSUME ExecInit, NEW h \in Handles PROVE OutputSound(h)
  OBVIOUS
<1>1. handle[h] = IdleHandle /\ process[h] = NoProcess /\ wire[h] = <<>> BY DEF ExecInit
<1>2. handle[h].outcome = "none" /\ handle[h].heard = 0 BY <1>1 DEF IdleHandle
<1>3. process[h].at = "none" /\ process[h].stream = "none" /\ process[h].sent = 0 BY <1>1 DEF NoProcess
<1> QED BY <1>1, <1>2, <1>3 DEF OutputSound

LEMMA OutputNext == OutputInv /\ [ExecNext]_execVars => OutputInv'
PROOF
<1> SUFFICES ASSUME OutputInv, [ExecNext]_execVars PROVE OutputInv'
  OBVIOUS
<1>1. PoolInv' BY PoolNext DEF OutputInv
<1>2. CASE UNCHANGED execVars BY <1>1, <1>2, Zenon DEF execVars, OutputInv, OutputSound
<1>3. CASE ExecNext
  <2>0. ExecShape /\ \A h \in Handles : Local(h) /\ OutputSound(h) BY DEF OutputInv, PoolInv
  <2>1. PICK h \in Handles :
          \/ \E kind \in Kinds : Spawn(h, kind)
          \/ ExecStep(h)
          \/ \E stubborn \in BOOLEAN : GuestStarts(h, stubborn)
          \/ GuestWrites(h) \/ GuestExits(h)
          \/ Terminate(h) \/ AbortCommand(h) \/ StreamBreaks(h)
    BY <1>3 DEF ExecNext
  <2>2. CASE \E kind \in Kinds : Spawn(h, kind)
    <3>1. process' = process /\ wire' = wire BY <2>2 DEF Spawn
    <3>2. \A g \in Handles : g # h => handle'[g] = handle[g] BY <2>0, <2>2 DEF Spawn, ExecShape
    <3>3. /\ handle'[h].heard = handle[h].heard
          /\ handle'[h].outcome = handle[h].outcome \/ handle'[h].outcome = "refused"
      BY <2>0, <2>2 DEF Spawn, ExecShape, HandleType
    <3>4. \A g \in Handles : NothingHeard(g) BY <3>1, <3>2, <3>3 DEF NothingHeard
    <3>5. \A g \in Handles : OutputSound(g)' BY <3>4, <2>0, QuietKeepsOutput
    <3> QED BY <3>5, <1>1 DEF OutputInv
  <2>3. CASE ~\E kind \in Kinds : Spawn(h, kind)
    <3>1. Contract(h)
      BY <2>0, <2>1, <2>3, GuestKeepsContract, StartKeepsContract, StopKeepsContract, ReceiveKeepsContract
         DEF ExecStep, GuestDies
    <3>2. ASSUME NEW g \in Handles, g # h PROVE OutputSound(g)'
      <4>1. NothingHeard(g) BY <3>1, <3>2 DEF Contract, OtherHandles, NothingHeard
      <4> QED BY <4>1, <2>0, QuietKeepsOutput
    <3>3. OutputSound(h)'
      BY <2>0, <2>1, <2>3, StopIsQuiet, QuietKeepsOutput, OpeningKeepsOutput, TellingKeepsOutput, HearingKeepsOutput
         DEF ExecStep, GuestDies
    <3> QED BY <1>1, <3>2, <3>3 DEF OutputInv
  <2> QED BY <2>2, <2>3
<1> QED BY <1>2, <1>3

\* An exit is told when the process has ended and all of its output was heard
\* (the handles of subprocess.ts and runExec), for any number of handles, of
\* chunks and of pauses, and whatever is terminated.
THEOREM ExitComesLast == ExecSpec => []ExitAfterOutput
PROOF
<1>1. ExecInit => OutputInv BY PoolInit, OutputInit DEF OutputInv
<1>2. OutputInv /\ [ExecNext]_execVars => OutputInv' BY OutputNext
<1>3. OutputInv => ExitAfterOutput BY DEF OutputInv, OutputSound, ExitAfterOutput
<1> QED BY <1>1, <1>2, <1>3, PTL DEF ExecSpec

-----------------------------------------------------------------------------
(* GuestDaemons.                                                           *)

DaemonType ==
  [name : DaemonNames \cup {""}, running : BOOLEAN, group : {"none", "up", "gone"}, strays : {"none", "up", "gone"}]
DaemonCallType ==
  [op : DaemonOperations, name : DaemonNames \cup {""},
   phase : {"idle", "terminals", "stops", "done", "refused", "failed"}, ran : SUBSET DaemonCalls]
StopType ==
  [phase : {"off", "look", "waits", "killed", "over", "unknown"}, of : DaemonCalls \cup {NoDaemon}]

Tables == [DaemonNames -> DaemonCalls \cup {NoDaemon}]

Launched(d) == daemon[d].group # "none"

\* What the table says of daemons, and the bound it keeps.
TableSound ==
  /\ \A n \in DaemonNames : table[n] # NoDaemon => Launched(table[n]) /\ daemon[table[n]].name = n
  /\ IsFiniteSet(TrackedIn(table)) /\ Cardinality(TrackedIn(table)) <= MaxDaemons

\* A daemon is recorded as running while its process runs, is in the table as
\* long, and is launched by a call that is over.
DaemonSound(d) ==
  /\ daemon[d].group = "up" => daemon[d].running
  /\ daemon[d].running => Launched(d) /\ table[daemon[d].name] = d
  /\ Launched(d) => daemon[d].name \in DaemonNames /\ daemonCall[d].phase = "done"

\* What a call found running is gone, or a stop of its name has yet to look, or
\* waits for that very daemon.
DaemonCallSound(c) ==
  /\ daemonCall[c].phase = "stops" /\ daemonCall[c].op # "stop_all" => daemonCall[c].name \in DaemonNames
  /\ \A d \in daemonCall[c].ran :
       /\ Launched(d)
       /\ daemonCall[c].phase = "done" => daemon[d].group = "gone"
       /\ daemonCall[c].phase = "stops" =>
            \/ daemon[d].group = "gone"
            \/ stopping[c][daemon[d].name].phase = "look"
            \/ stopping[c][daemon[d].name].phase = "waits" /\ stopping[c][daemon[d].name].of = d
  /\ \A n \in DaemonNames :
       stopping[c][n].phase = "waits" => stopping[c][n].of \in DaemonCalls /\ Launched(stopping[c][n].of)

DaemonsInv ==
  /\ DaemonsTypeOK
  /\ TableSound
  /\ \A d \in DaemonCalls : DaemonSound(d)
  /\ \A c \in DaemonCalls : DaemonCallSound(c)

-----------------------------------------------------------------------------
LEMMA DaemonTypes ==
  DaemonsTypeOK <=> /\ table \in Tables /\ daemon \in [DaemonCalls -> DaemonType]
                    /\ daemonCall \in [DaemonCalls -> DaemonCallType]
                    /\ stopping \in [DaemonCalls -> [DaemonNames -> StopType]]
PROOF BY DEF DaemonsTypeOK, Tables, DaemonType, DaemonCallType, StopType

LEMMA KilledIsGone ==
  ASSUME NEW daemons \in [DaemonCalls -> DaemonType], NEW d \in DaemonCalls
  PROVE  [daemons EXCEPT ![d].group = "gone"][d].group = "gone"
PROOF BY DEF DaemonType

\* A daemon that was launched keeps its name, and a group that is gone stays so.
Ages ==
  \A d \in DaemonCalls : Launched(d) =>
    /\ daemon'[d].name = daemon[d].name
    /\ daemon'[d].group = daemon[d].group \/ daemon'[d].group = "gone"

\* Calls that do not move are as sound as before, whatever the daemons do.
LEMMA CallStaysSound ==
  ASSUME DaemonsTypeOK, NEW c \in DaemonCalls, DaemonCallSound(c), Ages,
         daemonCall'[c] = daemonCall[c], stopping'[c] = stopping[c]
  PROVE  DaemonCallSound(c)'
PROOF
<1>1. \A d \in DaemonCalls : Launched(d) => Launched(d)' /\ daemon'[d].name = daemon[d].name
                                /\ (daemon[d].group = "gone" => daemon'[d].group = "gone")
  BY DEF Ages, Launched
<1>2. daemonCall[c].ran \subseteq DaemonCalls BY DaemonTypes DEF DaemonCallType
<1> QED BY <1>1, <1>2 DEF DaemonCallSound

-----------------------------------------------------------------------------
(* The table: what it holds, and how many.                                 *)

LEMMA FewerTracked ==
  ASSUME TableSound, NEW names, \A n \in DaemonNames : names[n] = table[n] \/ names[n] = NoDaemon
  PROVE  /\ IsFiniteSet(TrackedIn(names)) /\ Cardinality(TrackedIn(names)) \in Nat
         /\ Cardinality(TrackedIn(names)) <= MaxDaemons
PROOF
<1>1. TrackedIn(names) \subseteq TrackedIn(table) BY DEF TrackedIn
<1>2. IsFiniteSet(TrackedIn(table)) /\ Cardinality(TrackedIn(table)) \in Nat /\ Cardinality(TrackedIn(table)) <= MaxDaemons
  BY FS_CardinalityType DEF TableSound
<1>3. /\ IsFiniteSet(TrackedIn(names)) /\ Cardinality(TrackedIn(names)) \in Nat
      /\ Cardinality(TrackedIn(names)) <= Cardinality(TrackedIn(table))
  BY <1>1, <1>2, FS_Subset, FS_CardinalityType
<1> QED BY <1>2, <1>3, DaemonsAssumption

LEMMA OneMoreTracked ==
  ASSUME NEW names \in Tables, NEW n \in DaemonNames, NEW c \in DaemonCalls,
         IsFiniteSet(TrackedIn(names)), Cardinality(TrackedIn(names)) \in Nat,
         Cardinality(TrackedIn(names)) < MaxDaemons
  PROVE  /\ IsFiniteSet(TrackedIn([names EXCEPT ![n] = c]))
         /\ Cardinality(TrackedIn([names EXCEPT ![n] = c])) <= MaxDaemons
PROOF
<1>1. TrackedIn([names EXCEPT ![n] = c]) = TrackedIn(names) \cup {n}
  BY DaemonsAssumption DEF TrackedIn, Tables
<1>2. /\ IsFiniteSet(TrackedIn(names) \cup {n})
      /\ \/ Cardinality(TrackedIn(names) \cup {n}) = Cardinality(TrackedIn(names))
         \/ Cardinality(TrackedIn(names) \cup {n}) = Cardinality(TrackedIn(names)) + 1
  BY FS_AddElement
<1>3. Cardinality(TrackedIn(names) \cup {n}) <= MaxDaemons BY <1>2, DaemonsAssumption
<1> QED BY <1>1, <1>2, <1>3

\* An eviction forgets nothing but a daemon that does not run.
LEMMA EvictionForgetsStopped ==
  ASSUME DaemonsTypeOK, NEW room \in Evicted
  PROVE  /\ room \in Tables
         /\ \A n \in DaemonNames :
              room[n] = table[n] \/ (room[n] = NoDaemon /\ table[n] # NoDaemon /\ ~daemon[table[n]].running)
PROOF BY DaemonTypes DEF Evicted, Stoppable, TrackedIn, Tables

-----------------------------------------------------------------------------
LEMMA DaemonsInitInv == DaemonsInit => DaemonsInv
PROOF
<1> SUFFICES ASSUME DaemonsInit PROVE DaemonsInv
  OBVIOUS
<1> USE DaemonsAssumption
<1>1. DaemonsTypeOK
  <2>1. NeverStarted \in DaemonType /\ NewDaemonCall \in DaemonCallType /\ NotStopping \in StopType
    BY DEF NeverStarted, NewDaemonCall, NotStopping, DaemonType, DaemonCallType, StopType, DaemonOperations
  <2> QED BY <2>1, DaemonTypes DEF DaemonsInit, Tables
<1>2. TableSound
  <2>1. TrackedIn(table) = {} BY DEF DaemonsInit, TrackedIn
  <2>2. IsFiniteSet({}) /\ Cardinality({}) = 0 BY FS_EmptySet
  <2> QED BY <2>1, <2>2, SMTT(30) DEF TableSound, DaemonsInit
<1>3. \A d \in DaemonCalls : DaemonSound(d) BY DEF DaemonsInit, DaemonSound, Launched, NeverStarted
<1>4. \A c \in DaemonCalls : DaemonCallSound(c) BY DEF DaemonsInit, DaemonCallSound, NewDaemonCall, NotStopping
<1> QED BY <1>1, <1>2, <1>3, <1>4 DEF DaemonsInv

-----------------------------------------------------------------------------
(* Stop, and the processes: a daemon ages, and one stop moves.             *)

\* A step that lets daemons age and changes neither the table nor a call.
LEMMA AgeingKeepsTable ==
  ASSUME DaemonsInv, table' = table, \A d \in DaemonCalls : daemonCall'[d].phase = daemonCall[d].phase,
         \A d \in DaemonCalls :
           /\ daemon'[d].name = daemon[d].name
           /\ \/ daemon'[d].group = daemon[d].group /\ daemon'[d].running = daemon[d].running
              \/ Launched(d) /\ daemon'[d].group = "gone" /\ daemon'[d].running \in {daemon[d].running, FALSE}
  PROVE  TableSound' /\ Ages /\ \A d \in DaemonCalls : DaemonSound(d)'
PROOF
<1>1. \A d \in DaemonCalls : Launched(d)' <=> Launched(d) BY DEF Launched
<1>2. Ages BY DEF Ages
<1>3. TableSound'
  <2>1. TrackedIn(table)' = TrackedIn(table) BY DEF TrackedIn
  <2>2. \A n \in DaemonNames : table[n] # NoDaemon => table[n] \in DaemonCalls
    BY DaemonTypes DEF DaemonsInv, Tables
  <2> QED BY <2>1, <2>2, <1>1 DEF TableSound, DaemonsInv
<1>4. \A d \in DaemonCalls : DaemonSound(d)'
  <2> SUFFICES ASSUME NEW d \in DaemonCalls PROVE DaemonSound(d)'
    OBVIOUS
  <2>1. DaemonSound(d) BY DEF DaemonsInv
  <2> QED BY <2>1, <1>1 DEF DaemonSound
<1> QED BY <1>2, <1>3, <1>4

LEMMA ProcessKeepsInv ==
  ASSUME DaemonsInv, NEW d \in DaemonCalls, GroupEnds(d) \/ Strays(d) \/ WaitReturns(d)
  PROVE  DaemonsInv'
PROOF
<1>0. DaemonsTypeOK /\ DaemonSound(d) /\ daemon \in [DaemonCalls -> DaemonType] BY DaemonTypes DEF DaemonsInv
<1>1. table' = table /\ daemonCall' = daemonCall /\ stopping' = stopping
  BY DEF GroupEnds, Strays, WaitReturns
<1>2. /\ daemon' \in [DaemonCalls -> DaemonType]
      /\ \A e \in DaemonCalls :
           /\ daemon'[e].name = daemon[e].name
           /\ \/ daemon'[e].group = daemon[e].group /\ daemon'[e].running = daemon[e].running
              \/ Launched(e) /\ daemon'[e].group = "gone" /\ daemon'[e].running \in {daemon[e].running, FALSE}
  <2>1. CASE GroupEnds(d) BY <2>1, <1>0 DEF GroupEnds, DaemonType, Launched
  <2>2. CASE Strays(d)
    <3>1. PICK s \in {"up", "gone"} : daemon' = [daemon EXCEPT ![d].strays = s] BY <2>2 DEF Strays
    <3> QED BY <3>1, <1>0 DEF DaemonType
  <2>3. CASE WaitReturns(d) BY <2>3, <1>0 DEF WaitReturns, DaemonType, Launched
  <2> QED BY <2>1, <2>2, <2>3
<1>3. DaemonsTypeOK' BY <1>2, <1>0, <1>1, DaemonTypes DEF DaemonsTypeOK, DaemonType
<1>4. TableSound' /\ Ages /\ \A e \in DaemonCalls : DaemonSound(e)' BY <1>2, <1>1, AgeingKeepsTable
<1>5. \A c \in DaemonCalls : DaemonCallSound(c)' BY <1>0, <1>1, <1>4, CallStaysSound DEF DaemonsInv
<1> QED BY <1>3, <1>4, <1>5 DEF DaemonsInv

\* A step of one stop: it looks, sees the daemon stopped, or runs out of grace.
LEMMA StopKeepsInv ==
  ASSUME DaemonsInv, NEW c \in DaemonCalls, NEW n \in DaemonNames,
         StopLooks(c, n) \/ StopSees(c, n) \/ GraceEnds(c, n) \/ SecondGraceEnds(c, n)
  PROVE  DaemonsInv'
PROOF
<1> USE DaemonsAssumption
<1> DEFINE s == stopping[c][n]
<1>0. /\ DaemonsTypeOK /\ table \in Tables /\ daemon \in [DaemonCalls -> DaemonType]
      /\ daemonCall \in [DaemonCalls -> DaemonCallType] /\ stopping \in [DaemonCalls -> [DaemonNames -> StopType]]
      /\ s \in StopType /\ DaemonCallSound(c) /\ TableSound /\ \A d \in DaemonCalls : DaemonSound(d)
  BY DaemonTypes DEF DaemonsInv
<1>1. table' = table /\ daemonCall' = daemonCall
  BY DEF StopLooks, StopSees, GraceEnds, SecondGraceEnds
<1>2. /\ daemon' \in [DaemonCalls -> DaemonType]
      /\ \A e \in DaemonCalls :
           /\ daemon'[e].name = daemon[e].name
           /\ \/ daemon'[e].group = daemon[e].group /\ daemon'[e].running = daemon[e].running
              \/ Launched(e) /\ daemon'[e].group = "gone" /\ daemon'[e].running \in {daemon[e].running, FALSE}
  <2>1. CASE GraceEnds(c, n)
    <3>1. s.of \in DaemonCalls /\ Launched(s.of) BY <2>1, <1>0 DEF GraceEnds, DaemonCallSound
    <3>2. PICK d \in DaemonCalls : Launched(d) /\ daemon' = [daemon EXCEPT ![d].group = "gone"]
      BY <2>1, <3>1 DEF GraceEnds
    <3>3. daemon \in [DaemonCalls -> DaemonType] BY <1>0
    <3> QED BY <3>2, <3>3 DEF DaemonType
  <2>2. CASE daemon' = daemon BY <2>2, <1>0
  <2> QED BY <2>1, <2>2 DEF StopLooks, StopSees, SecondGraceEnds
<1>3. PICK t \in StopType :
        /\ stopping' = [stopping EXCEPT ![c][n] = t]
        /\ t.phase = "waits" => t.of \in DaemonCalls /\ Launched(t.of)
        /\ \A d \in daemonCall[c].ran :
             /\ daemon[d].name = n
             /\ s.phase = "look" \/ (s.phase = "waits" /\ s.of = d)
             => daemon'[d].group = "gone" \/ (t.phase = "waits" /\ t.of = d)
  <2>0. \A d \in daemonCall[c].ran : d \in DaemonCalls /\ Launched(d) BY <1>0 DEF DaemonCallSound, DaemonCallType
  <2>1. CASE StopLooks(c, n)
    <3> DEFINE t == IF table[n] = NoDaemon THEN [phase |-> "unknown", of |-> NoDaemon]
                    ELSE IF IsRunning(n) THEN [phase |-> "waits", of |-> table[n]]
                    ELSE [phase |-> "over", of |-> NoDaemon]
    <3>1. t \in StopType /\ stopping' = [stopping EXCEPT ![c][n] = t] /\ daemon' = daemon
      BY <2>1, <1>0 DEF StopLooks, StopType, Tables
    <3>2. t.phase = "waits" => t.of \in DaemonCalls /\ Launched(t.of)
      BY <1>0 DEF TableSound, Tables
    <3>3. s.phase = "look" BY <2>1 DEF StopLooks
    <3>4. ASSUME NEW d \in daemonCall[c].ran, daemon[d].name = n, daemon[d].group # "gone"
          PROVE  t.phase = "waits" /\ t.of = d
      <4>1. d \in DaemonCalls /\ daemon[d].group = "up" BY <3>4, <2>0, <1>0 DEF Launched, DaemonType
      <4>2. daemon[d].running /\ table[n] = d BY <4>1, <3>4, <1>0 DEF DaemonSound
      <4>3. d # NoDaemon BY <4>1
      <4> QED BY <4>2, <4>3 DEF IsRunning
    <3> HIDE DEF t
    <3> QED BY <3>1, <3>2, <3>4
  <2>2. CASE StopSees(c, n)
    <3> DEFINE t == [s EXCEPT !.phase = "over"]
    <3>1. t \in StopType /\ t.phase = "over" BY <1>0 DEF StopType
    <3>2. stopping' = [stopping EXCEPT ![c][n] = t] /\ daemon' = daemon BY <2>2, <1>0 DEF StopSees, StopType
    <3>3. ASSUME NEW d \in daemonCall[c].ran, daemon[d].name = n,
                 s.phase = "look" \/ (s.phase = "waits" /\ s.of = d)
          PROVE  daemon[d].group = "gone"
      <4>1. d \in DaemonCalls /\ ~daemon[d].running BY <3>3, <2>2, <2>0 DEF StopSees
      <4>2. daemon[d].group # "up" /\ daemon[d].group # "none" BY <4>1, <2>0, <1>0 DEF DaemonSound, Launched
      <4> QED BY <4>1, <4>2, <1>0 DEF DaemonType
    <3> HIDE DEF t
    <3> QED BY <3>1, <3>2, <3>3
  <2>3. CASE GraceEnds(c, n)
    <3> DEFINE t == [s EXCEPT !.phase = "killed"]
    <3>1. t \in StopType /\ t.phase = "killed" BY <1>0 DEF StopType
    <3>2. stopping' = [stopping EXCEPT ![c][n] = t] BY <2>3, <1>0 DEF GraceEnds, StopType
    <3>3. ASSUME NEW d \in daemonCall[c].ran, s.phase = "look" \/ (s.phase = "waits" /\ s.of = d)
          PROVE  daemon'[d].group = "gone"
      <4>1. s.of = d /\ daemon' = [daemon EXCEPT ![d].group = "gone"] /\ d \in DaemonCalls
        BY <3>3, <2>3, <2>0 DEF GraceEnds
      <4>2. daemon \in [DaemonCalls -> DaemonType] BY <1>0
      <4> QED BY <4>1, <4>2, KilledIsGone
    <3> HIDE DEF t
    <3> QED BY <3>1, <3>2, <3>3
  <2>4. CASE SecondGraceEnds(c, n)
    <3> DEFINE t == [s EXCEPT !.phase = "over"]
    <3>1. t \in StopType /\ t.phase = "over" BY <1>0 DEF StopType
    <3>2. stopping' = [stopping EXCEPT ![c][n] = t] BY <2>4, <1>0 DEF SecondGraceEnds, StopType
    <3>3. s.phase = "killed" BY <2>4 DEF SecondGraceEnds
    <3> HIDE DEF t
    <3> QED BY <3>1, <3>2, <3>3
  <2> QED BY <2>1, <2>2, <2>3, <2>4
<1>4. stopping' \in [DaemonCalls -> [DaemonNames -> StopType]] BY <1>0, <1>3
<1>5. DaemonsTypeOK' BY <1>0, <1>1, <1>2, <1>4, DaemonTypes DEF DaemonsTypeOK, DaemonType, DaemonCallType, StopType, Tables
<1>6. TableSound' /\ Ages /\ \A e \in DaemonCalls : DaemonSound(e)' BY <1>2, <1>1, AgeingKeepsTable
<1>7. ASSUME NEW b \in DaemonCalls PROVE DaemonCallSound(b)'
  <2>1. CASE b # c
    <3>1. stopping'[b] = stopping[b] BY <2>1, <1>0, <1>3
    <3> QED BY <3>1, <1>0, <1>1, <1>6, CallStaysSound DEF DaemonsInv
  <2>2. CASE b = c
    <3>1. \A d \in DaemonCalls : Launched(d) => Launched(d)' /\ daemon'[d].name = daemon[d].name
                                     /\ (daemon[d].group = "gone" => daemon'[d].group = "gone")
      BY <1>6 DEF Ages, Launched
    <3>2. /\ stopping'[c][n] = t
          /\ \A m \in DaemonNames : m # n => stopping'[c][m] = stopping[c][m]
      BY <1>0, <1>3
    <3>3. ASSUME NEW m \in DaemonNames, stopping'[c][m].phase = "waits"
          PROVE  stopping'[c][m].of \in DaemonCalls /\ daemon'[stopping'[c][m].of].group # "none"
      <4>1. CASE m = n BY <4>1, <3>3, <3>2, <3>1, <1>3 DEF Launched
      <4>2. CASE m # n BY <4>2, <3>3, <3>2, <3>1, <1>0 DEF DaemonCallSound, Launched
      <4> QED BY <4>1, <4>2
    <3>4. ASSUME NEW d \in daemonCall[c].ran, daemonCall[c].phase = "stops"
          PROVE  \/ daemon'[d].group = "gone"
                 \/ stopping'[c][daemon[d].name].phase = "look"
                 \/ stopping'[c][daemon[d].name].phase = "waits" /\ stopping'[c][daemon[d].name].of = d
      <4>0. d \in DaemonCalls /\ Launched(d) /\ daemon[d].name \in DaemonNames
        BY <1>0 DEF DaemonCallSound, DaemonCallType, DaemonSound
      <4>1. CASE daemon[d].name # n BY <4>0, <4>1, <3>4, <3>1, <3>2, <1>0 DEF DaemonCallSound
      <4>2. CASE daemon[d].name = n /\ daemon[d].group = "gone" BY <4>0, <4>2, <3>1
      <4>3. CASE daemon[d].name = n /\ daemon[d].group # "gone"
        <5>1. s.phase = "look" \/ (s.phase = "waits" /\ s.of = d) BY <4>3, <3>4, <1>0 DEF DaemonCallSound
        <5> QED BY <5>1, <4>3, <3>2, <1>3
      <4> QED BY <4>1, <4>2, <4>3
    <3>5. \A d \in daemonCall[c].ran : d \in DaemonCalls /\ Launched(d)' /\ daemon'[d].name = daemon[d].name
                                         /\ (daemonCall[c].phase = "done" => daemon'[d].group = "gone")
      BY <1>0, <3>1 DEF DaemonCallSound, DaemonCallType
    <3>6. daemonCall'[c] = daemonCall[c] BY <1>1
    <3>7. daemonCall[c].phase = "stops" /\ daemonCall[c].op # "stop_all" => daemonCall[c].name \in DaemonNames
      BY <1>0 DEF DaemonCallSound
    <3> QED BY <2>2, <3>3, <3>4, <3>5, <3>6, <3>7 DEF DaemonCallSound, Launched
  <2> QED BY <2>1, <2>2
<1> QED BY <1>5, <1>6, <1>7 DEF DaemonsInv

-----------------------------------------------------------------------------
(* The calls.  A step of a call that launches nothing leaves the table and *)
(* the daemons, and has to be sound itself.                                *)

LEMMA PhaseOfCall ==
  ASSUME NEW k \in DaemonCallType, NEW p \in {"idle", "terminals", "stops", "done", "refused", "failed"}
  PROVE  /\ [k EXCEPT !.phase = p] \in DaemonCallType /\ [k EXCEPT !.phase = p].phase = p
         /\ [k EXCEPT !.phase = p].ran = k.ran /\ [k EXCEPT !.phase = p].op = k.op
PROOF BY DEF DaemonCallType

LEMMA MovedCallKeepsInv ==
  ASSUME DaemonsInv, NEW c \in DaemonCalls, table' = table, daemon' = daemon,
         daemonCall[c].phase # "done" \/ daemonCall'[c].phase = "done",
         NEW r \in DaemonCallType, daemonCall' = [daemonCall EXCEPT ![c] = r],
         r.phase = "stops" /\ r.op # "stop_all" => r.name \in DaemonNames,
         NEW f \in [DaemonNames -> StopType], stopping' = [stopping EXCEPT ![c] = f],
         \A d \in r.ran :
           /\ Launched(d)
           /\ r.phase = "done" => daemon[d].group = "gone"
           /\ r.phase = "stops" =>
                \/ daemon[d].group = "gone"
                \/ f[daemon[d].name].phase = "look"
                \/ f[daemon[d].name].phase = "waits" /\ f[daemon[d].name].of = d,
         \A n \in DaemonNames : f[n].phase = "waits" => f[n].of \in DaemonCalls /\ Launched(f[n].of)
  PROVE  DaemonsInv'
PROOF
<1>0. /\ DaemonsTypeOK /\ daemonCall \in [DaemonCalls -> DaemonCallType]
      /\ stopping \in [DaemonCalls -> [DaemonNames -> StopType]] /\ TableSound
  BY DaemonTypes DEF DaemonsInv
<1>1. /\ daemonCall' \in [DaemonCalls -> DaemonCallType] /\ stopping' \in [DaemonCalls -> [DaemonNames -> StopType]]
      /\ daemonCall'[c] = r /\ stopping'[c] = f
      /\ \A b \in DaemonCalls : b # c => daemonCall'[b] = daemonCall[b] /\ stopping'[b] = stopping[b]
  BY <1>0
<1>2. DaemonsTypeOK' BY <1>0, <1>1, DaemonTypes DEF DaemonsTypeOK, DaemonType, DaemonCallType, StopType, Tables
<1>3. TableSound' BY <1>0 DEF TableSound, TrackedIn, Launched
<1>4. ASSUME NEW d \in DaemonCalls PROVE DaemonSound(d)'
  <2>1. DaemonSound(d) /\ (daemonCall[d].phase = "done" => daemonCall'[d].phase = "done") BY <1>1 DEF DaemonsInv
  <2> QED BY <2>1 DEF DaemonSound, Launched
<1>5. ASSUME NEW b \in DaemonCalls PROVE DaemonCallSound(b)'
  <2>1. CASE b = c BY <2>1, <1>1 DEF DaemonCallSound, Launched
  <2>2. CASE b # c
    <3>1. Ages /\ DaemonCallSound(b) BY DEF Ages, DaemonsInv
    <3> QED BY <2>2, <3>1, <1>0, <1>1, CallStaysSound
  <2> QED BY <2>1, <2>2
<1> QED BY <1>2, <1>3, <1>4, <1>5 DEF DaemonsInv

\* A call that begins found what runs under its name, and looks for it.
LEMMA BeginKeepsInv ==
  ASSUME DaemonsInv, NEW c \in DaemonCalls, NEW n \in DaemonNames,
         StartDaemon(c, n) \/ StopDaemon(c, n) \/ RestartDaemon(c, n)
  PROVE  DaemonsInv'
PROOF
<1> USE DaemonsAssumption
<1>0. /\ DaemonsTypeOK /\ daemonCall \in [DaemonCalls -> DaemonCallType] /\ table \in Tables
      /\ stopping \in [DaemonCalls -> [DaemonNames -> StopType]] /\ TableSound
      /\ DaemonCallSound(c) /\ daemonCall[c].phase = "idle" /\ table' = table /\ daemon' = daemon
  BY DaemonTypes DEF DaemonsInv, StartDaemon, StopDaemon, RestartDaemon
<1>1. CASE \E o \in {"start", "stop", "restart"} :
             /\ daemonCall' = [daemonCall EXCEPT ![c] = [op |-> o, name |-> n, phase |-> "stops", ran |-> RunningAs(n)]]
             /\ \/ stopping' = [stopping EXCEPT ![c][n].phase = "look"]
                \/ ~IsRunning(n) /\ stopping' = stopping
  <2>0. PICK o \in {"start", "stop", "restart"} :
             /\ daemonCall' = [daemonCall EXCEPT ![c] = [op |-> o, name |-> n, phase |-> "stops", ran |-> RunningAs(n)]]
             /\ \/ stopping' = [stopping EXCEPT ![c][n].phase = "look"]
                \/ ~IsRunning(n) /\ stopping' = stopping
    BY <1>1
  <2> DEFINE r == [op |-> o, name |-> n, phase |-> "stops", ran |-> RunningAs(n)]
  <2> DEFINE looks == [stopping[c] EXCEPT ![n].phase = "look"]
  <2>1. RunningAs(n) \subseteq DaemonCalls /\ \A d \in RunningAs(n) : IsRunning(n) /\ d = table[n]
    BY <1>0 DEF RunningAs, IsRunning, Tables
  <2>2. r \in DaemonCallType BY <2>1 DEF DaemonCallType, DaemonOperations
  <2>3. looks \in [DaemonNames -> StopType] /\ looks[n].phase = "look"
        /\ \A m \in DaemonNames : looks[m].phase = "waits" => m # n /\ looks[m] = stopping[c][m]
    <3>1. stopping[c] \in [DaemonNames -> StopType] BY <1>0
    <3> QED BY <3>1 DEF StopType
  <2>4. PICK f \in [DaemonNames -> StopType] :
          /\ stopping' = [stopping EXCEPT ![c] = f]
          /\ IsRunning(n) => f[n].phase = "look"
          /\ \A m \in DaemonNames : f[m].phase = "waits" => stopping[c][m].phase = "waits" /\ f[m] = stopping[c][m]
    <3>1. CASE stopping' = [stopping EXCEPT ![c][n].phase = "look"]
      <4>1. stopping' = [stopping EXCEPT ![c] = looks] BY <3>1, <1>0
      <4> HIDE DEF looks
      <4> QED BY <4>1, <2>3
    <3>2. CASE ~IsRunning(n) /\ stopping' = stopping
      <4>1. stopping' = [stopping EXCEPT ![c] = stopping[c]] /\ stopping[c] \in [DaemonNames -> StopType] BY <3>2, <1>0
      <4> QED BY <4>1, <3>2
    <3> QED BY <2>0, <3>1, <3>2
  <2>5. \A d \in r.ran : Launched(d) /\ f[daemon[d].name].phase = "look"
    <3> SUFFICES ASSUME NEW d \in RunningAs(n) PROVE Launched(d) /\ f[daemon[d].name].phase = "look"
      OBVIOUS
    <3>1. IsRunning(n) /\ d = table[n] /\ table[n] # NoDaemon BY <2>1 DEF IsRunning
    <3> QED BY <3>1, <2>4, <1>0 DEF TableSound
  <2>6. \A m \in DaemonNames : f[m].phase = "waits" => f[m].of \in DaemonCalls /\ Launched(f[m].of)
    BY <2>4, <1>0 DEF DaemonCallSound
  <2>7. r.phase = "stops" /\ r.name \in DaemonNames OBVIOUS
  <2>8. daemonCall' = [daemonCall EXCEPT ![c] = r] BY <2>0
  <2> HIDE DEF r, looks
  <2>9. \A d \in r.ran :
           /\ Launched(d)
           /\ r.phase = "done" => daemon[d].group = "gone"
           /\ r.phase = "stops" =>
                \/ daemon[d].group = "gone"
                \/ f[daemon[d].name].phase = "look"
                \/ f[daemon[d].name].phase = "waits" /\ f[daemon[d].name].of = d
    BY <2>5, <2>7
  <2>10. stopping' = [stopping EXCEPT ![c] = f] /\ daemonCall[c].phase # "done" BY <2>4, <1>0
  <2> QED BY <2>2, <2>6, <2>7, <2>8, <2>9, <2>10, <1>0, MovedCallKeepsInv
<1>2. CASE DaemonPhase(c, "refused") /\ stopping' = stopping
  <2> DEFINE r == [daemonCall[c] EXCEPT !.phase = "refused"]
  <2>1. r \in DaemonCallType /\ r.phase = "refused" /\ r.ran = daemonCall[c].ran
    <3>1. daemonCall[c] \in DaemonCallType BY <1>0
    <3> QED BY <3>1, PhaseOfCall
  <2>2. daemonCall' = [daemonCall EXCEPT ![c] = r] BY <1>2, <1>0 DEF DaemonPhase
  <2>3. stopping' = [stopping EXCEPT ![c] = stopping[c]] /\ stopping[c] \in [DaemonNames -> StopType] BY <1>2, <1>0
  <2> HIDE DEF r
  <2> QED BY <2>1, <2>2, <2>3, <1>0, MovedCallKeepsInv DEF DaemonCallSound
<1> QED BY <1>1, <1>2 DEF StartDaemon, StopDaemon, RestartDaemon

\* The shutdown of the container: what ran when it began is listed, or gone.
LEMMA StopAllKeepsInv ==
  ASSUME DaemonsInv, NEW c \in DaemonCalls, StopAllDaemons(c) \/ StopAllLists(c)
  PROVE  DaemonsInv'
PROOF
<1> USE DaemonsAssumption
<1>0. /\ DaemonsTypeOK /\ daemonCall \in [DaemonCalls -> DaemonCallType] /\ table \in Tables
      /\ stopping \in [DaemonCalls -> [DaemonNames -> StopType]] /\ daemon \in [DaemonCalls -> DaemonType]
      /\ DaemonCallSound(c) /\ table' = table /\ daemon' = daemon
      /\ \A d \in DaemonCalls : DaemonSound(d)
  BY DaemonTypes DEF DaemonsInv, StopAllDaemons, StopAllLists
<1>1. CASE StopAllDaemons(c)
  <2> DEFINE r == [daemonCall[c] EXCEPT !.op = "stop_all", !.phase = "terminals",
                                        !.ran = {d \in DaemonCalls : daemon[d].running}]
  <2>1. r \in DaemonCallType /\ r.phase = "terminals" /\ r.ran = {d \in DaemonCalls : daemon[d].running}
    <3>1. daemonCall[c] \in DaemonCallType BY <1>0
    <3> QED BY <3>1 DEF DaemonCallType, DaemonOperations
  <2>2. daemonCall' = [daemonCall EXCEPT ![c] = r] BY <1>1, <1>0 DEF StopAllDaemons
  <2>3. stopping' = [stopping EXCEPT ![c] = stopping[c]] /\ stopping[c] \in [DaemonNames -> StopType]
    BY <1>1, <1>0 DEF StopAllDaemons
  <2>4. \A d \in r.ran : Launched(d) BY <2>1, <1>0 DEF DaemonSound
  <2>5. daemonCall[c].phase = "idle" BY <1>1 DEF StopAllDaemons
  <2> HIDE DEF r
  <2> QED BY <2>1, <2>2, <2>3, <2>4, <2>5, <1>0, MovedCallKeepsInv DEF DaemonCallSound
<1>2. CASE StopAllLists(c)
  <2> DEFINE r == [daemonCall[c] EXCEPT !.phase = "stops"]
  <2> DEFINE f == [n \in DaemonNames |-> IF IsRunning(n) THEN [phase |-> "look", of |-> NoDaemon] ELSE NotStopping]
  <2>1. r \in DaemonCallType /\ r.phase = "stops" /\ r.ran = daemonCall[c].ran /\ r.op = "stop_all"
    <3>1. daemonCall[c] \in DaemonCallType /\ daemonCall[c].op = "stop_all" BY <1>0, <1>2 DEF StopAllLists
    <3> QED BY <3>1, PhaseOfCall
  <2>2. daemonCall' = [daemonCall EXCEPT ![c] = r] BY <1>2, <1>0 DEF StopAllLists, DaemonPhase
  <2>3. stopping' = [stopping EXCEPT ![c] = f] BY <1>2 DEF StopAllLists
  <2>4. /\ f \in [DaemonNames -> StopType]
        /\ \A n \in DaemonNames : f[n].phase # "waits" /\ (IsRunning(n) => f[n].phase = "look")
    BY DEF StopType, NotStopping
  <2>5. ASSUME NEW d \in r.ran
        PROVE  Launched(d) /\ (daemon[d].group = "gone" \/ f[daemon[d].name].phase = "look")
    <3>1. d \in DaemonCalls /\ Launched(d) BY <2>1, <1>0 DEF DaemonCallSound, DaemonCallType
    <3>2. CASE daemon[d].group # "gone"
      <4>1. daemon[d].group = "up" BY <3>1, <3>2, <1>0 DEF Launched, DaemonType
      <4>2. daemon[d].running /\ table[daemon[d].name] = d /\ daemon[d].name \in DaemonNames
        BY <3>1, <4>1, <1>0 DEF DaemonSound
      <4>3. IsRunning(daemon[d].name) BY <3>1, <4>2 DEF IsRunning
      <4> QED BY <3>1, <4>2, <4>3, <2>4
    <3> QED BY <3>1, <3>2
  <2>6. daemonCall[c].phase = "terminals" BY <1>2 DEF StopAllLists
  <2> HIDE DEF r, f
  <2>7. \A d \in r.ran :
           /\ Launched(d)
           /\ r.phase = "done" => daemon[d].group = "gone"
           /\ r.phase = "stops" =>
                \/ daemon[d].group = "gone"
                \/ f[daemon[d].name].phase = "look"
                \/ f[daemon[d].name].phase = "waits" /\ f[daemon[d].name].of = d
    BY <2>1, <2>5
  <2>8. \A n \in DaemonNames : f[n].phase = "waits" => f[n].of \in DaemonCalls /\ Launched(f[n].of) BY <2>4
  <2>9. f \in [DaemonNames -> StopType] /\ daemonCall[c].phase # "done" /\ r \in DaemonCallType /\ r.op = "stop_all"
    BY <2>1, <2>4, <2>6
  <2> QED BY <2>2, <2>3, <2>7, <2>8, <2>9, <1>0, MovedCallKeepsInv
<1> QED BY <1>1, <1>2

\* A call whose stops are through left nothing of what it found.
LEMMA ThroughMeansGone ==
  ASSUME DaemonsInv, NEW c \in DaemonCalls, daemonCall[c].phase = "stops", Through(c)
  PROVE  \A d \in daemonCall[c].ran : d \in DaemonCalls /\ Launched(d) /\ daemon[d].group = "gone"
PROOF
<1> SUFFICES ASSUME NEW d \in daemonCall[c].ran
             PROVE  d \in DaemonCalls /\ Launched(d) /\ daemon[d].group = "gone"
  OBVIOUS
<1>1. d \in DaemonCalls /\ Launched(d) BY DaemonTypes DEF DaemonsInv, DaemonCallSound, DaemonCallType
<1>2. daemon[d].name \in DaemonNames BY <1>1 DEF DaemonsInv, DaemonSound
<1> QED BY <1>1, <1>2 DEF DaemonsInv, DaemonCallSound, Through

LEMMA ReturnKeepsInv ==
  ASSUME DaemonsInv, NEW c \in DaemonCalls, daemonCall[c].phase = "stops", Through(c),
         NEW p \in {"done", "refused", "failed"}, DaemonPhase(c, p), UNCHANGED <<table, daemon, stopping>>
  PROVE  DaemonsInv'
PROOF
<1>0. /\ DaemonsTypeOK /\ daemonCall \in [DaemonCalls -> DaemonCallType]
      /\ stopping \in [DaemonCalls -> [DaemonNames -> StopType]] /\ DaemonCallSound(c)
  BY DaemonTypes DEF DaemonsInv
<1> DEFINE r == [daemonCall[c] EXCEPT !.phase = p]
<1>1. r \in DaemonCallType /\ r.phase = p /\ r.ran = daemonCall[c].ran
  <2>1. daemonCall[c] \in DaemonCallType BY <1>0
  <2>2. p \in {"idle", "terminals", "stops", "done", "refused", "failed"} OBVIOUS
  <2> QED BY <2>1, <2>2, PhaseOfCall
<1>2. daemonCall' = [daemonCall EXCEPT ![c] = r] BY <1>0 DEF DaemonPhase
<1>3. stopping' = [stopping EXCEPT ![c] = stopping[c]] /\ stopping[c] \in [DaemonNames -> StopType] BY <1>0
<1>4. \A d \in r.ran : Launched(d) /\ daemon[d].group = "gone" BY <1>1, ThroughMeansGone
<1> HIDE DEF r
<1> QED BY <1>1, <1>2, <1>3, <1>4, <1>0, MovedCallKeepsInv DEF DaemonCallSound

-----------------------------------------------------------------------------
(* The launch: an eviction, and a new daemon in the table.                 *)

\* The start comes to nothing, or only to the eviction of a stopped daemon.
LEMMA EvictionKeepsInv ==
  ASSUME DaemonsInv, NEW c \in DaemonCalls, daemonCall[c].phase = "stops", Through(c),
         NEW p \in {"refused", "failed"}, DaemonPhase(c, p), UNCHANGED <<daemon, stopping>>,
         NEW room, table' = room, room \in Evicted
  PROVE  DaemonsInv'
PROOF
<1>0. /\ DaemonsTypeOK /\ table \in Tables /\ daemonCall \in [DaemonCalls -> DaemonCallType]
      /\ daemon \in [DaemonCalls -> DaemonType] /\ stopping \in [DaemonCalls -> [DaemonNames -> StopType]]
      /\ TableSound
  BY DaemonTypes DEF DaemonsInv
<1>1. /\ room \in Tables
      /\ \A n \in DaemonNames :
           room[n] = table[n] \/ (room[n] = NoDaemon /\ table[n] # NoDaemon /\ ~daemon[table[n]].running)
  BY <1>0, EvictionForgetsStopped
<1>2. TableSound'
  <2>1. IsFiniteSet(TrackedIn(room)) /\ Cardinality(TrackedIn(room)) <= MaxDaemons BY <1>0, <1>1, FewerTracked
  <2>2. \A n \in DaemonNames : table'[n] # NoDaemon => table'[n] = table[n] BY <1>1
  <2>3. TrackedIn(table)' = TrackedIn(room) BY DEF TrackedIn
  <2> QED BY <2>1, <2>2, <2>3, <1>0 DEF TableSound, Launched
<1>3. ASSUME NEW d \in DaemonCalls PROVE DaemonSound(d)'
  <2>1. DaemonSound(d) BY DEF DaemonsInv
  <2>2. daemonCall[d].phase = "done" => daemonCall'[d].phase = "done" BY <1>0 DEF DaemonPhase
  <2>3. daemon[d].running => table'[daemon[d].name] = d BY <2>1, <1>1 DEF DaemonSound
  <2> QED BY <2>1, <2>2, <2>3 DEF DaemonSound, Launched
<1> DEFINE r == [daemonCall[c] EXCEPT !.phase = p]
<1>4. r \in DaemonCallType /\ r.phase = p /\ r.ran = daemonCall[c].ran
  <2>1. daemonCall[c] \in DaemonCallType /\ p \in {"idle", "terminals", "stops", "done", "refused", "failed"} BY <1>0
  <2> QED BY <2>1, PhaseOfCall
<1>5. daemonCall' = [daemonCall EXCEPT ![c] = r] BY <1>0 DEF DaemonPhase
<1> HIDE DEF r
<1>6. DaemonsTypeOK'
  <2>1. daemonCall' \in [DaemonCalls -> DaemonCallType] BY <1>0, <1>4, <1>5
  <2> QED BY <2>1, <1>0, <1>1, DaemonTypes DEF DaemonsTypeOK, DaemonType, DaemonCallType, StopType, Tables
<1>7. ASSUME NEW b \in DaemonCalls PROVE DaemonCallSound(b)'
  <2>1. DaemonCallSound(b) /\ Ages BY DEF DaemonsInv, Ages
  <2>2. CASE b # c BY <2>1, <2>2, <1>0, <1>5, CallStaysSound
  <2>3. CASE b = c BY <2>1, <2>3, <1>0, <1>4, <1>5 DEF DaemonCallSound, Launched
  <2> QED BY <2>2, <2>3
<1> QED BY <1>2, <1>3, <1>6, <1>7 DEF DaemonsInv

\* The start succeeds: the new daemon is under its name, and the one it
\* replaced is not running.
LEMMA LaunchKeepsInv ==
  ASSUME DaemonsInv, NEW c \in DaemonCalls, daemonCall[c].phase = "stops", Through(c),
         NEW n \in DaemonNames, ~IsRunning(n), NEW room \in Evicted, Cardinality(TrackedIn(room)) < MaxDaemons,
         table' = [room EXCEPT ![n] = c],
         daemon' = [daemon EXCEPT ![c] = [name |-> n, running |-> TRUE, group |-> "up", strays |-> "none"]],
         DaemonPhase(c, "done"), UNCHANGED stopping
  PROVE  DaemonsInv'
PROOF
<1> USE DaemonsAssumption
<1>0. /\ DaemonsTypeOK /\ table \in Tables /\ daemonCall \in [DaemonCalls -> DaemonCallType]
      /\ daemon \in [DaemonCalls -> DaemonType] /\ stopping \in [DaemonCalls -> [DaemonNames -> StopType]]
      /\ TableSound /\ \A d \in DaemonCalls : DaemonSound(d)
  BY DaemonTypes DEF DaemonsInv
<1>1. /\ room \in Tables
      /\ \A m \in DaemonNames :
           room[m] = table[m] \/ (room[m] = NoDaemon /\ table[m] # NoDaemon /\ ~daemon[table[m]].running)
  BY <1>0, EvictionForgetsStopped
<1>2. ~Launched(c) BY <1>0 DEF DaemonSound
<1>3. /\ daemon'[c].name = n /\ daemon'[c].running /\ daemon'[c].group = "up"
      /\ \A d \in DaemonCalls : d # c => daemon'[d] = daemon[d]
      /\ daemon' \in [DaemonCalls -> DaemonType]
  BY <1>0 DEF DaemonType
<1>4. Ages BY <1>2, <1>3 DEF Ages
<1>5. /\ table' \in Tables /\ table'[n] = c
      /\ \A m \in DaemonNames : m # n => table'[m] = room[m]
  BY <1>1 DEF Tables
<1>6. TableSound'
  <2>1. IsFiniteSet(TrackedIn(room)) /\ Cardinality(TrackedIn(room)) \in Nat BY <1>0, <1>1, FewerTracked
  <2>2. IsFiniteSet(TrackedIn(table')) /\ Cardinality(TrackedIn(table')) <= MaxDaemons
    BY <2>1, <1>1, OneMoreTracked
  <2>3. TrackedIn(table)' = TrackedIn(table') BY DEF TrackedIn
  <2>4. ASSUME NEW m \in DaemonNames, table'[m] # NoDaemon
        PROVE  daemon'[table'[m]].group # "none" /\ daemon'[table'[m]].name = m
    <3>1. CASE m = n BY <3>1, <1>3, <1>5
    <3>2. CASE m # n
      <4>1. table'[m] = table[m] /\ table[m] \in DaemonCalls BY <3>2, <2>4, <1>0, <1>1, <1>5 DEF Tables
      <4>2. Launched(table[m]) /\ daemon[table[m]].name = m BY <4>1, <2>4, <1>0 DEF TableSound
      <4>3. table[m] # c BY <4>2, <1>2
      <4> QED BY <4>1, <4>2, <4>3, <1>3 DEF Launched
    <3> QED BY <3>1, <3>2
  <2> QED BY <2>2, <2>3, <2>4 DEF TableSound, Launched
<1>7. daemonCall'[c].phase = "done" /\ \A d \in DaemonCalls : d # c => daemonCall'[d] = daemonCall[d]
  BY <1>0 DEF DaemonPhase, DaemonCallType
<1>8. ASSUME NEW d \in DaemonCalls PROVE DaemonSound(d)'
  <2>1. CASE d = c BY <2>1, <1>3, <1>5, <1>7 DEF DaemonSound, Launched
  <2>2. CASE d # c
    <3>1. DaemonSound(d) /\ daemon'[d] = daemon[d] /\ daemonCall'[d] = daemonCall[d] BY <2>2, <1>0, <1>3, <1>7
    <3>2. ASSUME daemon[d].running PROVE table'[daemon[d].name] = d
      <4>1. table[daemon[d].name] = d /\ daemon[d].name \in DaemonNames BY <3>1, <3>2 DEF DaemonSound
      <4>2. d # NoDaemon OBVIOUS
      <4>3. daemon[d].name # n BY <4>1, <4>2, <3>2 DEF IsRunning
      <4>4. room[daemon[d].name] = d BY <4>1, <3>2, <1>1
      <4> QED BY <4>1, <4>3, <4>4, <1>5
    <3> QED BY <3>1, <3>2 DEF DaemonSound, Launched
  <2> QED BY <2>1, <2>2
<1> DEFINE r == [daemonCall[c] EXCEPT !.phase = "done"]
<1>9. r \in DaemonCallType /\ r.phase = "done" /\ r.ran = daemonCall[c].ran
  <2>1. daemonCall[c] \in DaemonCallType BY <1>0
  <2> QED BY <2>1, PhaseOfCall
<1>10. daemonCall' = [daemonCall EXCEPT ![c] = r] BY <1>0 DEF DaemonPhase
<1> HIDE DEF r
<1>11. DaemonsTypeOK'
  <2>1. daemonCall' \in [DaemonCalls -> DaemonCallType] BY <1>0, <1>9, <1>10
  <2> QED BY <2>1, <1>0, <1>3, <1>5, DaemonTypes DEF DaemonsTypeOK, DaemonType, DaemonCallType, StopType, Tables
<1>12. ASSUME NEW b \in DaemonCalls PROVE DaemonCallSound(b)'
  <2>1. DaemonCallSound(b) BY DEF DaemonsInv
  <2>2. CASE b # c BY <2>1, <2>2, <1>0, <1>4, <1>7, CallStaysSound
  <2>3. CASE b = c
    <3>1. daemonCall'[c] = r BY <1>0, <1>10
    <3>2. ASSUME NEW d \in daemonCall[c].ran PROVE daemon'[d].group = "gone"
      <4>1. d \in DaemonCalls /\ Launched(d) /\ daemon[d].group = "gone" BY ThroughMeansGone
      <4> QED BY <4>1, <1>2, <1>3
    <3>3. ASSUME NEW m \in DaemonNames PROVE stopping'[c][m].phase # "waits" BY DEF Through
    <3> QED BY <2>3, <3>1, <3>2, <3>3, <1>9 DEF DaemonCallSound, Launched
  <2> QED BY <2>2, <2>3
<1> QED BY <1>6, <1>8, <1>11, <1>12 DEF DaemonsInv

LEMMA DaemonsNextKeepsInv == DaemonsInv /\ [DaemonsNext]_daemonVars => DaemonsInv'
PROOF
<1> SUFFICES ASSUME DaemonsInv, [DaemonsNext]_daemonVars PROVE DaemonsInv'
  OBVIOUS
<1>1. CASE UNCHANGED daemonVars
  <2>1. table' = table /\ daemon' = daemon /\ daemonCall' = daemonCall /\ stopping' = stopping BY <1>1 DEF daemonVars
  <2>2. DaemonsTypeOK' BY <2>1 DEF DaemonsInv, DaemonsTypeOK
  <2>3. TableSound' BY <2>1 DEF DaemonsInv, TableSound, TrackedIn, Launched
  <2>4. \A d \in DaemonCalls : DaemonSound(d)' BY <2>1 DEF DaemonsInv, DaemonSound, Launched
  <2>5. \A c \in DaemonCalls : DaemonCallSound(c)' BY <2>1 DEF DaemonsInv, DaemonCallSound, Launched
  <2> QED BY <2>2, <2>3, <2>4, <2>5 DEF DaemonsInv
<1>2. ASSUME NEW c \in DaemonCalls, StopReturns(c) \/ StopAllReturns(c) PROVE DaemonsInv'
  <2>1. \E p \in {"done", "refused"} : DaemonPhase(c, p) BY <1>2 DEF StopReturns, StopAllReturns
  <2>2. /\ daemonCall[c].phase = "stops" /\ Through(c) /\ UNCHANGED <<table, daemon, stopping>>
    BY <1>2 DEF StopReturns, StopAllReturns
  <2> QED BY <2>1, <2>2, ReturnKeepsInv
<1>3. ASSUME NEW c \in DaemonCalls, Launches(c) PROVE DaemonsInv'
  <2>1. /\ daemonCall[c].phase = "stops" /\ Through(c) /\ stopping' = stopping
        /\ daemonCall[c].op # "stop_all"
    BY <1>3 DEF Launches
  <2>2. daemonCall[c].name \in DaemonNames BY <2>1 DEF DaemonsInv, DaemonCallSound
  <2>3. CASE \E p \in {"refused", "failed"} : DaemonPhase(c, p) /\ UNCHANGED <<table, daemon>>
    BY <2>1, <2>3, ReturnKeepsInv
  <2>4. CASE ~\E p \in {"refused", "failed"} : DaemonPhase(c, p) /\ UNCHANGED <<table, daemon>>
    <3> DEFINE n == daemonCall[c].name
    <3>1. /\ ~IsRunning(n)
          /\ \E room \in Evicted :
               \/ \E p \in {"refused", "failed"} : table' = room /\ DaemonPhase(c, p) /\ UNCHANGED daemon
               \/ /\ Cardinality(TrackedIn(room)) < MaxDaemons
                  /\ table' = [room EXCEPT ![n] = c]
                  /\ daemon' = [daemon EXCEPT ![c] = [name |-> n, running |-> TRUE, group |-> "up", strays |-> "none"]]
                  /\ DaemonPhase(c, "done")
      BY <1>3, <2>4 DEF Launches, StartLocked
    <3> HIDE DEF n
    <3>2. n \in DaemonNames BY <2>2 DEF n
    <3> QED BY <2>1, <3>1, <3>2, EvictionKeepsInv, LaunchKeepsInv
  <2> QED BY <2>3, <2>4
<1>4. CASE DaemonsNext
  BY <1>2, <1>3, <1>4, BeginKeepsInv, StopAllKeepsInv, StopKeepsInv, ProcessKeepsInv DEF DaemonsNext, DaemonCallStep
<1> QED BY <1>1, <1>4

\* Tables, daemons, calls and stops keep their shapes, for any number of calls
\* and names (Manager.daemons and the records of internal/guestagent/daemon).
THEOREM DaemonsTypeCorrect == DaemonsSpec => []DaemonsTypeOK
PROOF
<1>1. DaemonsInv => DaemonsTypeOK BY DEF DaemonsInv
<1> QED BY <1>1, DaemonsInitInv, DaemonsNextKeepsInv, PTL DEF DaemonsSpec

\* Whatever starts, stops, restarts, evictions and ends of processes come in
\* between, a daemon that runs is in the table under its name, the table keeps
\* its bound, and a call that is over left nothing of what it found running
\* (Manager.Start, evictStoppedLocked, Stop and StopAll).
THEOREM DaemonsStayAccounted == DaemonsSpec => []DaemonsAccounted
PROOF
<1>1. DaemonsInv => DaemonsAccounted
  BY DaemonTypes DEF DaemonsInv, DaemonsAccounted, TableSound, DaemonSound, DaemonCallSound, Launched
<1> QED BY <1>1, DaemonsInitInv, DaemonsNextKeepsInv, PTL DEF DaemonsSpec

-----------------------------------------------------------------------------
(* Types of GuestExec: no more is heard than was sent, and no more sent    *)
(* than a process has to send.                                             *)

Bounded(h) == process[h].sent <= MaxChunks /\ handle[h].heard <= process[h].sent
ExecTyped == OutputInv /\ \A h \in Handles : Bounded(h)

LEMMA AtLeastTwo == \A n \in Nat : n >= 1 /\ n # 1 => n >= 2
PROOF OBVIOUS

\* What an open stream still holds was sent and not yet heard.
LEMMA OpenHeardIsSent ==
  ASSUME NEW w \in Seq(Messages), NEW heard \in Nat, NEW sent \in Nat, NEW at,
         at = "ended" => Len(w) > 0, WireOrdered(w, at),
         Len(w) + heard = sent + One(PidWaits(w)) + One(at = "ended")
  PROVE  heard <= sent
PROOF
<1>1. Len(w) \in Nat OBVIOUS
<1>2. PidWaits(w) => Len(w) >= 1 BY <1>1 DEF PidWaits
<1>3. at = "ended" => Len(w) >= 1 BY <1>1
<1>4. ASSUME at = "ended", PidWaits(w) PROVE Len(w) >= 2
  <2>1. 1 \in 1..Len(w) => (w[1] = "exit" <=> 1 = Len(w)) BY <1>4 DEF WireOrdered
  <2>2. w[1] # "exit" BY <1>4 DEF PidWaits
  <2>3. Len(w) >= 1 BY <1>2, <1>4
  <2>4. 1 \in 1..Len(w) BY <1>1, <2>3
  <2>5. Len(w) # 1 BY <2>1, <2>2, <2>4
  <2> QED BY <1>1, <2>3, <2>5, AtLeastTwo, Zenon
<1>5. CASE PidWaits(w) /\ at = "ended" BY <1>1, <1>4, <1>5 DEF One
<1>6. CASE PidWaits(w) /\ at # "ended" BY <1>1, <1>2, <1>6 DEF One
<1>7. CASE ~PidWaits(w) /\ at = "ended" BY <1>1, <1>3, <1>7 DEF One
<1>8. CASE ~PidWaits(w) /\ at # "ended" BY <1>1, <1>8 DEF One
<1> QED BY <1>5, <1>6, <1>7, <1>8

\* What a step of h does to the two counts.
LEMMA CountsMove ==
  ASSUME ExecShape, NEW h \in Handles,
         \/ ExecStep(h)
         \/ \E stubborn \in BOOLEAN : GuestStarts(h, stubborn)
         \/ GuestWrites(h) \/ GuestExits(h)
         \/ Terminate(h) \/ AbortCommand(h) \/ StreamBreaks(h)
  PROVE  /\ \/ process'[h].sent = process[h].sent
            \/ process[h].sent < MaxChunks /\ process'[h].sent = process[h].sent + 1
         /\ handle'[h].heard = handle[h].heard \/ process'[h].stream = "open"
PROOF
<1>0. /\ handle[h] \in HandleType /\ process[h] \in ProcessType
      /\ handle = [g \in Handles |-> handle[g]] /\ process = [g \in Handles |-> process[g]]
  BY DEF ExecShape
<1>1. CASE Terminate(h) \/ AbortCommand(h) \/ KillTimer(h) \/ Drain(h) \/ StreamBreaks(h) \/ BindFails(h)
  BY <1>1, StopIsQuiet DEF NothingHeard
<1>2. CASE Bound(h) \/ Probed(h)
  BY <1>0, <1>2 DEF Bound, Probed, HandleType, ProcessType
<1>3. CASE \E stubborn \in BOOLEAN : GuestStarts(h, stubborn)

  <2>1. PICK stubborn \in BOOLEAN : GuestStarts(h, stubborn) BY <1>3
  <2>2. handle' = handle /\ process' = [process EXCEPT ![h] = [process[h] EXCEPT !.at = "running", !.stubborn = stubborn]]
    BY <1>0, <2>1 DEF GuestStarts
  <2>3. process'[h].sent = process[h].sent BY <1>0, <2>2 DEF ProcessType
  <2> QED BY <2>2, <2>3
<1>4. CASE GuestWrites(h)
  BY <1>0, <1>4 DEF GuestWrites, HandleType, ProcessType
<1>5. CASE GuestExits(h)
  BY <1>0, <1>5 DEF GuestExits, HandleType, ProcessType
<1>6. CASE Receive(h)
  <2>1. CASE ReceivePid(h) BY <1>0, <2>1 DEF ReceivePid, HandleType, ProcessType
  <2>2. CASE ReceiveOutput(h)
    <3>1. process' = process /\ process[h].stream = "open" BY <1>6, <2>2 DEF Receive, ReceiveOutput, Streaming
    <3> QED BY <3>1
  <2>3. CASE ReceiveExit(h)
    <3>1. handle'[h].heard = handle[h].heard BY <1>0, <2>3 DEF ReceiveExit, Finished, HandleType
    <3>2. process'[h].sent = process[h].sent BY <1>0, <2>3 DEF ReceiveExit, ProcessType
    <3> QED BY <3>1, <3>2
  <2> QED BY <1>6, <2>1, <2>2, <2>3 DEF Receive
<1> QED BY <1>1, <1>2, <1>3, <1>4, <1>5, <1>6 DEF ExecStep, GuestDies

LEMMA CountsStayBounded ==
  ASSUME ExecShape, ExecShape', OutputInv', NEW h \in Handles, Bounded(h),
         \/ process'[h].sent = process[h].sent
         \/ process[h].sent < MaxChunks /\ process'[h].sent = process[h].sent + 1,
         handle'[h].heard = handle[h].heard \/ process'[h].stream = "open"
  PROVE  Bounded(h)'
PROOF
<1>1. /\ process[h].sent \in Nat /\ handle[h].heard \in Nat /\ MaxChunks \in Nat
      /\ process'[h].sent \in Nat /\ handle'[h].heard \in Nat
  BY ExecAssumption DEF ExecShape, HandleType, ProcessType
<1>2. process'[h].sent <= MaxChunks BY <1>1 DEF Bounded
<1>3. CASE handle'[h].heard = handle[h].heard BY <1>1, <1>2, <1>3 DEF Bounded
<1>4. CASE process'[h].stream = "open"
  <2>1. OutputSound(h)' BY DEF OutputInv
  <2>2. wire'[h] \in Seq(Messages) BY DEF ExecShape
  <2>3. /\ process'[h].at = "ended" => Len(wire'[h]) > 0
        /\ WireOrdered(wire'[h], process'[h].at)
        /\ Len(wire'[h]) + handle'[h].heard =
             process'[h].sent + One(PidWaits(wire'[h])) + One(process'[h].at = "ended")
    BY <1>4, <2>1, Zenon DEF OutputSound
  <2>4. handle'[h].heard <= process'[h].sent BY <1>1, <2>2, <2>3, OpenHeardIsSent
  <2> QED BY <1>2, <2>4 DEF Bounded
<1> QED BY <1>3, <1>4

\* Shapes of the handles of subprocess.ts and guest-rpc.ts and of what the guest
\* knows of them, for any number of handles, of identities and of chunks: a
\* consumer hears no more than its process has to send.
THEOREM ExecTypes == ExecSpec => []ExecTypeOK
PROOF
<1>1. ExecInit => ExecTyped
  <2> SUFFICES ASSUME ExecInit PROVE ExecTyped OBVIOUS
  <2>1. \A h \in Handles : handle[h].heard = 0 /\ process[h].sent = 0 BY DEF ExecInit, IdleHandle, NoProcess
  <2> QED BY <2>1, PoolInit, OutputInit, ExecAssumption DEF ExecTyped, OutputInv, Bounded
<1>2. ExecTyped /\ [ExecNext]_execVars => ExecTyped'
  <2> SUFFICES ASSUME ExecTyped, [ExecNext]_execVars PROVE ExecTyped' OBVIOUS
  <2>1. OutputInv' BY OutputNext DEF ExecTyped
  <2>2. ExecShape /\ ExecShape' /\ \A h \in Handles : Local(h) BY <2>1 DEF ExecTyped, OutputInv, PoolInv
  <2>3. ASSUME NEW g \in Handles,
               process'[g].sent = process[g].sent, handle'[g].heard = handle[g].heard
        PROVE  Bounded(g)'
    BY <2>3 DEF ExecTyped, Bounded
  <2>4. CASE UNCHANGED execVars BY <2>1, <2>3, <2>4 DEF execVars, ExecTyped
  <2>5. CASE ExecNext
    <3>1. PICK h \in Handles :
            \/ \E kind \in Kinds : Spawn(h, kind)
            \/ ExecStep(h)
            \/ \E stubborn \in BOOLEAN : GuestStarts(h, stubborn)
            \/ GuestWrites(h) \/ GuestExits(h)
            \/ Terminate(h) \/ AbortCommand(h) \/ StreamBreaks(h)
      BY <2>5 DEF ExecNext
    <3>2. CASE \E kind \in Kinds : Spawn(h, kind)
      <4>1. process' = process BY <3>2 DEF Spawn
      <4>2. handle'[h].heard = handle[h].heard BY <2>2, <3>2 DEF Spawn, ExecShape, HandleType
      <4>3. \A g \in Handles : g # h => handle'[g] = handle[g] BY <2>2, <3>2 DEF Spawn, ExecShape
      <4> QED BY <2>1, <2>3, <4>1, <4>2, <4>3 DEF ExecTyped
    <3>3. CASE ~\E kind \in Kinds : Spawn(h, kind)
      <4>1. OtherHandles(h)
        BY <2>2, <3>1, <3>3, GuestKeepsContract, StartKeepsContract, StopKeepsContract, ReceiveKeepsContract
           DEF ExecStep, GuestDies, Contract
      <4>2. \A g \in Handles \ {h} : Bounded(g)' BY <2>3, <4>1 DEF OtherHandles
      <4>3. Bounded(h)' BY <2>1, <2>2, <3>1, <3>3, CountsMove, CountsStayBounded DEF ExecTyped
      <4> QED BY <2>1, <4>2, <4>3 DEF ExecTyped
    <3> QED BY <3>2, <3>3
  <2> QED BY <2>4, <2>5
<1>3. ExecTyped => ExecTypeOK
  <2> SUFFICES ASSUME ExecTyped PROVE ExecTypeOK OBVIOUS
  <2>1. ExecShape BY DEF ExecTyped, OutputInv, PoolInv
  <2>2. \A h \in Handles : handle[h].heard \in 0..MaxChunks /\ process[h].sent \in 0..MaxChunks

    <3> SUFFICES ASSUME NEW h \in Handles PROVE handle[h].heard \in 0..MaxChunks /\ process[h].sent \in 0..MaxChunks
      OBVIOUS
    <3>1. handle[h].heard \in Nat /\ process[h].sent \in Nat BY <2>1 DEF ExecShape, HandleType, ProcessType
    <3>2. Bounded(h) BY DEF ExecTyped
    <3> QED BY <3>1, <3>2, ExecAssumption DEF Bounded
  <2>3. ASSUME NEW h \in Handles
        PROVE  handle[h] \in
       [pc : {"idle", "binding", "probing", "open", "settled"}, kind : {"spawn", "control", "command"}, uid : Uids \cup {NoUid},
        pid : BOOLEAN, stopped : BOOLEAN, timer : {"off", "armed", "fired", "cleared"}, late : BOOLEAN,
        paused : BOOLEAN, heard : 0..MaxChunks, outcome : {"none", "exit", "error", "aborted", "refused"}]
    BY <2>1, <2>2 DEF ExecShape, HandleType, HandleOutcomes
  <2>4. ASSUME NEW h \in Handles
        PROVE  process[h] \in
       [at : {"none", "starting", "running", "ended"}, stubborn : BOOLEAN, signal : {"none", "TERM", "KILL"},
        sent : 0..MaxChunks, stream : {"none", "open", "cut", "closed"}]
    BY <2>1, <2>2 DEF ExecShape, ProcessType
  <2> QED BY <2>1, <2>3, <2>4 DEF ExecTypeOK, ExecShape, Messages
<1> QED BY <1>1, <1>2, <1>3, PTL DEF ExecSpec

-----------------------------------------------------------------------------
(* GuestFiles.                                                             *)

Pcs == Locked \cup {"idle", "stream", "emit", "queued", "adrift", "done", "failed"}
FileCallType ==
  [pc : Pcs, op : {"read", "write", "edit"}, behind : FileCalls \cup {NoCall},
   expected : Versions \cup {Unread}, stat : Versions]

LEMMA IntrudesTyped == FilesTypeOK /\ Intrudes => intruded' \subseteq FileSessions
PROOF BY FilesAssumption DEF FilesTypeOK, Intrudes, InSection

\* The step of a call.
LEMMA FileStepTyped ==
  ASSUME FilesTypeOK, NEW c \in FileCalls, FileStep(c)
  PROVE  FilesTypeOK'
PROOF
<1> USE FilesAssumption
<1>t. /\ fileCall \in [FileCalls -> FileCallType]
      /\ fileCall[c] \in FileCallType
      /\ SessionOf[c] \in FileSessions
  BY DEF FilesTypeOK, FileCallType, Pcs
<1>n. ASSUME fileCall' \in [FileCalls -> FileCallType], lockTail' \in FileCalls \cup {NoCall},
             file' \in Versions, lastVersion' \in Versions, UNCHANGED processActs,
             observed' \in [FileSessions -> Versions \cup {Unread}],
             saw' \in [FileSessions -> SUBSET Versions], blind' \subseteq FileCalls,
             intruded' \subseteq FileSessions, overtaken' \subseteq FileCalls
      PROVE  FilesTypeOK'
  BY <1>n DEF FilesTypeOK, FileCallType, Pcs
<1>g. ASSUME NEW p \in Pcs, Go(c, p) PROVE fileCall' \in [FileCalls -> FileCallType]
  BY <1>g, <1>t DEF Go, FileCallType
<1>r. ASSUME Release(c) PROVE lockTail' \in FileCalls \cup {NoCall}
  BY <1>r DEF Release, FilesTypeOK
<1>1. CASE ReadStats(c)
  <2>1. fileCall' \in [FileCalls -> FileCallType]
    BY <1>1, <1>t DEF ReadStats, FileCallType, Pcs, FilesTypeOK
  <2> QED BY <2>1, <1>1, <1>n DEF ReadStats, FilesTypeOK
<1>2. CASE ReadStreams(c)
  <2>1. fileCall' \in [FileCalls -> FileCallType] BY <1>2, <1>g DEF ReadStreams, Pcs
  <2>2. saw' \in [FileSessions -> SUBSET Versions] BY <1>2, <1>t DEF ReadStreams, FilesTypeOK
  <2> QED BY <2>1, <2>2, <1>2, <1>n DEF ReadStreams, FilesTypeOK
<1>3. CASE ReadFails(c)
  <2>1. fileCall' \in [FileCalls -> FileCallType] BY <1>3, <1>g DEF ReadFails, Pcs
  <2> QED BY <2>1, <1>3, <1>n DEF ReadFails, FilesTypeOK
<1>4. CASE Observe(c)
  <2>1. fileCall' \in [FileCalls -> FileCallType] BY <1>4, <1>g DEF Observe, Pcs
  <2>2. observed' \in [FileSessions -> Versions \cup {Unread}]
    BY <1>4, <1>t DEF Observe, FilesTypeOK, FileCallType
  <2> QED BY <2>1, <2>2, <1>4, <1>n DEF Observe, FilesTypeOK
<1>5. ASSUME NEW op \in {"write", "edit"}, Queue(c, op) PROVE FilesTypeOK'
  <2>0. observed[SessionOf[c]] \in Versions \cup {Unread} BY <1>t DEF FilesTypeOK
  <2>1. fileCall' \in [FileCalls -> FileCallType]
    BY <1>5, <1>t, <2>0 DEF Queue, FileCallType, Pcs, FilesTypeOK
  <2> QED BY <2>1, <1>5, <1>n DEF Queue, FilesTypeOK
<1>6. CASE Enter(c)
  <2>1. fileCall' \in [FileCalls -> FileCallType] BY <1>6, <1>g DEF Enter, Pcs, Locked
  <2> QED BY <2>1, <1>6, <1>n DEF Enter, FilesTypeOK
<1>7. CASE SectionStats(c)
  <2>1. fileCall' \in [FileCalls -> FileCallType]
    BY <1>7, <1>t DEF SectionStats, FileCallType, Pcs, Locked, FilesTypeOK
  <2> QED BY <2>1, <1>7, <1>n DEF SectionStats, FilesTypeOK
<1>8. CASE SectionRefuses(c)
  <2>1. fileCall' \in [FileCalls -> FileCallType] BY <1>8, <1>g DEF SectionRefuses, Pcs
  <2> QED BY <2>1, <1>8, <1>r, <1>n DEF SectionRefuses, FilesTypeOK
<1>9. CASE SectionChecks(c)
  <2>1. fileCall' \in [FileCalls -> FileCallType] BY <1>9, <1>g DEF SectionChecks, Pcs, Locked
  <2> QED BY <2>1, <1>9, <1>n DEF SectionChecks, FilesTypeOK
<1>10. CASE SectionReads(c)
  <2>1. fileCall' \in [FileCalls -> FileCallType] BY <1>10, <1>g DEF SectionReads, Pcs, Locked
  <2>2. saw' \in [FileSessions -> SUBSET Versions] BY <1>10, <1>t DEF SectionReads, FilesTypeOK
  <2> QED BY <2>1, <2>2, <1>10, <1>n DEF SectionReads, FilesTypeOK
<1>w. ASSUME Replace(c)
      PROVE  /\ file' \in Versions /\ lastVersion' \in Versions /\ lastVersion + 1 \in Versions
             /\ blind' \subseteq FileCalls
  BY <1>w DEF Replace, FilesTypeOK, Versions, Absent
<1>11. CASE SectionWrites(c)
  <2>1. fileCall' \in [FileCalls -> FileCallType] BY <1>11, <1>g DEF SectionWrites, Pcs, Locked
  <2>2. Replace(c) BY <1>11 DEF SectionWrites
  <2>3. saw' \in [FileSessions -> SUBSET Versions] BY <1>11, <1>t, <1>w, <2>2 DEF SectionWrites, FilesTypeOK
  <2> QED BY <2>1, <2>2, <2>3, <1>w, <1>11, <1>n DEF SectionWrites, FilesTypeOK
<1>14. CASE SectionGivesUp(c)
  <2>1. fileCall' \in [FileCalls -> FileCallType] BY <1>14, <1>g DEF SectionGivesUp, Pcs
  <2> QED BY <2>1, <1>14, <1>r, <1>n DEF SectionGivesUp, FilesTypeOK
<1>15. CASE LateWrite(c)
  <2>1. fileCall' \in [FileCalls -> FileCallType] BY <1>15, <1>g DEF LateWrite, Pcs
  <2>2. Replace(c) BY <1>15 DEF LateWrite
  <2>3. intruded' \subseteq FileSessions BY <1>15, IntrudesTyped DEF LateWrite
  <2>4. overtaken' \subseteq FileCalls BY <1>15 DEF LateWrite, FilesTypeOK
  <2> QED BY <2>1, <2>2, <2>3, <2>4, <1>w, <1>15, <1>n DEF LateWrite, FilesTypeOK
<1>12. CASE SectionEnds(c)
  <2>1. fileCall' \in [FileCalls -> FileCallType]
    BY <1>12, <1>t DEF SectionEnds, FileCallType, Pcs, FilesTypeOK
  <2> QED BY <2>1, <1>12, <1>r, <1>n DEF SectionEnds, FilesTypeOK
<1>13. CASE SectionFails(c)
  <2>1. fileCall' \in [FileCalls -> FileCallType] BY <1>13, <1>g DEF SectionFails, Pcs
  <2> QED BY <2>1, <1>13, <1>r, <1>n DEF SectionFails, FilesTypeOK
<1> QED BY <1>1, <1>2, <1>3, <1>4, <1>5, <1>6, <1>7, <1>8, <1>9, <1>10, <1>11, <1>12, <1>13, <1>14, <1>15 DEF FileStep

LEMMA ProcessTyped ==
  ASSUME FilesTypeOK, ProcessWrites \/ ProcessRemoves
  PROVE  FilesTypeOK'
PROOF
<1> USE FilesAssumption
<1>1. CASE ProcessWrites BY <1>1, IntrudesTyped DEF ProcessWrites, FilesTypeOK, Versions, Absent
<1>2. CASE ProcessRemoves BY <1>2, IntrudesTyped DEF ProcessRemoves, FilesTypeOK, Versions, Absent
<1> QED BY <1>1, <1>2

LEMMA FilesInitTyped == FilesInit => FilesTypeOK
PROOF
<1> SUFFICES ASSUME FilesInit PROVE FilesTypeOK
  OBVIOUS
<1> USE FilesAssumption
<1>1. {Absent, 1} \subseteq Versions BY DEF Versions, Absent
<1>2. observed \in [FileSessions -> Versions \cup {Unread}] BY <1>1 DEF FilesInit
<1>3. NewFileCall \in FileCallType BY <1>1 DEF NewFileCall, FileCallType, Pcs
<1>4. fileCall \in [FileCalls -> FileCallType] BY <1>3 DEF FilesInit
<1>5. saw \in [FileSessions -> SUBSET Versions] BY <1>1 DEF FilesInit
<1>6. file \in Versions /\ lastVersion \in Versions BY <1>1 DEF FilesInit
<1>7. processActs \in 0..MaxProcessActs BY DEF FilesInit
<1>8. /\ lockTail \in FileCalls \cup {NoCall}
      /\ intruded \subseteq FileSessions /\ blind \subseteq FileCalls /\ overtaken \subseteq FileCalls
  BY DEF FilesInit
<1> QED BY <1>2, <1>4, <1>5, <1>6, <1>7, <1>8 DEF FilesTypeOK, FileCallType, Pcs

LEMMA FilesTypeStep == FilesTypeOK /\ [FilesNext]_filesVars => FilesTypeOK'
PROOF
<1> SUFFICES ASSUME FilesTypeOK, [FilesNext]_filesVars PROVE FilesTypeOK'
  OBVIOUS
<1>1. CASE UNCHANGED filesVars BY <1>1 DEF filesVars, FilesTypeOK
<1>2. CASE FilesNext BY <1>2, FileStepTyped, ProcessTyped DEF FilesNext
<1> QED BY <1>1, <1>2

\* The file, the versions the harness remembers, the calls and the lock are of
\* the shapes fs-provider.ts gives them, for any number of calls.
THEOREM FilesTypeCorrect == FilesSpec => []FilesTypeOK
PROOF
<1>1. FilesInit => FilesTypeOK BY FilesInitTyped
<1>2. FilesTypeOK /\ [FilesNext]_filesVars => FilesTypeOK' BY FilesTypeStep
<1> QED BY <1>1, <1>2, PTL DEF FilesSpec

-----------------------------------------------------------------------------
(***************************************************************************)
(* The lock of a path.  The calls that hold or await it form a line: each  *)
(* is behind the one in front of it, lockTail is the last, and only the    *)
(* first may be in the section.                                            *)
(***************************************************************************)
Active(c) == fileCall[c].pc \in Locked \cup {"queued"}

Line(n, q) ==
  /\ q \in [1..n -> FileCalls]
  /\ \A i, j \in 1..n : q[i] = q[j] => i = j
  /\ \A c \in FileCalls : Active(c) <=> \E i \in 1..n : q[i] = c
  /\ \A i \in 1..n : i > 1 => fileCall[q[i]].behind = q[i - 1] /\ fileCall[q[i]].pc = "queued"
  /\ lockTail = IF n = 0 THEN NoCall ELSE q[n]

LineInv == \E n \in Nat : \E q \in [1..n -> FileCalls] : Line(n, q)

\* The call in the section is the first of the line.
LEMMA FirstInSection ==
  ASSUME NEW n \in Nat, NEW q, Line(n, q), NEW c \in InSection
  PROVE  n > 0 /\ q[1] = c
PROOF
<1>1. PICK i \in 1..n : q[i] = c BY DEF Line, Active, InSection
<1>2. fileCall[c].pc # "queued" BY DEF InSection, Locked
<1> QED BY <1>1, <1>2 DEF Line

\* A step that keeps a call out of the line, or in the section.
LEMMA LineKept ==
  ASSUME NEW n \in Nat, NEW q, Line(n, q), NEW c \in FileCalls, lockTail' = lockTail,
         \A d \in FileCalls : d # c => fileCall'[d] = fileCall[d],
         \/ ~Active(c) /\ ~(Active(c)')
         \/ /\ Active(c) /\ Active(c)'
            /\ fileCall'[c].behind = fileCall[c].behind
            /\ n > 0 /\ q[1] = c
  PROVE  Line(n, q)'
PROOF
<1>1. \A d \in FileCalls : (Active(d)') <=> Active(d) BY DEF Active
<1>2. ASSUME NEW i \in 1..n, i > 1 PROVE q[i] # c
  <2>1. q[i] = c => Active(c) BY DEF Line
  <2> QED BY <1>2, <2>1 DEF Line
<1>3. \A i \in 1..n : i > 1 => fileCall'[q[i]] = fileCall[q[i]] BY <1>2 DEF Line
<1> QED BY <1>1, <1>3 DEF Line

\* A call joins the line behind its last one.
LEMMA LineJoined ==
  ASSUME NEW n \in Nat, NEW q, Line(n, q), NEW c \in FileCalls, ~Active(c),
         \A d \in FileCalls : d # c => fileCall'[d] = fileCall[d],
         fileCall'[c].pc = "queued", fileCall'[c].behind = lockTail, lockTail' = c
  PROVE  LineInv'
PROOF
<1> DEFINE r == [i \in 1..(n + 1) |-> IF i = n + 1 THEN c ELSE q[i]]
<1>1. r \in [1..(n + 1) -> FileCalls] BY DEF Line
<1>2. \A i \in 1..n : q[i] # c /\ r[i] = q[i] /\ fileCall'[q[i]] = fileCall[q[i]]
  BY DEF Line
<1>3. r[n + 1] = c OBVIOUS
<1>d. \A i \in 1..(n + 1) : i = n + 1 \/ i \in 1..n OBVIOUS
<1> HIDE DEF r
<1>4. ASSUME NEW i \in 1..(n + 1), NEW j \in 1..(n + 1), r[i] = r[j] PROVE i = j
  <2>1. CASE i \in 1..n /\ j \in 1..n BY <2>1, <1>2, <1>4 DEF Line
  <2>2. CASE i = n + 1 /\ j \in 1..n BY <2>2, <1>2, <1>3, <1>4
  <2>3. CASE i \in 1..n /\ j = n + 1 BY <2>3, <1>2, <1>3, <1>4
  <2> QED BY <2>1, <2>2, <2>3, <1>d
<1>5. ASSUME NEW d \in FileCalls PROVE (Active(d)') <=> \E i \in 1..(n + 1) : r[i] = d
  <2>1. CASE d = c BY <2>1, <1>3 DEF Active
  <2>2. CASE d # c
    <3>1. (Active(d)') <=> Active(d) BY <2>2 DEF Active
    <3>2. Active(d) <=> \E i \in 1..n : q[i] = d BY DEF Line
    <3>3. (\E i \in 1..n : q[i] = d) <=> \E i \in 1..(n + 1) : r[i] = d
      BY <1>2, <1>3, <1>d, <2>2
    <3> QED BY <3>1, <3>2, <3>3
  <2> QED BY <2>1, <2>2
<1>6. ASSUME NEW i \in 1..(n + 1), i > 1
      PROVE  fileCall'[r[i]].behind = r[i - 1] /\ fileCall'[r[i]].pc = "queued"
  <2>1. CASE i = n + 1
    <3>1. n # 0 /\ n \in 1..n /\ i - 1 = n BY <1>6, <2>1
    <3>2. lockTail = q[n] BY <3>1 DEF Line
    <3> QED BY <2>1, <3>1, <3>2, <1>2, <1>3
  <2>2. CASE i \in 1..n
    <3>1. i - 1 \in 1..n BY <1>6, <2>2
    <3>2. r[i] = q[i] /\ r[i - 1] = q[i - 1] /\ fileCall'[q[i]] = fileCall[q[i]] BY <1>2, <2>2, <3>1
    <3>3. fileCall[q[i]].behind = q[i - 1] /\ fileCall[q[i]].pc = "queued" BY <1>6, <2>2 DEF Line
    <3> QED BY <3>2, <3>3
  <2> QED BY <2>1, <2>2, <1>d
<1>7. lockTail' = IF n + 1 = 0 THEN NoCall ELSE r[n + 1] BY <1>3
<1>8. n + 1 \in Nat OBVIOUS
<1>9. Line(n + 1, r)'
  <2>1. \A i, j \in 1..(n + 1) : r[i] = r[j] => i = j BY <1>4
  <2>2. \A d \in FileCalls : (Active(d)') <=> \E i \in 1..(n + 1) : r[i] = d BY <1>5
  <2>3. \A i \in 1..(n + 1) : i > 1 => fileCall'[r[i]].behind = r[i - 1] /\ fileCall'[r[i]].pc = "queued"
    BY <1>6
  <2> QED BY <1>1, <1>7, <2>1, <2>2, <2>3 DEF Line
<1> QED BY <1>1, <1>8, <1>9 DEF LineInv

\* The first of the line leaves its section and releases the path.
LEMMA LineLeft ==
  ASSUME NEW n \in Nat, NEW q, Line(n, q), NEW c \in InSection,
         \A d \in FileCalls : d # c => fileCall'[d] = fileCall[d],
         ~(Active(c)'), Release(c)
  PROVE  LineInv'
PROOF
<1> DEFINE r == [i \in 1..(n - 1) |-> q[i + 1]]
<1>1. n > 0 /\ n - 1 \in Nat /\ q[1] = c /\ c \in FileCalls BY FirstInSection DEF InSection
<1>2. \A i \in 1..(n - 1) : /\ r[i] = q[i + 1] /\ i + 1 \in 1..n /\ q[i + 1] # c
                            /\ fileCall'[q[i + 1]] = fileCall[q[i + 1]]
  BY <1>1 DEF Line
<1>3. r \in [1..(n - 1) -> FileCalls] BY <1>1 DEF Line
<1>d. \A i \in 1..n : i = 1 \/ (i - 1 \in 1..(n - 1) /\ (i - 1) + 1 = i) BY <1>1
<1> HIDE DEF r
<1>4. \A i, j \in 1..(n - 1) : r[i] = r[j] => i = j BY <1>1, <1>2 DEF Line
<1>5. ASSUME NEW d \in FileCalls PROVE (Active(d)') <=> \E i \in 1..(n - 1) : r[i] = d
  <2>1. CASE d = c BY <2>1, <1>2
  <2>2. CASE d # c
    <3>1. (Active(d)') <=> Active(d) BY <2>2 DEF Active
    <3>2. Active(d) <=> \E i \in 1..n : q[i] = d BY DEF Line
    <3>3. ASSUME NEW i \in 1..n, q[i] = d PROVE \E j \in 1..(n - 1) : r[j] = d
      <4>1. i - 1 \in 1..(n - 1) /\ (i - 1) + 1 = i BY <1>d, <3>3, <2>2, <1>1
      <4>2. r[i - 1] = d BY <4>1, <1>2, <3>3
      <4> QED BY <4>1, <4>2
    <3>4. ASSUME NEW j \in 1..(n - 1), r[j] = d PROVE \E i \in 1..n : q[i] = d BY <3>4, <1>2
    <3> QED BY <3>1, <3>2, <3>3, <3>4
  <2> QED BY <2>1, <2>2
<1>6. ASSUME NEW i \in 1..(n - 1), i > 1
      PROVE  fileCall'[r[i]].behind = r[i - 1] /\ fileCall'[r[i]].pc = "queued"
  <2>1. i - 1 \in 1..(n - 1) /\ (i - 1) + 1 = i /\ i + 1 > 1 /\ (i + 1) - 1 = i BY <1>6
  <2>2. r[i - 1] = q[i] BY <2>1, <1>2
  <2>3. i + 1 \in 1..n /\ fileCall'[r[i]] = fileCall[q[i + 1]] BY <1>2
  <2>4. fileCall[q[i + 1]].behind = q[i] /\ fileCall[q[i + 1]].pc = "queued"
    BY <2>1, <2>3 DEF Line
  <2> QED BY <2>2, <2>3, <2>4
<1>7. lockTail' = IF n - 1 = 0 THEN NoCall ELSE r[n - 1]
  <2>1. lockTail = q[n] /\ n \in 1..n /\ 1 \in 1..n BY <1>1 DEF Line
  <2>2. lockTail = c <=> n = 1 BY <2>1, <1>1 DEF Line
  <2>3. n # 1 => r[n - 1] = q[n]
    <3>1. n # 1 => n - 1 \in 1..(n - 1) /\ (n - 1) + 1 = n BY <1>1
    <3> QED BY <3>1, <1>2
  <2> QED BY <2>1, <2>2, <2>3, <1>1 DEF Release
<1>8. Line(n - 1, r)' BY <1>1, <1>3, <1>4, <1>5, <1>6, <1>7 DEF Line
<1> QED BY <1>1, <1>3, <1>8 DEF LineInv

LEMMA LineStep ==
  ASSUME FilesTypeOK, LineInv, NEW c \in FileCalls, FileStep(c)
  PROVE  LineInv'
PROOF
<1>0. PICK n \in Nat : \E q \in [1..n -> FileCalls] : Line(n, q) BY DEF LineInv
<1>1. PICK q \in [1..n -> FileCalls] : Line(n, q) BY <1>0
<1>t. fileCall \in [FileCalls -> FileCallType] BY DEF FilesTypeOK, FileCallType, Pcs
\* What an assignment to the record of the call changes.
<1>p. ASSUME NEW p \in Pcs, Go(c, p)
      PROVE  /\ \A d \in FileCalls : d # c => fileCall'[d] = fileCall[d]
             /\ fileCall'[c].pc = p /\ fileCall'[c].behind = fileCall[c].behind
  BY <1>p, <1>t DEF Go, FileCallType
<1>k. ASSUME lockTail' = lockTail, \A d \in FileCalls : d # c => fileCall'[d] = fileCall[d],
             \/ ~Active(c) /\ ~(Active(c)')
             \/ /\ c \in InSection /\ fileCall'[c].pc \in Locked
                /\ fileCall'[c].behind = fileCall[c].behind
      PROVE  LineInv'
  <2>1. c \in InSection => n > 0 /\ q[1] = c /\ Active(c)
    BY <1>1, FirstInSection DEF InSection, Active
  <2>2. fileCall'[c].pc \in Locked => (Active(c)') BY DEF Active
  <2>3. Line(n, q)' BY <1>1, <1>k, <2>1, <2>2, LineKept
  <2> QED BY <2>3 DEF LineInv
<1>l. ASSUME c \in InSection, NEW p \in {"failed", "emit", "adrift"}, fileCall'[c].pc = p,
             \A d \in FileCalls : d # c => fileCall'[d] = fileCall[d], Release(c)
      PROVE  LineInv'
  <2>1. ~(Active(c)') BY <1>l DEF Active, Locked
  <2> QED BY <1>1, <1>l, <2>1, LineLeft
<1>o. ASSUME NEW p \in {"idle", "stream", "emit", "adrift", "done", "failed"}, fileCall[c].pc = p
      PROVE  ~Active(c)
  BY <1>o DEF Active, Locked
<1>2. CASE ReadStats(c)
  <2>1. ~Active(c) BY <1>2, <1>o DEF ReadStats
  <2>2. /\ \A d \in FileCalls : d # c => fileCall'[d] = fileCall[d]
        /\ fileCall'[c].pc \in {"emit", "stream"}
    BY <1>2, <1>t DEF ReadStats, FileCallType
  <2>3. ~(Active(c)') BY <2>2 DEF Active, Locked
  <2> QED BY <1>2, <2>1, <2>2, <2>3, <1>k DEF ReadStats
<1>3. CASE ReadStreams(c)
  <2>1. ~Active(c) BY <1>3, <1>o DEF ReadStreams
  <2>2. ~(Active(c)') BY <1>3, <1>p DEF ReadStreams, Active, Locked, Pcs
  <2> QED BY <1>3, <2>1, <2>2, <1>p, <1>k DEF ReadStreams, Pcs
<1>4. CASE ReadFails(c)
  <2>1. ~Active(c) BY <1>4, <1>o DEF ReadFails
  <2>2. ~(Active(c)') BY <1>4, <1>p DEF ReadFails, Active, Locked, Pcs
  <2> QED BY <1>4, <2>1, <2>2, <1>p, <1>k DEF ReadFails, Pcs
<1>5. CASE Observe(c)
  <2>1. ~Active(c) BY <1>5, <1>o DEF Observe
  <2>2. PICK p \in {"failed", "done"} : Go(c, p) BY <1>5 DEF Observe
  <2>3. ~(Active(c)') BY <2>2, <1>p DEF Active, Locked, Pcs
  <2> QED BY <1>5, <2>1, <2>2, <2>3, <1>p, <1>k DEF Observe, Pcs
<1>6. ASSUME NEW op \in {"write", "edit"}, Queue(c, op) PROVE LineInv'
  <2>1. ~Active(c) BY <1>6, <1>o DEF Queue
  <2>2. /\ \A d \in FileCalls : d # c => fileCall'[d] = fileCall[d]
        /\ fileCall'[c].pc = "queued" /\ fileCall'[c].behind = lockTail
    BY <1>6, <1>t DEF Queue, FileCallType
  <2> QED BY <1>1, <1>6, <2>1, <2>2, LineJoined DEF Queue
<1>7. CASE Enter(c)
  <2>1. Active(c) /\ fileCall[c].pc = "queued" BY <1>7 DEF Enter, Active
  <2>2. PICK i \in 1..n : q[i] = c BY <2>1, <1>1 DEF Line
  <2>3. i = 1
    <3> SUFFICES ASSUME i > 1 PROVE FALSE OBVIOUS
    <3>1. i - 1 \in 1..n OBVIOUS
    <3>2. fileCall[c].behind = q[i - 1] /\ q[i - 1] \in FileCalls /\ Active(q[i - 1])
      BY <1>1, <2>2, <3>1 DEF Line
    <3>3. ~Ended(q[i - 1]) BY <3>2 DEF Ended, Active, Locked
    <3> QED BY <1>7, <3>2, <3>3, FilesAssumption DEF Enter
  <2>4. Go(c, "stat") /\ "stat" \in Pcs /\ lockTail' = lockTail BY <1>7 DEF Enter, Pcs, Locked
  <2>5. Active(c)' BY <2>4, <1>p DEF Active, Locked
  <2>6. Line(n, q)' BY <1>1, <2>1, <2>2, <2>3, <2>4, <2>5, <1>p, LineKept
  <2> QED BY <2>6 DEF LineInv
<1>8. CASE SectionStats(c)
  <2>1. /\ \A d \in FileCalls : d # c => fileCall'[d] = fileCall[d]
        /\ fileCall'[c].pc = "check" /\ fileCall'[c].behind = fileCall[c].behind
    BY <1>8, <1>t DEF SectionStats, FileCallType
  <2> QED BY <1>8, <2>1, <1>k DEF SectionStats, InSection, Locked
<1>9. CASE SectionRefuses(c)
  <2>1. c \in InSection /\ Go(c, "failed") /\ Release(c)
    BY <1>9 DEF SectionRefuses, InSection, Locked
  <2> QED BY <2>1, <1>p, <1>l DEF Pcs
<1>10. CASE SectionChecks(c)
  <2>1. PICK p \in {"read", "write"} : Go(c, p) BY <1>10 DEF SectionChecks
  <2>2. c \in InSection /\ lockTail' = lockTail BY <1>10 DEF SectionChecks, InSection, Locked
  <2> QED BY <2>1, <2>2, <1>p, <1>k DEF Pcs, Locked
<1>11. CASE SectionReads(c)
  <2>1. c \in InSection /\ lockTail' = lockTail /\ Go(c, "write")
    BY <1>11 DEF SectionReads, InSection, Locked
  <2> QED BY <2>1, <1>p, <1>k DEF Pcs, Locked
<1>12. CASE SectionWrites(c)
  <2>1. c \in InSection /\ lockTail' = lockTail /\ Go(c, "after")
    BY <1>12 DEF SectionWrites, InSection, Locked
  <2> QED BY <2>1, <1>p, <1>k DEF Pcs, Locked
<1>15. CASE SectionGivesUp(c)
  <2>1. c \in InSection /\ Go(c, "adrift") /\ Release(c)
    BY <1>15 DEF SectionGivesUp, InSection, Locked
  <2> QED BY <2>1, <1>p, <1>l DEF Pcs
<1>16. CASE LateWrite(c)
  <2>1. ~Active(c) BY <1>16, <1>o DEF LateWrite
  <2>2. ~(Active(c)') BY <1>16, <1>p DEF LateWrite, Active, Locked, Pcs
  <2> QED BY <1>16, <2>1, <2>2, <1>p, <1>k DEF LateWrite, Pcs
<1>13. CASE SectionEnds(c)
  <2>1. c \in InSection /\ Release(c) BY <1>13 DEF SectionEnds, InSection, Locked
  <2>2. /\ \A d \in FileCalls : d # c => fileCall'[d] = fileCall[d]
        /\ fileCall'[c].pc = "emit"
    BY <1>13, <1>t DEF SectionEnds, FileCallType
  <2> QED BY <2>1, <2>2, <1>l
<1>14. CASE SectionFails(c)
  <2>1. c \in InSection /\ Go(c, "failed") /\ Release(c) BY <1>14 DEF SectionFails, InSection
  <2> QED BY <2>1, <1>p, <1>l DEF Pcs
<1> QED BY <1>2, <1>3, <1>4, <1>5, <1>6, <1>7, <1>8, <1>9, <1>10, <1>11, <1>12, <1>13, <1>14, <1>15, <1>16 DEF FileStep

LEMMA LineInit == FilesInit => LineInv
PROOF
<1> SUFFICES ASSUME FilesInit PROVE LineInv
  OBVIOUS
<1> DEFINE none == [i \in 1..0 |-> NoCall]
<1>1. \A c \in FileCalls : ~Active(c) BY DEF FilesInit, NewFileCall, Active, Locked
<1>2. lockTail = NoCall BY DEF FilesInit
<1>3. none \in [1..0 -> FileCalls] OBVIOUS
<1>4. Line(0, none) BY <1>1, <1>2, <1>3 DEF Line
<1> QED BY <1>3, <1>4 DEF LineInv

LEMMA LineNext == FilesTypeOK /\ LineInv /\ [FilesNext]_filesVars => LineInv'
PROOF
<1> SUFFICES ASSUME FilesTypeOK, LineInv, [FilesNext]_filesVars PROVE LineInv'
  OBVIOUS
<1>1. ASSUME UNCHANGED <<fileCall, lockTail>> PROVE LineInv'
  BY <1>1 DEF LineInv, Line, Active
<1>2. CASE UNCHANGED filesVars BY <1>2, <1>1 DEF filesVars
<1>3. CASE ProcessWrites BY <1>3, <1>1 DEF ProcessWrites
<1>4. CASE ProcessRemoves BY <1>4, <1>1 DEF ProcessRemoves
<1> QED BY <1>2, <1>3, <1>4, LineStep DEF FilesNext

LEMMA LineExcludes == LineInv => OneMutationAtATime
PROOF
<1> SUFFICES ASSUME LineInv, NEW c \in InSection, NEW d \in InSection PROVE c = d
  BY DEF OneMutationAtATime
<1>1. PICK n \in Nat : \E q \in [1..n -> FileCalls] : Line(n, q) BY DEF LineInv
<1>2. PICK q \in [1..n -> FileCalls] : Line(n, q) BY <1>1
<1> QED BY <1>2, FirstInSection

\* withTargetLock excludes: however many calls queue for a path, one at a time
\* is in the section.
THEOREM MutationsExclude == FilesSpec => []OneMutationAtATime
PROOF
<1>1. FilesInit => FilesTypeOK /\ LineInv BY FilesInitTyped, LineInit
<1>2. FilesTypeOK /\ LineInv /\ [FilesNext]_filesVars => (FilesTypeOK /\ LineInv)'
  BY FilesTypeStep, LineNext
<1>3. FilesTypeOK /\ LineInv => OneMutationAtATime BY LineExcludes
<1> QED BY <1>1, <1>2, <1>3, PTL DEF FilesSpec

-----------------------------------------------------------------------------
(***************************************************************************)
(* The guard.  A version a session may hand to a write is vouched for: the *)
(* session saw that content, or the file has left it for good.             *)
(***************************************************************************)
Vouched(s, v) ==
  \/ v \in {Absent, Unread}
  \/ v \in saw[s]
  \/ v # file /\ v \in Versions /\ v <= lastVersion

Guarded(c) ==
  LET r == fileCall[c]
      s == SessionOf[c] IN
  /\ r.pc = "stream" => r.stat <= lastVersion
  /\ r.pc = "emit" => Vouched(s, r.stat)
  /\ Active(c) => Vouched(s, r.expected)
  /\ r.pc \in {"check", "read", "write"} => r.stat = file
  /\ r.pc = "write" => file = Absent \/ file \in saw[s]
  /\ r.pc = "after" => file \in saw[s]
  /\ r.pc = "adrift" => r.stat = Absent \/ r.stat \in saw[s]

ExcusedWrite(c) == SessionOf[c] \in intruded \/ c \in overtaken

GuardInv ==
  /\ file <= lastVersion
  /\ \A c \in blind : ExcusedWrite(c)
  /\ \A s \in FileSessions \ intruded : Vouched(s, observed[s])
  /\ \A c \in FileCalls : SessionOf[c] \notin intruded => Guarded(c)

\* Whatever a step does to the file, it stays vouched for.
FileMoves ==
  \/ file' = file /\ lastVersion' = lastVersion
  \/ file' = lastVersion + 1 /\ lastVersion' = lastVersion + 1
  \/ file' = Absent /\ lastVersion' = lastVersion

\* The histories only grow.
HistoriesGrow ==
  /\ \A z \in FileSessions : saw[z] \subseteq saw'[z]
  /\ intruded \subseteq intruded' /\ overtaken \subseteq overtaken'

LEMMA VouchedStays ==
  ASSUME FilesTypeOK, FileMoves, NEW s \in FileSessions, saw[s] \subseteq saw'[s], FilesTypeOK',
         NEW v, Vouched(s, v)
  PROVE  Vouched(s, v)'
PROOF
<1> USE FilesAssumption
<1>1. file \in Nat /\ lastVersion \in Nat BY DEF FilesTypeOK, Versions, Absent
<1>2. CASE v \in {Absent, Unread} BY <1>2 DEF Vouched
<1>3. CASE v \in saw[s] BY <1>3 DEF Vouched
<1>4. CASE v # file /\ v \in Versions /\ v <= lastVersion /\ v # Absent
  <2>1. v \in Nat BY <1>4 DEF Versions, Absent
  <2>2. v # file' /\ v <= lastVersion' BY <1>1, <1>4, <2>1 DEF FileMoves
  <2> QED BY <1>4, <2>2 DEF Vouched
<1> QED BY <1>2, <1>3, <1>4 DEF Vouched

\* A call that does not move stays guarded, unless the file changes under it.
LEMMA GuardedStays ==
  ASSUME FilesTypeOK, FileMoves, FilesTypeOK', NEW d \in FileCalls, Guarded(d),
         fileCall'[d] = fileCall[d], saw[SessionOf[d]] \subseteq saw'[SessionOf[d]],
         d \in InSection => file' = file
  PROVE  Guarded(d)'
PROOF
<1> USE FilesAssumption
<1> DEFINE s == SessionOf[d]
<1>0. s \in FileSessions /\ fileCall[d].stat \in Nat /\ lastVersion \in Nat
  BY DEF FilesTypeOK, Versions, Absent
<1>1. \A v : Vouched(s, v) => Vouched(s, v)' BY <1>0, VouchedStays
<1>2. lastVersion <= lastVersion' /\ lastVersion' \in Nat BY <1>0 DEF FileMoves
<1>3. Active(d)' => Active(d) BY DEF Active
<1>4. fileCall[d].pc \in {"check", "read", "write", "after"} => file' = file BY DEF InSection, Locked
<1>5. fileCall'[d].pc = "stream" => fileCall'[d].stat <= lastVersion' BY <1>0, <1>2 DEF Guarded
<1>6. fileCall'[d].pc = "emit" => Vouched(s, fileCall[d].stat)' BY <1>1 DEF Guarded
<1>7. Active(d)' => Vouched(s, fileCall[d].expected)' BY <1>1, <1>3 DEF Guarded
<1>8. fileCall'[d].pc \in {"check", "read", "write"} => fileCall'[d].stat = file' BY <1>4 DEF Guarded
<1>9. fileCall'[d].pc = "write" => file' = Absent \/ file' \in saw'[s] BY <1>4 DEF Guarded
<1>10. fileCall'[d].pc = "after" => file' \in saw'[s] BY <1>4 DEF Guarded
<1>11. fileCall'[d].pc = "adrift" => fileCall'[d].stat = Absent \/ fileCall'[d].stat \in saw'[s]
  BY DEF Guarded
<1> QED BY <1>5, <1>6, <1>7, <1>8, <1>9, <1>10, <1>11 DEF Guarded

\* What a step owes: for the call that moves, if there is one, and for the others.
LEMMA GuardKept ==
  ASSUME FilesTypeOK, FilesTypeOK', GuardInv, FileMoves, HistoriesGrow,
         NEW M, M \subseteq FileCalls,
         \A d \in FileCalls \ M : fileCall'[d] = fileCall[d],
         \A d \in InSection \ M : SessionOf[d] \in intruded' \/ file' = file,
         \A c \in M : SessionOf[c] \notin intruded' => Guarded(c)',
         \A c \in blind' : c \in blind \/ (ExcusedWrite(c)'),
         \A z \in FileSessions \ intruded' : observed'[z] = observed[z] \/ (Vouched(z, observed[z])')
  PROVE  GuardInv'
PROOF
<1> USE FilesAssumption
<1>1. file' <= lastVersion'
  <2>1. file \in Nat /\ lastVersion \in Nat /\ file <= lastVersion
    BY DEF GuardInv, FilesTypeOK, Versions, Absent
  <2> QED BY <2>1 DEF FileMoves, Absent
<1>2. ASSUME NEW d \in FileCalls, SessionOf[d] \notin intruded' PROVE Guarded(d)'
  <2>1. CASE d \in M BY <2>1, <1>2
  <2>2. CASE d \notin M
    <3>1. SessionOf[d] \in FileSessions OBVIOUS
    <3>2. SessionOf[d] \notin intruded BY <1>2 DEF HistoriesGrow
    <3>3. Guarded(d) BY <3>2 DEF GuardInv
    <3>4. d \in InSection => file' = file BY <1>2, <2>2
    <3>5. saw[SessionOf[d]] \subseteq saw'[SessionOf[d]] BY <3>1 DEF HistoriesGrow
    <3>6. fileCall'[d] = fileCall[d] BY <2>2
    <3> QED BY <3>3, <3>4, <3>5, <3>6, GuardedStays
  <2> QED BY <2>1, <2>2
<1>3. ASSUME NEW z \in FileSessions, z \notin intruded' PROVE Vouched(z, observed[z])'
  <2>1. CASE observed'[z] = observed[z]
    <3>1. z \notin intruded BY <1>3 DEF HistoriesGrow
    <3>2. Vouched(z, observed[z]) BY <3>1 DEF GuardInv
    <3>3. saw[z] \subseteq saw'[z] BY DEF HistoriesGrow
    <3>4. \A v : Vouched(z, v) => Vouched(z, v)' BY <3>3, VouchedStays
    <3> QED BY <2>1, <3>2, <3>4
  <2>2. CASE observed'[z] # observed[z] BY <2>2, <1>3
  <2> QED BY <2>1, <2>2
<1>4. ASSUME NEW c \in blind' PROVE ExcusedWrite(c)'
  <2>1. ExcusedWrite(c) => ExcusedWrite(c)' BY DEF ExcusedWrite, HistoriesGrow
  <2> QED BY <2>1, <1>4 DEF GuardInv
<1> QED BY <1>1, <1>2, <1>3, <1>4 DEF GuardInv

\* What a step of a call may touch.
LEMMA FileStepFrame ==
  ASSUME FilesTypeOK, NEW c \in FileCalls, FileStep(c)
  PROVE  /\ FileMoves /\ HistoriesGrow
         /\ \A d \in FileCalls \ {c} : fileCall'[d] = fileCall[d]
         /\ file' = file \/ c \in InSection \/ Intrudes
         /\ blind' \subseteq blind \cup {c}
         /\ \A z \in FileSessions \ {SessionOf[c]} : observed'[z] = observed[z]
PROOF
<1> USE FilesAssumption
<1>t. /\ fileCall \in [FileCalls -> FileCallType] /\ saw \in [FileSessions -> SUBSET Versions]
      /\ observed \in [FileSessions -> Versions \cup {Unread}]
  BY DEF FilesTypeOK, FileCallType, Pcs
<1>g. ASSUME NEW p, Go(c, p) PROVE \A d \in FileCalls \ {c} : fileCall'[d] = fileCall[d]
  BY <1>g, <1>t DEF Go
<1>s. ASSUME NEW v, saw' = [saw EXCEPT ![SessionOf[c]] = @ \cup {v}]
      PROVE  \A z \in FileSessions : saw[z] \subseteq saw'[z]
  BY <1>s, <1>t
<1>1. CASE UNCHANGED <<file, lastVersion, saw, intruded, overtaken, blind, observed>>
           /\ \A d \in FileCalls \ {c} : fileCall'[d] = fileCall[d]
  BY <1>1 DEF FileMoves, HistoriesGrow
<1>2. CASE ReadStats(c) BY <1>1, <1>2, <1>t DEF ReadStats
<1>3. CASE ReadStreams(c) BY <1>3, <1>g, <1>s DEF ReadStreams, FileMoves, HistoriesGrow
<1>4. CASE ReadFails(c) BY <1>1, <1>4, <1>g DEF ReadFails
<1>5. CASE Observe(c) BY <1>5, <1>g, <1>t DEF Observe, FileMoves, HistoriesGrow
<1>6. ASSUME NEW op, Queue(c, op) PROVE
           UNCHANGED <<file, lastVersion, saw, intruded, overtaken, blind, observed>>
           /\ \A d \in FileCalls \ {c} : fileCall'[d] = fileCall[d]
  BY <1>6, <1>t DEF Queue
<1>7. CASE Enter(c) BY <1>1, <1>7, <1>g DEF Enter
<1>8. CASE SectionStats(c) BY <1>1, <1>8, <1>t DEF SectionStats
<1>9. CASE SectionRefuses(c) BY <1>1, <1>9, <1>g DEF SectionRefuses
<1>10. CASE SectionChecks(c) BY <1>1, <1>10, <1>g DEF SectionChecks
<1>11. CASE SectionReads(c) BY <1>11, <1>g, <1>s DEF SectionReads, FileMoves, HistoriesGrow
<1>12. CASE SectionWrites(c)
  <2>1. c \in InSection BY <1>12 DEF SectionWrites, InSection, Locked
  <2> QED BY <1>12, <2>1, <1>g, <1>s DEF SectionWrites, Replace, FileMoves, HistoriesGrow
<1>13. CASE SectionGivesUp(c) BY <1>1, <1>13, <1>g DEF SectionGivesUp
<1>14. CASE LateWrite(c)
  BY <1>14, <1>g DEF LateWrite, Replace, Intrudes, FileMoves, HistoriesGrow
<1>15. CASE SectionEnds(c) BY <1>1, <1>15, <1>t DEF SectionEnds
<1>16. CASE SectionFails(c) BY <1>1, <1>16, <1>g DEF SectionFails
<1> QED BY <1>1, <1>2, <1>3, <1>4, <1>5, <1>6, <1>7, <1>8, <1>9, <1>10, <1>11, <1>12, <1>13, <1>14, <1>15, <1>16
        DEF FileStep

LEMMA GuardStep ==
  ASSUME FilesTypeOK, FilesTypeOK', OneMutationAtATime, GuardInv, NEW c \in FileCalls, FileStep(c)
  PROVE  GuardInv'
PROOF
<1> USE FilesAssumption
<1> DEFINE s == SessionOf[c]
<1>f. /\ FileMoves /\ HistoriesGrow
      /\ \A d \in FileCalls \ {c} : fileCall'[d] = fileCall[d]
      /\ file' = file \/ c \in InSection \/ Intrudes
      /\ blind' \subseteq blind \cup {c}
      /\ \A z \in FileSessions \ {s} : observed'[z] = observed[z]
  BY FileStepFrame
<1>m. s \in FileSessions /\ \A z \in FileSessions : saw[z] \subseteq saw'[z]
  BY <1>f DEF HistoriesGrow
\* What a step owes for its own call and session.
<1>c. ASSUME s \notin intruded' => Guarded(c)',
             c \in blind' => c \in blind \/ (ExcusedWrite(c)'),
             s \in intruded' \/ observed'[s] = observed[s] \/ (Vouched(s, observed[s])')
      PROVE  GuardInv'
  <2>1. ASSUME NEW d \in InSection \ {c} PROVE SessionOf[d] \in intruded' \/ file' = file
    <3>1. c \notin InSection BY <2>1 DEF OneMutationAtATime
    <3>2. Intrudes => SessionOf[d] \in intruded' BY <2>1 DEF Intrudes
    <3> QED BY <3>1, <3>2, <1>f
  <2>2. \A b \in blind' : b \in blind \/ (ExcusedWrite(b)') BY <1>c, <1>f
  <2>3. \A z \in FileSessions \ intruded' : observed'[z] = observed[z] \/ (Vouched(z, observed[z])')
    BY <1>c, <1>f
  <2>4. \A d \in {c} : SessionOf[d] \notin intruded' => Guarded(d)' BY <1>c
  <2>5. \A d \in InSection \ {c} : SessionOf[d] \in intruded' \/ file' = file BY <2>1
  <2>6. {c} \subseteq FileCalls OBVIOUS
  <2> HIDE DEF s
  <2> QED BY <2>2, <2>3, <2>4, <2>5, <2>6, <1>f, GuardKept, Zenon
\* In a session that was intruded upon it owes nothing.
<1> SUFFICES ASSUME s \notin intruded PROVE GuardInv'
  <2>1. CASE s \in intruded
    <3>1. s \in intruded' BY <2>1, <1>f DEF HistoriesGrow
    <3> QED BY <3>1, <1>c DEF ExcusedWrite
  <2> QED BY <2>1
<1>t. /\ fileCall \in [FileCalls -> FileCallType] /\ fileCall' \in [FileCalls -> FileCallType]
      /\ saw \in [FileSessions -> SUBSET Versions]
      /\ file \in Nat /\ lastVersion \in Nat /\ file <= lastVersion
      /\ lastVersion <= MaxFileVersion /\ MaxFileVersion \in Nat
      /\ fileCall[c].stat \in Versions /\ Absent \in Versions
      /\ observed \in [FileSessions -> Versions \cup {Unread}]
  BY DEF FilesTypeOK, FileCallType, Pcs, GuardInv, Versions, Absent
<1>i. Guarded(c) /\ Vouched(s, observed[s])
  BY <1>m DEF GuardInv
<1>a. /\ fileCall[c].pc = "stream" => fileCall[c].stat <= lastVersion
      /\ fileCall[c].pc = "emit" => Vouched(s, fileCall[c].stat)
      /\ fileCall[c].pc \in Locked \cup {"queued"} => Vouched(s, fileCall[c].expected)
      /\ fileCall[c].pc \in {"check", "read", "write"} => fileCall[c].stat = file
      /\ fileCall[c].pc = "write" => file = Absent \/ file \in saw[s]
      /\ fileCall[c].pc = "after" => file \in saw[s]
      /\ fileCall[c].pc = "adrift" => fileCall[c].stat = Absent \/ fileCall[c].stat \in saw[s]
  BY <1>i DEF Guarded, Active
<1>v. \A v : Vouched(s, v) => Vouched(s, v)' BY <1>f, <1>m, VouchedStays
\* Of the record of a call that Go moves, only the pc changes.
<1>g. ASSUME NEW p \in Pcs, Go(c, p)
      PROVE  /\ fileCall'[c].pc = p /\ fileCall'[c].stat = fileCall[c].stat
             /\ fileCall'[c].expected = fileCall[c].expected
  BY <1>g, <1>t DEF Go, FileCallType
\* A step that leaves the file and what the sessions saw alone.
<1>s. ASSUME UNCHANGED <<file, lastVersion, saw, blind>>,
             observed'[s] = observed[s] \/ (Vouched(s, observed[s])'),
             fileCall'[c].pc = "stream" => fileCall'[c].stat <= lastVersion,
             fileCall'[c].pc = "emit" => Vouched(s, fileCall'[c].stat),
             fileCall'[c].pc \in Locked \cup {"queued"} => Vouched(s, fileCall'[c].expected),
             fileCall'[c].pc \in {"check", "read", "write"} => fileCall'[c].stat = file,
             fileCall'[c].pc = "write" => file = Absent \/ file \in saw[s],
             fileCall'[c].pc = "after" => file \in saw[s],
             fileCall'[c].pc = "adrift" => fileCall'[c].stat = Absent \/ fileCall'[c].stat \in saw[s]
      PROVE  GuardInv'
  <2>1. Guarded(c)' BY <1>s DEF Guarded, Active, Vouched
  <2> QED BY <1>s, <1>c, <2>1
<1>1. CASE ReadStats(c)
  <2>1. /\ fileCall'[c].stat = file
        /\ fileCall'[c].pc = "stream" \/ (fileCall'[c].pc = "emit" /\ file = Absent)
    BY <1>1, <1>t DEF ReadStats, FileCallType
  <2> QED BY <1>1, <2>1, <1>s, <1>t DEF ReadStats, Locked, Vouched
<1>2. CASE ReadStreams(c)
  <2>1. Go(c, "emit") /\ "emit" \in Pcs BY <1>2 DEF ReadStreams, Pcs
  <2>2. fileCall[c].stat <= lastVersion /\ file \in saw'[s] BY <1>2, <1>a, <1>t, <1>m DEF ReadStreams
  <2>3. Vouched(s, fileCall[c].stat)'
    BY <2>2, <2>1, <1>g, <1>t, <1>2 DEF ReadStreams, Vouched
  <2>4. Guarded(c)' BY <2>1, <2>3, <1>g DEF Guarded, Active, Locked
  <2> QED BY <1>2, <1>c, <2>4 DEF ReadStreams
<1>3. CASE ReadFails(c)
  <2>1. Go(c, "failed") /\ "failed" \in Pcs BY <1>3 DEF ReadFails, Pcs
  <2> QED BY <1>3, <2>1, <1>g, <1>s DEF ReadFails, Locked
<1>4. CASE Observe(c)
  <2>1. PICK p \in {"failed", "done"} : Go(c, p) BY <1>4 DEF Observe
  <2>2. Vouched(s, fileCall[c].stat) BY <1>4, <1>a DEF Observe
  <2>3. observed'[s] = fileCall[c].stat BY <1>4, <1>t, <1>m DEF Observe
  <2>4. Vouched(s, observed[s])' BY <1>4, <2>2, <2>3 DEF Observe, Vouched
  <2> QED BY <1>4, <2>1, <2>4, <1>g, <1>s DEF Observe, Locked, Pcs
<1>5. ASSUME NEW op \in {"write", "edit"}, Queue(c, op) PROVE GuardInv'
  <2>1. fileCall'[c].pc = "queued" /\ fileCall'[c].expected = observed[s]
    BY <1>5, <1>t DEF Queue, FileCallType
  <2> QED BY <1>5, <2>1, <1>i, <1>s DEF Queue
<1>6. CASE Enter(c)
  <2>1. Go(c, "stat") /\ "stat" \in Pcs BY <1>6 DEF Enter, Pcs, Locked
  <2> QED BY <1>6, <2>1, <1>g, <1>a, <1>s DEF Enter
<1>7. CASE SectionStats(c)
  <2>1. /\ fileCall'[c].pc = "check" /\ fileCall'[c].stat = file
        /\ fileCall'[c].expected = fileCall[c].expected
    BY <1>7, <1>t DEF SectionStats, FileCallType
  <2> QED BY <1>7, <2>1, <1>a, <1>s DEF SectionStats, Locked
<1>8. CASE SectionRefuses(c)
  <2>1. Go(c, "failed") /\ "failed" \in Pcs BY <1>8 DEF SectionRefuses, Pcs
  <2> QED BY <1>8, <2>1, <1>g, <1>s DEF SectionRefuses, Locked
<1>9. CASE SectionChecks(c)
  <2>1. Vouched(s, fileCall[c].expected) /\ fileCall[c].stat = file
    BY <1>9, <1>a DEF SectionChecks, Locked
  <2>2. CASE fileCall[c].op = "edit"
    <3>1. Go(c, "read") /\ "read" \in Pcs BY <1>9, <2>2 DEF SectionChecks, Pcs, Locked
    <3> QED BY <1>9, <2>1, <3>1, <1>g, <1>s DEF SectionChecks
  <2>3. CASE fileCall[c].op # "edit"
    <3>1. Go(c, "write") /\ "write" \in Pcs BY <1>9, <2>3 DEF SectionChecks, Pcs, Locked
    <3>2. file = Absent \/ fileCall[c].expected = file
      BY <1>9, <2>1, <2>3 DEF SectionChecks, Refused, Decision
    <3>3. file # Unread BY <1>t DEF Unread
    <3>4. file = Absent \/ file \in saw[s] BY <2>1, <3>2, <3>3 DEF Vouched
    <3> QED BY <1>9, <2>1, <3>1, <3>4, <1>g, <1>s DEF SectionChecks
  <2> QED BY <2>2, <2>3
<1>10. CASE SectionReads(c)
  <2>1. Go(c, "write") /\ "write" \in Pcs BY <1>10 DEF SectionReads, Pcs, Locked
  <2>2. file \in saw'[s] /\ Vouched(s, fileCall[c].expected) /\ fileCall[c].stat = file
    BY <1>10, <1>a, <1>t, <1>m DEF SectionReads, Locked
  <2>3. Vouched(s, fileCall[c].expected)'
    <3>1. fileCall'[c].expected = fileCall[c].expected BY <2>1, <1>g
    <3> QED BY <3>1, <2>2, <1>v
  <2>4. Guarded(c)' BY <1>10, <2>1, <2>2, <2>3, <1>g DEF SectionReads, Guarded
  <2> QED BY <1>10, <1>c, <2>4 DEF SectionReads
<1>11. CASE SectionWrites(c)
  <2>1. Go(c, "after") /\ "after" \in Pcs BY <1>11 DEF SectionWrites, Pcs, Locked
  <2>2. c \in blind' => c \in blind BY <1>11, <1>a DEF SectionWrites, Replace
  <2>3. Vouched(s, fileCall[c].expected)'
    <3>1. Vouched(s, fileCall[c].expected) BY <1>11, <1>a DEF SectionWrites, Locked
    <3>2. fileCall'[c].expected = fileCall[c].expected BY <2>1, <1>g
    <3> QED BY <3>1, <3>2, <1>v
  <2>4. file' \in saw'[s] BY <1>11, <1>t, <1>m DEF SectionWrites, Replace
  <2>5. Guarded(c)' BY <2>1, <2>3, <2>4, <1>g DEF Guarded
  <2> QED BY <1>11, <2>2, <2>5, <1>c DEF SectionWrites
<1>12. CASE SectionGivesUp(c)
  <2>1. Go(c, "adrift") /\ "adrift" \in Pcs BY <1>12 DEF SectionGivesUp, Pcs
  <2>2. fileCall[c].stat = Absent \/ fileCall[c].stat \in saw[s] BY <1>12, <1>a DEF SectionGivesUp
  <2> QED BY <1>12, <2>1, <2>2, <1>g, <1>s DEF SectionGivesUp, Locked
<1>13. CASE LateWrite(c)
  <2>1. Go(c, "failed") /\ "failed" \in Pcs BY <1>13 DEF LateWrite, Pcs
  <2>2. Guarded(c)' BY <2>1, <1>g DEF Guarded, Active, Locked
  <2>3. c \in blind' => c \in blind \/ (ExcusedWrite(c)')
    <3>1. CASE file = fileCall[c].stat BY <1>13, <3>1, <1>a DEF LateWrite, Replace
    <3>2. CASE file # fileCall[c].stat BY <1>13, <3>2 DEF LateWrite, ExcusedWrite
    <3> QED BY <3>1, <3>2
  <2> QED BY <1>13, <2>2, <2>3, <1>c DEF LateWrite
<1>14. CASE SectionEnds(c)
  <2>1. fileCall'[c].pc = "emit" /\ fileCall'[c].stat = file
    BY <1>14, <1>t DEF SectionEnds, FileCallType
  <2>2. file \in saw[s] BY <1>14, <1>a DEF SectionEnds
  <2> QED BY <1>14, <2>1, <2>2, <1>s DEF SectionEnds, Locked, Vouched
<1>15. CASE SectionFails(c)
  <2>1. Go(c, "failed") /\ "failed" \in Pcs BY <1>15 DEF SectionFails, Pcs
  <2> QED BY <1>15, <2>1, <1>g, <1>s DEF SectionFails, Locked
<1> QED BY <1>1, <1>2, <1>3, <1>4, <1>5, <1>6, <1>7, <1>8, <1>9, <1>10, <1>11, <1>12, <1>13, <1>14, <1>15 DEF FileStep

LEMMA GuardProcess ==
  ASSUME FilesTypeOK, FilesTypeOK', GuardInv, ProcessWrites \/ ProcessRemoves
  PROVE  GuardInv'
PROOF
<1>1. FileMoves BY DEF FileMoves, ProcessWrites, ProcessRemoves
<1>2. UNCHANGED <<fileCall, observed, saw, blind, overtaken>> /\ Intrudes
  BY DEF ProcessWrites, ProcessRemoves
<1>3. HistoriesGrow BY <1>2 DEF HistoriesGrow, Intrudes
<1>4. \A d \in InSection : SessionOf[d] \in intruded' BY <1>2 DEF Intrudes
\* No call moves.
<1>5. PICK M : M = {} OBVIOUS
<1>6. /\ M \subseteq FileCalls
      /\ \A d \in FileCalls \ M : fileCall'[d] = fileCall[d]
      /\ \A d \in InSection \ M : SessionOf[d] \in intruded' \/ file' = file
      /\ \A c \in M : SessionOf[c] \notin intruded' => Guarded(c)'
      /\ \A c \in blind' : c \in blind \/ (ExcusedWrite(c)')
      /\ \A z \in FileSessions \ intruded' : observed'[z] = observed[z] \/ (Vouched(z, observed[z])')
  BY <1>2, <1>4, <1>5
<1> QED BY <1>1, <1>3, <1>6, GuardKept, Zenon

LEMMA GuardInit == FilesInit => GuardInv
PROOF
<1> SUFFICES ASSUME FilesInit PROVE GuardInv
  OBVIOUS
<1>1. file <= lastVersion /\ blind = {} BY DEF FilesInit
<1>2. ASSUME NEW z \in FileSessions PROVE Vouched(z, observed[z])
  BY <1>2 DEF FilesInit, Vouched
<1>3. \A c \in FileCalls : Guarded(c) BY DEF FilesInit, NewFileCall, Guarded, Active, Locked
<1> QED BY <1>1, <1>2, <1>3 DEF GuardInv

\* The read-before-write guard holds, however many sessions and calls there
\* are: no write replaces a content its session did not see, unless a process or
\* a write that was given up changed the file inside a locked section of that
\* session, or the write was itself given up and came after another change.
THEOREM GuardHolds == FilesSpec => []NoBlindOverwrite
PROOF
<1> DEFINE Inv == FilesTypeOK /\ LineInv /\ GuardInv
<1>1. FilesInit => Inv BY FilesInitTyped, LineInit, GuardInit
<1>2. Inv /\ [FilesNext]_filesVars => Inv'
  <2> SUFFICES ASSUME FilesTypeOK, LineInv, GuardInv, [FilesNext]_filesVars PROVE Inv'
    OBVIOUS
  <2>1. FilesTypeOK' /\ LineInv' /\ OneMutationAtATime BY FilesTypeStep, LineNext, LineExcludes
  <2>2. CASE UNCHANGED filesVars
    BY <2>2, <2>1 DEF filesVars, GuardInv, ExcusedWrite, Guarded, Vouched, Active
  <2>3. CASE FilesNext BY <2>3, <2>1, GuardStep, GuardProcess DEF FilesNext
  <2> QED BY <2>1, <2>2, <2>3
<1>3. Inv => NoBlindOverwrite BY DEF GuardInv, ExcusedWrite, NoBlindOverwrite
<1> QED BY <1>1, <1>2, <1>3, PTL DEF FilesSpec
=============================================================================
