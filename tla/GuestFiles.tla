----------------------------- MODULE GuestFiles -----------------------------
(***************************************************************************)
(* Reads, writes and edits of one file of a container through the plugin's *)
(* filesystem (src/src/fs-provider.ts, fs-guard.ts) by the container file  *)
(* tools (src/src/tool-handlers.ts) of several sessions, while processes   *)
(* of the container change the same file.                                  *)
(*                                                                         *)
(* The harness remembers, per session, the version a tool last observed,   *)
(* and hands it to a write or an edit as its intent.  The provider checks  *)
(* it against a fresh stat and then writes, under a lock of the path that  *)
(* is a chain of promises.  A caller that goes away, or a connection that  *)
(* breaks, ends the call and its lock at once, while its write may still   *)
(* be on its way through the guest agent.                                  *)
(***************************************************************************)
EXTENDS Naturals

CONSTANTS
  FileCalls,      \* the calls
  FileSessions,   \* the sessions
  SessionOf,      \* the session of a call
  Newcomers,      \* the sessions that may not have read the file yet
  OpsOf,          \* what a call may be: "read", "write" or "edit"
  NoCall,         \* no call
  MaxFileVersion, \* versions of the file
  MaxProcessActs  \* changes by processes of the container

ASSUME FilesAssumption ==
  /\ SessionOf \in [FileCalls -> FileSessions]
  /\ OpsOf \in [FileCalls -> SUBSET {"read", "write", "edit"}]
  /\ NoCall \notin FileCalls
  /\ MaxFileVersion \in Nat \ {0} /\ MaxProcessActs \in Nat

VARIABLES
  file,         \* the version of the file's content, Absent when there is none
  lastVersion,  \* the last version handed out
  observed,     \* per session: what the harness remembers of the file
  fileCall,     \* the calls
  processActs,  \* how often a process changed the file
  lockTail,     \* targetLocks.get(path): the call queued last, or NoCall
  saw,          \* history, per session: the contents its tools returned, or reported written
  intruded,     \* history: the sessions in whose locked section another wrote
  blind,        \* history: the calls that replaced a content their session never saw
  overtaken     \* history: the calls whose late write replaced another version
                \* than the one they checked

filesVars == <<file, lastVersion, observed, fileCall, lockTail, saw, intruded, blind, overtaken,
              processActs>>

Absent == 0
Unread == MaxFileVersion + 1          \* the session observed nothing
Versions == Absent..MaxFileVersion

NewFileCall == [pc |-> "idle", op |-> "read", behind |-> NoCall, expected |-> Unread, stat |-> Absent]

\* A session has read the file, or is a newcomer.
FilesInit ==
  /\ file = 1 /\ lastVersion = 1
  /\ observed \in {o \in [FileSessions -> {1, Unread}] : \A s \in FileSessions \ Newcomers : o[s] = 1}
  /\ fileCall = [c \in FileCalls |-> NewFileCall]
  /\ lockTail = NoCall
  /\ saw = [s \in FileSessions |-> IF observed[s] = 1 THEN {1} ELSE {}]
  /\ intruded = {} /\ blind = {} /\ overtaken = {}
  /\ processActs = 0

Locked == {"stat", "check", "read", "write", "after"}
InSection == {c \in FileCalls : fileCall[c].pc \in Locked}
Ended(c) == fileCall[c].pc \in {"idle", "emit", "adrift", "done", "failed"}

\* The file changes while a call that does not change it is in its section.
Intrudes == intruded' = intruded \cup {SessionOf[c] : c \in InSection}

Go(c, p) == fileCall' = [fileCall EXCEPT ![c].pc = p]

(***************************************************************************)
(* container_read: stat, stream, and then tell the harness the version of  *)
(* the stat, which the streamed content may be newer than.                 *)
(***************************************************************************)
ReadStats(c) ==
  /\ fileCall[c].pc = "idle" /\ "read" \in OpsOf[c]
  /\ fileCall' = [fileCall EXCEPT ![c].op = "read", ![c].stat = file,
                                  ![c].pc = IF file = Absent THEN "emit" ELSE "stream"]
  /\ UNCHANGED <<file, lastVersion, observed, lockTail, saw, intruded, blind, overtaken, processActs>>

ReadStreams(c) ==
  /\ fileCall[c].pc = "stream" /\ file # Absent
  /\ saw' = [saw EXCEPT ![SessionOf[c]] = @ \cup {file}]
  /\ Go(c, "emit")
  /\ UNCHANGED <<file, lastVersion, observed, lockTail, intruded, blind, overtaken, processActs>>

\* The stream fails: the file is gone, the agent is unreachable, the caller
\* went away.
ReadFails(c) ==
  /\ fileCall[c].pc = "stream"
  /\ Go(c, "failed")
  /\ UNCHANGED <<file, lastVersion, observed, lockTail, saw, intruded, blind, overtaken, processActs>>

\* fs/observed, after a read, a write or an edit.  A miss of a read is
\* remembered as absent.
Observe(c) ==
  /\ fileCall[c].pc = "emit"
  /\ observed' = [observed EXCEPT ![SessionOf[c]] = fileCall[c].stat]
  /\ Go(c, IF fileCall[c].op = "read" /\ fileCall[c].stat = Absent THEN "failed" ELSE "done")
  /\ UNCHANGED <<file, lastVersion, lockTail, saw, intruded, blind, overtaken, processActs>>

(***************************************************************************)
(* container_write and container_edit.                                     *)
(***************************************************************************)
\* The intent is what the session remembers now; withTargetLock then queues
\* the call behind the last one of the path.  The harness refuses an edit of a
\* file that was not read.
Queue(c, op) ==
  /\ fileCall[c].pc = "idle" /\ op \in OpsOf[c] \ {"read"}
  /\ op = "edit" => observed[SessionOf[c]] # Unread
  /\ fileCall' = [fileCall EXCEPT ![c].pc = "queued", ![c].op = op, ![c].behind = lockTail,
                                  ![c].expected = observed[SessionOf[c]]]
  /\ lockTail' = c
  /\ UNCHANGED <<file, lastVersion, observed, saw, intruded, blind, overtaken, processActs>>

\* "await previous": the promise of the call in front is settled once that
\* call has left its section.
Enter(c) ==
  /\ fileCall[c].pc = "queued"
  /\ fileCall[c].behind # NoCall => Ended(fileCall[c].behind)
  /\ Go(c, "stat")
  /\ UNCHANGED <<file, lastVersion, observed, lockTail, saw, intruded, blind, overtaken, processActs>>

SectionStats(c) ==
  /\ fileCall[c].pc = "stat"
  /\ fileCall' = [fileCall EXCEPT ![c].pc = "check", ![c].stat = file]
  /\ UNCHANGED <<file, lastVersion, observed, lockTail, saw, intruded, blind, overtaken, processActs>>

\* guardDecision
Decision(expected, current) ==
  IF current = Absent THEN "missing" ELSE IF expected = current THEN "unchanged" ELSE "stale"

\* A write that was told a version refuses a stale file and creates a missing
\* one; one of an unread (or absent) file refuses to overwrite.  An edit
\* refuses both.
RefusedIfSeen(c) ==
  fileCall[c].expected # Unread /\ Decision(fileCall[c].expected, fileCall[c].stat) = "stale"
Refused(c) ==
  LET seen == fileCall[c].expected
      decision == Decision(seen, fileCall[c].stat) IN
  IF fileCall[c].op = "edit" THEN decision # "unchanged" ELSE decision = "stale"

ReleaseAlways(c) == lockTail' = NoCall

\* finally: release, and forget the path when nobody queued behind.
Release(c) == lockTail' = IF lockTail = c THEN NoCall ELSE lockTail

SectionRefuses(c) ==
  /\ fileCall[c].pc = "check" /\ Refused(c)
  /\ Go(c, "failed")
  /\ Release(c)
  /\ UNCHANGED <<file, lastVersion, observed, saw, intruded, blind, overtaken, processActs>>

\* A write may go on; an edit reads the content it matches against.
SectionChecks(c) ==
  /\ fileCall[c].pc = "check" /\ ~Refused(c)
  /\ Go(c, IF fileCall[c].op = "edit" THEN "read" ELSE "write")
  /\ UNCHANGED <<file, lastVersion, observed, lockTail, saw, intruded, blind, overtaken, processActs>>

SectionReads(c) ==
  /\ fileCall[c].pc = "read" /\ file # Absent
  /\ saw' = [saw EXCEPT ![SessionOf[c]] = @ \cup {file}]
  /\ Go(c, "write")
  /\ UNCHANGED <<file, lastVersion, observed, lockTail, intruded, blind, overtaken, processActs>>

\* The write of a call replaces the file, through a temporary one and a rename.
Replace(c) ==
  /\ lastVersion < MaxFileVersion
  /\ file' = lastVersion + 1 /\ lastVersion' = lastVersion + 1
  /\ blind' = IF file \in saw[SessionOf[c]] \cup {Absent} THEN blind ELSE blind \cup {c}

\* writeFile, answered.
SectionWrites(c) ==
  /\ fileCall[c].pc = "write" /\ Replace(c)
  /\ saw' = [saw EXCEPT ![SessionOf[c]] = @ \cup {lastVersion + 1}]
  /\ Go(c, "after")
  /\ UNCHANGED <<observed, lockTail, intruded, overtaken, processActs>>

\* The caller aborts, which rejects the call here and now, or the connection
\* breaks: finally releases, although the guest may have the whole content.
SectionGivesUp(c) ==
  /\ fileCall[c].pc = "write"
  /\ Go(c, "adrift")
  /\ Release(c)
  /\ UNCHANGED <<file, lastVersion, observed, saw, intruded, blind, overtaken, processActs>>

\* The handler of a write that was given up comes to its rename, at any time
\* after the release or never.
LateWrite(c) ==
  /\ fileCall[c].pc = "adrift" /\ Replace(c)
  /\ overtaken' = IF file = fileCall[c].stat THEN overtaken ELSE overtaken \cup {c}
  /\ Intrudes
  /\ Go(c, "failed")
  /\ UNCHANGED <<observed, lockTail, saw, processActs>>

\* The version the caller is told is that of another stat after the write.
SectionEnds(c) ==
  /\ fileCall[c].pc = "after"
  /\ fileCall' = [fileCall EXCEPT ![c].pc = "emit", ![c].stat = file]
  /\ Release(c)
  /\ UNCHANGED <<file, lastVersion, observed, saw, intruded, blind, overtaken, processActs>>

\* A call of the section fails: the agent is gone, the caller went away, the
\* text to replace is not there or is there twice, the write is refused or does
\* not reach the agent.
SectionFails(c) ==
  /\ fileCall[c].pc \in Locked
  /\ Go(c, "failed")
  /\ Release(c)
  /\ UNCHANGED <<file, lastVersion, observed, saw, intruded, blind, overtaken, processActs>>

(***************************************************************************)
(* A process of the container writes the file, or removes it.              *)
(***************************************************************************)
ProcessWrites ==
  /\ processActs < MaxProcessActs /\ processActs' = processActs + 1
  /\ lastVersion < MaxFileVersion
  /\ file' = lastVersion + 1 /\ lastVersion' = lastVersion + 1
  /\ Intrudes
  /\ UNCHANGED <<observed, fileCall, lockTail, saw, blind, overtaken>>

ProcessRemoves ==
  /\ processActs < MaxProcessActs /\ processActs' = processActs + 1
  /\ file # Absent
  /\ file' = Absent
  /\ Intrudes
  /\ UNCHANGED <<lastVersion, observed, fileCall, lockTail, saw, blind, overtaken>>

FileStep(c) ==
  \/ ReadStats(c) \/ ReadStreams(c) \/ ReadFails(c) \/ Observe(c)
  \/ (\E op \in {"write", "edit"} : Queue(c, op)) \/ Enter(c)
  \/ SectionStats(c) \/ SectionRefuses(c) \/ SectionChecks(c) \/ SectionReads(c)
  \/ SectionWrites(c) \/ SectionGivesUp(c) \/ LateWrite(c)
  \/ SectionEnds(c) \/ SectionFails(c)

FilesNext == (\E c \in FileCalls : FileStep(c)) \/ ProcessWrites \/ ProcessRemoves

FilesSpec == FilesInit /\ [][FilesNext]_filesVars

-----------------------------------------------------------------------------
\* The file, the calls and the lock are of the shapes the code gives them.
FilesTypeOK ==
  /\ file \in Versions /\ lastVersion \in Versions
  /\ observed \in [FileSessions -> Versions \cup {Unread}]
  /\ fileCall \in [FileCalls -> [pc : Locked \cup {"idle", "stream", "emit", "queued", "adrift", "done", "failed"},
                                 op : {"read", "write", "edit"}, behind : FileCalls \cup {NoCall},
                                 expected : Versions \cup {Unread}, stat : Versions]]
  /\ lockTail \in FileCalls \cup {NoCall}
  /\ saw \in [FileSessions -> SUBSET Versions]
  /\ intruded \subseteq FileSessions /\ blind \subseteq FileCalls /\ overtaken \subseteq FileCalls
  /\ processActs \in 0..MaxProcessActs

\* Of the mutations of a path, one at a time is between its stat and its end,
\* although each waits only for the one that was queued last when it came, and
\* the path is forgotten when the last one leaves (withTargetLock).
OneMutationAtATime == \A c, d \in InSection : c = d

\* No write replaces a content that its session has not seen, however the
\* calls of the sessions, the writes that were given up and the processes of
\* the container interleave (the read-before-write guard).  Two exceptions, which
\* no lock of the plugin excludes: in a locked section of that session a process,
\* or a write given up before, changed the file; or the write was itself given
\* up and came late, when the file was not the one it had checked any more.
NoBlindOverwrite == \A c \in blind : SessionOf[c] \in intruded \/ c \in overtaken

=============================================================================
