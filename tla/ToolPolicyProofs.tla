-------------------------- MODULE ToolPolicyProofs --------------------------
(***************************************************************************)
(* What holds of ToolPolicy for any number of calls, templates and         *)
(* sessions and any changes from outside: its types, a tool runs as the    *)
(* session it began under permits, a load removes what its prompt said,    *)
(* and the list of the agent is the recorded one.  What holds of           *)
(* TemplateLoad for any number of loads, builds and saves: its types, and  *)
(* a template and the container it was loaded to, or saved from, agree.    *)
(***************************************************************************)
EXTENDS ToolPolicy, TemplateLoad, FiniteSetTheorems, TLAPS

\* What the proof needs of the shape of the state.
IsToolCall(x) ==
  x \in [tool : {x.tool}, phase : {x.phase}, facts : {x.facts}, seen : {x.seen}, staged : {x.staged},
         summary : {x.summary}, list : {x.list}, verified : BOOLEAN, touched : BOOLEAN,
         approved : {x.approved}, lost : {x.lost}]
IsBox(x) == x \in [mounts : {x.mounts}, env : {x.env}, paths : {x.paths}, agentPaths : {x.agentPaths}]
AreCalls(calls) ==
  /\ DOMAIN calls = ToolCalls /\ calls = [c \in DOMAIN calls |-> calls[c]]
  /\ \A c \in ToolCalls : IsToolCall(calls[c])

\* The property, of one call.
Permitted(call) ==
  /\ call.facts.mode = "read-only" =>
       call.tool \in ReadOnlyClass \cup {"foreign"} \/ (call.tool \in GatedClass /\ call.verified)
  /\ call.facts.mode # "read-only" /\ call.facts.policy = "ask" /\ AsksFirst(call.tool, call.facts)
       /\ call.tool \notin NotOurs => call.approved

\* What a call is at each place; and that it was noted whenever the container
\* was wholly read-only since it began, on which the gate relies when it finds
\* nothing to remount.
ToolPlaced(call) ==
  /\ call.phase \in Running => Permitted(call)
  /\ call.phase \in {"gate", "remount_prompt", "remount"} =>
       call.facts.mode = "read-only" /\ call.tool \in GatedClass
  /\ call.phase \in {"read_file", "read_box", "prompt"} => call.facts.mode # "read-only"
Noticed(call, b) == call.phase # "idle" /\ WhollyReadOnly(b.mounts) => call.verified

PolicyInv ==
  /\ IsBox(box) /\ AreCalls(toolCall)
  /\ \A c \in ToolCalls : ToolPlaced(toolCall[c]) /\ Noticed(toolCall[c], box)

-----------------------------------------------------------------------------
(* What the operators do.                                                  *)

\* The gate's test is the one of the history.
LEMMA GateTest ==
  ASSUME NEW mounts
  PROVE  /\ AllReadOnly(mounts) => WhollyReadOnly(mounts)
         /\ WhollyReadOnly(ReadOnlyMounts(mounts))
BY DEF AllReadOnly, WritableMounts, WhollyReadOnly, ReadOnlyMounts

LEMMA BoxRemade ==
  ASSUME NEW b, IsBox(b), NEW mounts
  PROVE  /\ IsBox(Recreated(b)) /\ Recreated(b).mounts = b.mounts
         /\ IsBox([b EXCEPT !.mounts = mounts]) /\ [b EXCEPT !.mounts = mounts].mounts = mounts
BY DEF IsBox, Recreated

\* A change of the container is noted by every call, and moves none.
LEMMA NotedCalls ==
  ASSUME NEW calls, AreCalls(calls), NEW b, NEW c, NEW d \in ToolCalls
  PROVE  LET x == calls[d]
             y == Noted(calls, b, c)[d]
         IN  /\ IsToolCall(y) /\ y.tool = x.tool /\ y.facts = x.facts /\ y.phase = x.phase
             /\ y.approved = x.approved /\ (x.verified => y.verified)
             /\ WhollyReadOnly(b.mounts) => y.verified
<1>1. IsToolCall(calls[d]) BY DEF AreCalls
<1>2. PICK verified \in BOOLEAN, touched \in BOOLEAN :
        /\ verified = (calls[d].verified \/ WhollyReadOnly(b.mounts)) /\ touched = (calls[d].touched \/ d # c)
        /\ Noted(calls, b, c)[d] = [calls[d] EXCEPT !.verified = verified, !.touched = touched]
  BY <1>1 DEF Noted, IsToolCall, WhollyReadOnly
<1> QED BY <1>1, <1>2 DEF IsToolCall

LEMMA NotedIsCalls ==
  ASSUME NEW calls, AreCalls(calls), NEW b, NEW c
  PROVE  AreCalls(Noted(calls, b, c))
<1>1. \A d \in ToolCalls : IsToolCall(Noted(calls, b, c)[d]) BY NotedCalls
<1>2. DOMAIN Noted(calls, b, c) = ToolCalls /\ Noted(calls, b, c) = [d \in DOMAIN Noted(calls, b, c) |-> Noted(calls, b, c)[d]]
  BY DEF Noted
<1> QED BY <1>1, <1>2 DEF AreCalls

\* One call moves.
LEMMA CallMoved ==
  ASSUME AreCalls(toolCall), NEW c \in ToolCalls, NEW e, IsToolCall(e), toolCall' = [toolCall EXCEPT ![c] = e]
  PROVE  AreCalls(toolCall') /\ toolCall'[c] = e /\ \A d \in ToolCalls \ {c} : toolCall'[d] = toolCall[d]
BY DEF AreCalls

LEMMA PhaseMoved ==
  ASSUME AreCalls(toolCall), NEW c \in ToolCalls, NEW p, toolCall' = [toolCall EXCEPT ![c].phase = p]
  PROVE  /\ AreCalls(toolCall') /\ \A d \in ToolCalls \ {c} : toolCall'[d] = toolCall[d]
         /\ toolCall'[c].phase = p /\ toolCall'[c].tool = toolCall[c].tool /\ toolCall'[c].facts = toolCall[c].facts
         /\ toolCall'[c].approved = toolCall[c].approved /\ toolCall'[c].verified = toolCall[c].verified
<1>1. IsToolCall(toolCall[c]) BY DEF AreCalls
<1>2. PICK e : e = [toolCall[c] EXCEPT !.phase = p] OBVIOUS
<1>3. /\ IsToolCall(e) /\ e.phase = p /\ e.tool = toolCall[c].tool /\ e.facts = toolCall[c].facts
      /\ e.approved = toolCall[c].approved /\ e.verified = toolCall[c].verified
  BY <1>1, <1>2 DEF IsToolCall
<1>4. toolCall' = [toolCall EXCEPT ![c] = e] BY <1>2
<1> HIDE DEF AreCalls, IsToolCall
<1>5. AreCalls(toolCall') /\ toolCall'[c] = e /\ \A d \in ToolCalls \ {c} : toolCall'[d] = toolCall[d]
  BY <1>3, <1>4, CallMoved
<1> QED BY <1>3, <1>5

-----------------------------------------------------------------------------
(* Steps that leave the container's mounts alone.                          *)

\* x and y are one call, before and after, but for its place.
Same(x, y) ==
  /\ y.tool = x.tool /\ y.facts = x.facts /\ y.approved = x.approved
  /\ x.verified => y.verified

LEMMA StaysPermitted == ASSUME NEW x, NEW y, Same(x, y), Permitted(x) PROVE Permitted(y)
BY DEF Same, Permitted

LEMMA QuietStep ==
  ASSUME PolicyInv, NEW c \in ToolCalls, IsBox(box'), box'.mounts = box.mounts, AreCalls(toolCall'),
         \A d \in ToolCalls \ {c} : toolCall'[d] = toolCall[d],
         ToolPlaced(toolCall'[c]), Noticed(toolCall'[c], box)
  PROVE  PolicyInv'
BY DEF PolicyInv, IsBox, AreCalls, IsToolCall, ToolPlaced, Noticed, Permitted, AsksFirst, WhollyReadOnly

\* A call goes on or ends where nothing more is asked of it.
LEMMA PhaseStep ==
  ASSUME PolicyInv, NEW c \in ToolCalls, IsBox(box'), box'.mounts = box.mounts, NEW p, toolCall' = [toolCall EXCEPT ![c].phase = p],
         toolCall[c].phase # "idle",
         \/ p \in {"denied", "failed"}
         \/ p \in Running /\ toolCall[c].phase \in Running
         \/ p = "prompt" /\ toolCall[c].phase \in {"read_file", "read_box"}
         \/ p = "remount" /\ toolCall[c].phase = "remount_prompt"
  PROVE  PolicyInv'
<1>1. /\ AreCalls(toolCall') /\ \A d \in ToolCalls \ {c} : toolCall'[d] = toolCall[d]
      /\ toolCall'[c].phase = p /\ Same(toolCall[c], toolCall'[c])
      /\ toolCall'[c].verified = toolCall[c].verified
  <2>1. AreCalls(toolCall) BY DEF PolicyInv
  <2>2. /\ AreCalls(toolCall') /\ \A d \in ToolCalls \ {c} : toolCall'[d] = toolCall[d]
        /\ toolCall'[c].phase = p /\ toolCall'[c].tool = toolCall[c].tool /\ toolCall'[c].facts = toolCall[c].facts
        /\ toolCall'[c].approved = toolCall[c].approved /\ toolCall'[c].verified = toolCall[c].verified
    BY <2>1, PhaseMoved
  <2> QED BY <2>2 DEF Same
<1>2. ToolPlaced(toolCall[c]) /\ Noticed(toolCall[c], box) BY DEF PolicyInv
<1>3. Noticed(toolCall'[c], box) BY <1>1, <1>2 DEF Noticed
<1>4. toolCall[c].phase \in Running => Permitted(toolCall'[c]) BY <1>1, <1>2, StaysPermitted DEF ToolPlaced
<1>5. ToolPlaced(toolCall'[c]) BY <1>1, <1>2, <1>4 DEF ToolPlaced, Running, Same
<1> QED BY <1>1, <1>3, <1>5, QuietStep

LEMMA BeginStep ==
  ASSUME PolicyInv, NEW c \in ToolCalls, NEW tool \in ToolClasses, Begin(c, tool)
  PROVE  PolicyInv'
<1>1. IsToolCall(toolCall[c]) /\ AreCalls(toolCall) /\ box' = box /\ IsBox(box') BY DEF PolicyInv, AreCalls, Begin
<1>2. PICK verified, phase, facts :
        /\ verified \in BOOLEAN /\ verified = WhollyReadOnly(box.mounts) /\ phase = FirstPhase(tool, session) /\ facts = session
  BY DEF WhollyReadOnly
<1>3. PICK e : e = [toolCall[c] EXCEPT !.tool = tool, !.facts = facts, !.phase = phase, !.verified = verified] OBVIOUS
<1>4. IsToolCall(e) /\ e.tool = tool /\ e.facts = facts /\ e.phase = phase /\ e.verified = verified
  BY <1>1, <1>2, <1>3 DEF IsToolCall
<1>5. toolCall' = [toolCall EXCEPT ![c] = e] BY <1>1, <1>2, <1>3 DEF Begin, AreCalls
<1>6. AreCalls(toolCall') /\ toolCall'[c] = e /\ \A d \in ToolCalls \ {c} : toolCall'[d] = toolCall[d]
  BY <1>1, <1>4, <1>5, CallMoved
<1>7. Noticed(e, box) BY <1>2, <1>4 DEF Noticed
<1>8. ToolPlaced(e)
  <2>1. phase \in Running => Permitted(e)
    BY <1>2, <1>4 DEF FirstPhase, Permitted, Running, GatedClass, ReadOnlyClass, NotOurs
  <2>2. phase \in {"gate", "remount_prompt", "remount"} => facts.mode = "read-only" /\ tool \in GatedClass
    BY <1>2 DEF FirstPhase
  <2>3. phase \in {"read_file", "read_box", "prompt"} => facts.mode # "read-only"
    BY <1>2 DEF FirstPhase, GatedClass, ReadOnlyClass
  <2> QED BY <1>4, <2>1, <2>2, <2>3 DEF ToolPlaced
<1> QED BY <1>1, <1>6, <1>7, <1>8, QuietStep

LEMMA GateStep ==
  ASSUME PolicyInv, NEW c \in ToolCalls,
         GateUnreadable(c) \/ GateReads(c) \/ GateAnswered(c) \/ RemountRefused(c)
  PROVE  PolicyInv'
<1>1. box' = box /\ IsBox(box') BY DEF PolicyInv, GateUnreadable, GateReads, GateAnswered, RemountRefused
<1>2. CASE GateUnreadable(c) \/ GateAnswered(c) \/ RemountRefused(c)
  <2>1. PICK p \in {"denied", "remount", "failed"} :
          /\ toolCall' = [toolCall EXCEPT ![c].phase = p]
          /\ toolCall[c].phase # "idle"
          /\ p = "remount" => toolCall[c].phase = "remount_prompt"
    BY <1>2 DEF GateUnreadable, GateAnswered, RemountRefused, Phase
  <2> QED BY <1>1, <2>1, PhaseStep
<1>3. CASE GateReads(c)
  <2>1. IsToolCall(toolCall[c]) /\ AreCalls(toolCall) BY DEF PolicyInv, AreCalls
  <2>2. PICK seen, phase : /\ seen = box.mounts
                           /\ phase = IF AllReadOnly(box.mounts) THEN "run" ELSE "remount_prompt"
    OBVIOUS
  <2>3. PICK e : e = [toolCall[c] EXCEPT !.seen = seen, !.phase = phase] OBVIOUS
  <2>4. IsToolCall(e) /\ e.phase = phase /\ Same(toolCall[c], e) /\ e.verified = toolCall[c].verified
    BY <2>1, <2>3 DEF IsToolCall, Same
  <2>5. toolCall' = [toolCall EXCEPT ![c] = e] BY <1>3, <2>1, <2>2, <2>3 DEF GateReads, AreCalls
  <2>6. AreCalls(toolCall') /\ toolCall'[c] = e /\ \A d \in ToolCalls \ {c} : toolCall'[d] = toolCall[d]
    BY <2>1, <2>4, <2>5, CallMoved
  <2>7. /\ toolCall[c].phase = "gate" /\ toolCall[c].facts.mode = "read-only" /\ toolCall[c].tool \in GatedClass
        /\ WhollyReadOnly(box.mounts) => toolCall[c].verified
    BY <1>3 DEF GateReads, PolicyInv, ToolPlaced, Noticed
  <2>8. Noticed(e, box) BY <2>4, <2>7 DEF Noticed
  <2>9. phase = "run" => Permitted(e) BY <2>2, <2>4, <2>7, GateTest DEF Permitted, Same
  <2>10. ToolPlaced(e) BY <2>2, <2>4, <2>7, <2>9 DEF ToolPlaced, Same, Running
  <2> QED BY <1>1, <2>6, <2>8, <2>10, QuietStep
<1> QED BY <1>2, <1>3

\* The summary is read, the user answers, a list or a document is read.
AskedOnward(x, e) ==
  /\ e.tool = x.tool /\ e.facts = x.facts /\ e.verified = x.verified
  /\ \/ x.phase = "read_file" /\ e.phase = "read_box"
     \/ x.phase = "read_box" /\ e.phase = "prompt"
     \/ x.phase = "prompt" /\ e.phase = "run" /\ e.approved = TRUE
     \/ x.phase = "run" /\ e.phase \in {"apply", "persist"} /\ e.approved = x.approved

LEMMA ReadStep ==
  ASSUME PolicyInv, NEW c \in ToolCalls,
         SummaryReadsFile(c) \/ SummaryReadsBox(c) \/ Approve(c) \/ LoadReads(c) \/ PathReads(c)
  PROVE  PolicyInv'
<1>1. /\ IsToolCall(toolCall[c]) /\ AreCalls(toolCall) /\ box' = box /\ IsBox(box')
      /\ ToolPlaced(toolCall[c]) /\ Noticed(toolCall[c], box)
  BY DEF PolicyInv, AreCalls, SummaryReadsFile, SummaryReadsBox, Approve, LoadReads, PathReads
<1>2. PICK e : IsToolCall(e) /\ toolCall' = [toolCall EXCEPT ![c] = e] /\ AskedOnward(toolCall[c], e)
  <2>1. CASE SummaryReadsFile(c)
    <3>1. PICK e : e = [toolCall[c] EXCEPT !.phase = "read_box", !.staged = template, !.touched = FALSE] OBVIOUS
    <3>2. IsToolCall(e) /\ AskedOnward(toolCall[c], e) BY <1>1, <2>1, <3>1 DEF SummaryReadsFile, IsToolCall, AskedOnward
    <3>3. toolCall' = [toolCall EXCEPT ![c] = e] BY <1>1, <2>1, <3>1 DEF SummaryReadsFile, AreCalls
    <3> QED BY <3>2, <3>3
  <2>2. CASE SummaryReadsBox(c)
    <3>1. PICK summary : summary = Removals(toolCall[c].staged, box) OBVIOUS
    <3>2. PICK e : e = [toolCall[c] EXCEPT !.phase = "prompt", !.summary = summary] OBVIOUS
    <3>3. IsToolCall(e) /\ AskedOnward(toolCall[c], e) BY <1>1, <2>2, <3>2 DEF SummaryReadsBox, IsToolCall, AskedOnward
    <3>4. toolCall' = [toolCall EXCEPT ![c] = e] BY <1>1, <2>2, <3>1, <3>2 DEF SummaryReadsBox, AreCalls
    <3> QED BY <3>3, <3>4
  <2>3. CASE Approve(c)
    <3>1. PICK e : e = [toolCall[c] EXCEPT !.phase = "run", !.approved = TRUE] OBVIOUS
    <3>2. IsToolCall(e) /\ AskedOnward(toolCall[c], e) BY <1>1, <2>3, <3>1 DEF Approve, IsToolCall, AskedOnward
    <3>3. toolCall' = [toolCall EXCEPT ![c] = e] BY <1>1, <2>3, <3>1 DEF Approve, AreCalls
    <3> QED BY <3>2, <3>3
  <2>4. CASE LoadReads(c)
    <3>1. PICK e : e = [toolCall[c] EXCEPT !.phase = "apply", !.staged = template] OBVIOUS
    <3>2. IsToolCall(e) /\ AskedOnward(toolCall[c], e) BY <1>1, <2>4, <3>1 DEF LoadReads, IsToolCall, AskedOnward
    <3>3. toolCall' = [toolCall EXCEPT ![c] = e] BY <1>1, <2>4, <3>1 DEF LoadReads, AreCalls
    <3> QED BY <3>2, <3>3
  <2>5. CASE PathReads(c)
    <3>1. PICK list : list = NewList(toolCall[c].tool) OBVIOUS
    <3>2. PICK e : e = [toolCall[c] EXCEPT !.phase = "persist", !.list = list] OBVIOUS
    <3>3. IsToolCall(e) /\ AskedOnward(toolCall[c], e) BY <1>1, <2>5, <3>2 DEF PathReads, IsToolCall, AskedOnward
    <3>4. toolCall' = [toolCall EXCEPT ![c] = e] BY <1>1, <2>5, <3>1, <3>2 DEF PathReads, AreCalls
    <3> QED BY <3>3, <3>4
  <2> QED BY <2>1, <2>2, <2>3, <2>4, <2>5
<1>3. AreCalls(toolCall') /\ toolCall'[c] = e /\ \A d \in ToolCalls \ {c} : toolCall'[d] = toolCall[d]
  BY <1>1, <1>2, CallMoved
<1>4. Noticed(e, box) BY <1>1, <1>2 DEF Noticed, AskedOnward
<1>5. ToolPlaced(e) BY <1>1, <1>2 DEF ToolPlaced, Permitted, Running, AskedOnward
<1> QED BY <1>1, <1>3, <1>4, <1>5, QuietStep

LEMMA EndStep ==
  ASSUME PolicyInv, NEW c \in ToolCalls,
         SummaryFails(c) \/ Decline(c) \/ RunPlain(c) \/ PathPushes(c) \/ PathFails(c)
  PROVE  PolicyInv'
<1>1. IsBox(box') /\ box'.mounts = box.mounts
  BY DEF PolicyInv, SummaryFails, Decline, RunPlain, PathPushes, PathFails, IsBox
<1>2. PICK p : /\ toolCall' = [toolCall EXCEPT ![c].phase = p] /\ toolCall[c].phase # "idle"
               /\ \/ p \in {"denied", "failed"}
                  \/ p \in Running /\ toolCall[c].phase \in Running
                  \/ p = "prompt" /\ toolCall[c].phase \in {"read_file", "read_box"}
  BY DEF SummaryFails, Decline, RunPlain, PathPushes, PathFails, Phase, Running
<1> QED BY <1>1, <1>2, PhaseStep

-----------------------------------------------------------------------------
(* Steps that change the container.                                        *)

\* A call changes the container into b and is e then, but for what it notes.
LEMMA NotedStep ==
  ASSUME PolicyInv, NEW c \in ToolCalls, NEW e, IsToolCall(e), NEW b, IsBox(box'), box'.mounts = b.mounts,
         toolCall' = Noted([toolCall EXCEPT ![c] = e], b, c),
         \A y : Same(e, y) /\ y.phase = e.phase /\ (WhollyReadOnly(b.mounts) => y.verified) => ToolPlaced(y)
  PROVE  PolicyInv'
<1>1. PICK calls : calls = [toolCall EXCEPT ![c] = e] OBVIOUS
<1>2. AreCalls(calls) /\ calls[c] = e /\ \A d \in ToolCalls \ {c} : calls[d] = toolCall[d]
  BY <1>1 DEF PolicyInv, AreCalls
<1>3. AreCalls(toolCall') BY <1>1, <1>2, NotedIsCalls
<1>4. ASSUME NEW d \in ToolCalls
      PROVE  /\ Same(calls[d], toolCall'[d]) /\ toolCall'[d].phase = calls[d].phase
             /\ WhollyReadOnly(b.mounts) => toolCall'[d].verified
  <2>1. PICK y : y = Noted(calls, b, c)[d] OBVIOUS
  <2>2. Same(calls[d], y) /\ y.phase = calls[d].phase /\ (WhollyReadOnly(b.mounts) => y.verified)
    BY <1>2, <2>1, NotedCalls DEF Same
  <2>3. y = toolCall'[d] BY <1>1, <2>1
  <2> QED BY <2>2, <2>3
<1>5. ASSUME NEW d \in ToolCalls
      PROVE  ToolPlaced(toolCall'[d]) /\ Noticed(toolCall'[d], b)
  <2>1. Noticed(toolCall'[d], b) BY <1>4 DEF Noticed
  <2>2. CASE d = c BY <1>2, <1>4, <2>1, <2>2
  <2>3. CASE d # c
    <3>1. ToolPlaced(toolCall[d]) /\ calls[d] = toolCall[d] BY <1>2, <2>3 DEF PolicyInv
    <3>2. Permitted(toolCall[d]) => Permitted(toolCall'[d]) BY <1>4, <3>1, StaysPermitted
    <3> QED BY <1>4, <2>1, <3>1, <3>2, ZenonT(40) DEF ToolPlaced, Same
  <2> QED BY <2>2, <2>3
<1>6. \A d \in ToolCalls : ToolPlaced(toolCall'[d]) /\ Noticed(toolCall'[d], box') BY <1>5 DEF Noticed
<1> QED BY <1>3, <1>6 DEF PolicyInv, IsBox, AreCalls, IsToolCall, ToolPlaced, Noticed, Permitted, AsksFirst, WhollyReadOnly

LEMMA RemountStep ==
  ASSUME PolicyInv, NEW c \in ToolCalls, Remount(c)
  PROVE  PolicyInv'
<1>1. IsToolCall(toolCall[c]) /\ AreCalls(toolCall) /\ ToolPlaced(toolCall[c]) /\ IsBox(box) BY DEF PolicyInv, AreCalls
<1>2. PICK mounts : mounts = ReadOnlyMounts(toolCall[c].seen) OBVIOUS
<1>3. PICK b : b = Recreated([box EXCEPT !.mounts = mounts]) OBVIOUS
<1>4. IsBox(b) /\ b.mounts = mounts BY <1>1, <1>3, BoxRemade
<1>5. PICK e : e = [toolCall[c] EXCEPT !.phase = "run"] OBVIOUS
<1>6. IsToolCall(e) /\ e.phase = "run" /\ e.tool = toolCall[c].tool /\ e.facts = toolCall[c].facts
  BY <1>1, <1>5 DEF IsToolCall
<1>7. box' = b /\ toolCall' = Noted([toolCall EXCEPT ![c] = e], b, c) /\ toolCall[c].phase = "remount"
  BY <1>2, <1>3, <1>5 DEF Remount
<1>8. WhollyReadOnly(b.mounts) BY <1>2, <1>4, GateTest
<1>9. e.facts.mode = "read-only" /\ e.tool \in GatedClass BY <1>1, <1>6, <1>7 DEF ToolPlaced
<1>10. \A y : Same(e, y) /\ y.phase = e.phase /\ (WhollyReadOnly(b.mounts) => y.verified) => ToolPlaced(y)
  BY <1>6, <1>8, <1>9 DEF Same, ToolPlaced, Permitted
<1> QED BY <1>4, <1>6, <1>7, <1>10, NotedStep

\* Handlers that run on, or to their end, and change the container.
LEMMA HandlerStep ==
  ASSUME PolicyInv, NEW c \in ToolCalls, RunMounts(c) \/ LoadApplies(c) \/ PathPersists(c)
  PROVE  PolicyInv'
<1>1. IsToolCall(toolCall[c]) /\ AreCalls(toolCall) /\ ToolPlaced(toolCall[c]) /\ IsBox(box) BY DEF PolicyInv, AreCalls
<1>2. PICK e : \E b : /\ IsToolCall(e) /\ Same(toolCall[c], e) /\ e.phase \in Running /\ toolCall[c].phase \in Running
                      /\ IsBox(box') /\ box'.mounts = b.mounts
                      /\ toolCall' = Noted([toolCall EXCEPT ![c] = e], b, c)
  <2>1. CASE RunMounts(c)
    <3>1. PICK kept : kept = IF toolCall[c].tool = "mount_add" THEN box.mounts ELSE NoMounts OBVIOUS
    <3>2. PICK mounts : mounts = [m \in DOMAIN kept \cup {"volume"} |-> IF m = "volume" THEN "rw" ELSE kept[m]] OBVIOUS
    <3>3. PICK b : b = Recreated([box EXCEPT !.mounts = mounts]) OBVIOUS
    <3>4. IsBox(b) BY <1>1, <3>3, BoxRemade
    <3>5. PICK e : e = [toolCall[c] EXCEPT !.phase = "done"] OBVIOUS
    <3>6. IsToolCall(e) /\ Same(toolCall[c], e) /\ e.phase = "done" BY <1>1, <3>5 DEF IsToolCall, Same
    <3>7. box' = b /\ toolCall' = Noted([toolCall EXCEPT ![c] = e], b, c) /\ toolCall[c].phase = "run"
      BY <2>1, <3>1, <3>2, <3>3, <3>5 DEF RunMounts
    <3> QED BY <3>4, <3>6, <3>7 DEF Running
  <2>2. CASE LoadApplies(c)
    <3>1. PICK b : b = Applied(toolCall[c].staged, box) OBVIOUS
    <3>2. IsBox(b)
      <4>1. PICK mounts, env, paths : /\ mounts = StagedMounts(toolCall[c].staged)
                                      /\ env = IF toolCall[c].staged.env = {} THEN box.env ELSE toolCall[c].staged.env
                                      /\ paths = IF toolCall[c].staged.paths = <<>> THEN box.paths ELSE toolCall[c].staged.paths
        OBVIOUS
      <4>2. PICK bare : bare = [box EXCEPT !.mounts = mounts, !.env = env, !.paths = paths] OBVIOUS
      <4>3. IsBox(bare) BY <1>1, <4>2 DEF IsBox
      <4>4. b = Recreated(bare) BY <1>1, <3>1, <4>1, <4>2 DEF Applied, IsBox
      <4> QED BY <4>3, <4>4, BoxRemade
    <3>3. PICK lost : lost = [mounts |-> Cardinality(DOMAIN box.mounts \ DOMAIN b.mounts),
                              env |-> Cardinality(box.env \ b.env),
                              paths |-> Cardinality({i \in 1..Len(box.paths) :
                                                       \A j \in 1..Len(b.paths) : box.paths[i] # b.paths[j]})]
      OBVIOUS
    <3>4. PICK e : e = [toolCall[c] EXCEPT !.phase = "done", !.lost = lost] OBVIOUS
    <3>5. IsToolCall(e) /\ Same(toolCall[c], e) /\ e.phase = "done" BY <1>1, <3>4 DEF IsToolCall, Same
    <3>6. box' = b /\ toolCall[c].phase = "apply" BY <2>2, <3>1 DEF LoadApplies
    <3>7. [toolCall EXCEPT ![c] = e] = [toolCall EXCEPT ![c].phase = "done", ![c].lost = lost]
      BY <1>1, <3>4 DEF AreCalls
    <3>8. toolCall' = Noted([toolCall EXCEPT ![c].phase = "done", ![c].lost = lost], b, c)
      BY <2>2, <3>1, <3>3 DEF LoadApplies
    <3>9. toolCall' = Noted([toolCall EXCEPT ![c] = e], b, c) BY <3>7, <3>8
    <3> QED BY <3>2, <3>5, <3>6, <3>9 DEF Running
  <2>3. CASE PathPersists(c)
    <3>1. PICK e : e = [toolCall[c] EXCEPT !.phase = "push"] OBVIOUS
    <3>2. IsToolCall(e) /\ Same(toolCall[c], e) /\ e.phase = "push" BY <1>1, <3>1 DEF IsToolCall, Same
    <3>3. toolCall' = Noted([toolCall EXCEPT ![c] = e], box, c) /\ toolCall[c].phase = "persist"
      BY <2>3, <3>1 DEF PathPersists
    <3>4. IsBox(box') /\ box'.mounts = box.mounts BY <1>1, <2>3 DEF PathPersists, IsBox
    <3> QED BY <3>2, <3>3, <3>4 DEF Running
  <2> QED BY <2>1, <2>2, <2>3
<1>3. PICK b : /\ IsBox(box') /\ box'.mounts = b.mounts
               /\ toolCall' = Noted([toolCall EXCEPT ![c] = e], b, c)
  BY <1>2
<1>4. Permitted(toolCall[c]) BY <1>1, <1>2 DEF ToolPlaced
<1>5. Permitted(e) BY <1>2, <1>4, StaysPermitted
<1>6. ASSUME NEW y, Same(e, y), y.phase = e.phase PROVE ToolPlaced(y)
  <2>1. Permitted(y) BY <1>5, <1>6, StaysPermitted
  <2> QED BY <1>2, <1>6, <2>1 DEF ToolPlaced, Running
<1> QED BY <1>2, <1>3, <1>6, NotedStep

\* Another client, the user and the maintainer.
LEMMA PolicyOutsideStep ==
  ASSUME PolicyInv, SwitchSession \/ OutsideMounts \/ EditTemplate
  PROVE  PolicyInv'
<1>1. CASE SwitchSession
  <2>1. box' = box /\ toolCall' = toolCall BY <1>1 DEF SwitchSession
  <2> QED BY <2>1 DEF PolicyInv, IsBox, AreCalls, IsToolCall, ToolPlaced, Noticed, Permitted, AsksFirst, WhollyReadOnly
<1>2. CASE OutsideMounts \/ EditTemplate
  <2>1. IsBox(box) /\ AreCalls(toolCall) BY DEF PolicyInv
  <2>2. /\ IsBox(box') /\ DOMAIN toolCall' = ToolCalls /\ toolCall' = [d \in DOMAIN toolCall' |-> toolCall'[d]]
        /\ \A d \in ToolCalls :
             /\ IsToolCall(toolCall'[d]) /\ Same(toolCall[d], toolCall'[d]) /\ toolCall'[d].phase = toolCall[d].phase
             /\ \/ box'.mounts = box.mounts /\ toolCall'[d].verified = toolCall[d].verified
                \/ WhollyReadOnly(box'.mounts) => toolCall'[d].verified
    <3>1. CASE OutsideMounts
      <4>1. PICK mounts : /\ box' = Recreated([box EXCEPT !.mounts = mounts])
                          /\ toolCall' = [d \in ToolCalls |-> [toolCall[d] EXCEPT !.verified = @ \/ WhollyReadOnly(mounts),
                                                                                  !.touched = TRUE]]
        BY <3>1 DEF OutsideMounts
      <4>2. IsBox(box') /\ box'.mounts = mounts BY <2>1, <4>1, BoxRemade
      <4>3. ASSUME NEW d \in ToolCalls
            PROVE  /\ IsToolCall(toolCall'[d]) /\ Same(toolCall[d], toolCall'[d]) /\ toolCall'[d].phase = toolCall[d].phase
                   /\ WhollyReadOnly(mounts) => toolCall'[d].verified
        <5>1. IsToolCall(toolCall[d]) BY <2>1 DEF AreCalls
        <5>2. PICK verified \in BOOLEAN : verified = (toolCall[d].verified \/ WhollyReadOnly(mounts))
          BY <5>1 DEF IsToolCall, WhollyReadOnly
        <5>3. toolCall'[d] = [toolCall[d] EXCEPT !.verified = verified, !.touched = TRUE] BY <4>1, <5>2
        <5> QED BY <5>1, <5>2, <5>3 DEF IsToolCall, Same
      <4>4. DOMAIN toolCall' = ToolCalls /\ toolCall' = [d \in DOMAIN toolCall' |-> toolCall'[d]] BY <4>1
      <4> QED BY <4>2, <4>3, <4>4
    <3>2. CASE EditTemplate
      <4>1. box' = box /\ toolCall' = [d \in ToolCalls |-> [toolCall[d] EXCEPT !.touched = TRUE]] BY <3>2 DEF EditTemplate
      <4>2. ASSUME NEW d \in ToolCalls
            PROVE  /\ IsToolCall(toolCall'[d]) /\ Same(toolCall[d], toolCall'[d]) /\ toolCall'[d].phase = toolCall[d].phase
                   /\ toolCall'[d].verified = toolCall[d].verified
        <5>1. IsToolCall(toolCall[d]) /\ toolCall'[d] = [toolCall[d] EXCEPT !.touched = TRUE] BY <2>1, <4>1 DEF AreCalls
        <5> QED BY <5>1 DEF IsToolCall, Same
      <4>3. DOMAIN toolCall' = ToolCalls /\ toolCall' = [d \in DOMAIN toolCall' |-> toolCall'[d]] BY <4>1
      <4> QED BY <2>1, <4>1, <4>2, <4>3
    <3> QED BY <1>2, <3>1, <3>2
  <2>3. AreCalls(toolCall') BY <2>2 DEF AreCalls
  <2>4. ASSUME NEW d \in ToolCalls
        PROVE  ToolPlaced(toolCall'[d]) /\ Noticed(toolCall'[d], box')
    <3>1. ToolPlaced(toolCall[d]) /\ Noticed(toolCall[d], box) BY DEF PolicyInv
    <3>2. Permitted(toolCall[d]) => Permitted(toolCall'[d]) BY <2>2, StaysPermitted
    <3>3. ToolPlaced(toolCall'[d]) BY <2>2, <3>1, <3>2 DEF ToolPlaced, Same
    <3>4. Noticed(toolCall'[d], box') BY <2>2, <3>1 DEF Noticed
    <3> QED BY <3>3, <3>4
  <2> QED BY <2>2, <2>3, <2>4 DEF PolicyInv, IsBox, AreCalls, IsToolCall, ToolPlaced, Noticed, Permitted, AsksFirst, WhollyReadOnly
<1> QED BY <1>1, <1>2

-----------------------------------------------------------------------------
LEMMA PolicyStarts == PolicyInit => PolicyInv
<1> SUFFICES ASSUME PolicyInit PROVE PolicyInv OBVIOUS
<1>1. IsBox(box) BY DEF PolicyInit, FirstBox, IsBox
<1>2. PICK x : toolCall = [c \in ToolCalls |-> x] /\ x = NewCall("listing", session)
  BY DEF PolicyInit
<1>3. IsToolCall(x) /\ x.phase = "idle" BY <1>2 DEF NewCall, IsToolCall
<1>4. AreCalls(toolCall) BY <1>2, <1>3 DEF AreCalls
<1>5. ToolPlaced(x) /\ Noticed(x, box) BY <1>3 DEF ToolPlaced, Noticed, Running
<1> QED BY <1>1, <1>2, <1>4, <1>5 DEF PolicyInv

LEMMA PolicySteps == ASSUME PolicyInv, [PolicyNext]_policyVars PROVE PolicyInv'
<1>1. CASE UNCHANGED policyVars
  BY <1>1 DEF policyVars, PolicyInv, IsBox, AreCalls, IsToolCall, ToolPlaced, Noticed, Permitted, AsksFirst, WhollyReadOnly
<1>2. CASE \E c \in ToolCalls, tool \in ToolClasses : Begin(c, tool) BY <1>2, BeginStep
<1>3. CASE \E c \in ToolCalls : CallStep(c)
  <2>1. PICK c \in ToolCalls : CallStep(c) BY <1>3
  <2> QED BY <2>1, GateStep, ReadStep, EndStep, RemountStep, HandlerStep DEF CallStep
<1>4. CASE SwitchSession \/ OutsideMounts \/ EditTemplate BY <1>4, PolicyOutsideStep
<1> QED BY <1>1, <1>2, <1>3, <1>4 DEF PolicyNext

\* A tool runs only as the session its call began under permits, however the
\* policy's waits interleave with other calls, remounts, another client's
\* changes and a switch of the session (preExecutePolicy, the read-only gate).
THEOREM ToolsRunAsPermitted == PolicySpec => []RunsAsPermitted
<1>1. PolicyInv => RunsAsPermitted BY DEF PolicyInv, ToolPlaced, Permitted, RunsAsPermitted
<1> QED BY <1>1, PolicyStarts, PolicySteps, PTL DEF PolicySpec

-----------------------------------------------------------------------------
(* The summary of a load, and the two halves of a PATH update.             *)

\* What a call has read and been told, of the container b and the file t: the
\* document its summary was computed from is the file's, and the summary what an
\* apply of it would remove, as long as nobody touched either.
UserTold(x, b, t) ==
  /\ x.phase # "done" => x.lost = NoCounts
  /\ x.phase \in {"idle", "gate", "remount_prompt", "remount", "read_file", "read_box"} => x.summary = NoCounts
  /\ x.phase = "read_box" /\ ~x.touched => x.staged = t
  /\ x.phase \in {"prompt", "run", "apply"} /\ ~x.touched /\ x.summary # NoCounts =>
       x.staged = t /\ x.summary = Removals(x.staged, b)
  /\ x.phase = "done" /\ x.lost # NoCounts /\ x.summary # NoCounts /\ ~x.touched => x.lost = x.summary

\* One update at most is half done, and the record has its list.
PathsInv ==
  ~pathsRaced =>
    /\ Pushing = {} => box.agentPaths = box.paths
    /\ \A c \in Pushing : toolCall[c].list = box.paths
    /\ \A c, d \in Pushing : c = d

HistoryInv == PathsInv /\ \A c \in ToolCalls : UserTold(toolCall[c], box, template)

\* Calls of one history.
Alike(x, y) ==
  /\ y.phase = x.phase /\ y.lost = x.lost /\ y.summary = x.summary /\ y.staged = x.staged /\ y.list = x.list

LEMMA NotedHistory ==
  ASSUME NEW calls, AreCalls(calls), NEW b, NEW c, NEW d \in ToolCalls
  PROVE  LET y == Noted(calls, b, c)[d]
         IN  Alike(calls[d], y) /\ (d # c => y.touched) /\ (d = c => y.touched = calls[d].touched)
<1>1. IsToolCall(calls[d]) BY DEF AreCalls
<1>2. PICK verified \in BOOLEAN, touched \in BOOLEAN :
        /\ touched = (calls[d].touched \/ d # c)
        /\ Noted(calls, b, c)[d] = [calls[d] EXCEPT !.verified = verified, !.touched = touched]
  BY <1>1 DEF Noted, IsToolCall, WhollyReadOnly
<1>3. (d # c => touched) /\ (d = c => touched = calls[d].touched) BY <1>1, <1>2 DEF IsToolCall
<1> QED BY <1>1, <1>2, <1>3 DEF IsToolCall, Alike

\* To a call that knows of a change, nothing is promised.
LEMMA TouchedTold ==
  ASSUME NEW x, NEW y, NEW b, NEW t, NEW b2, NEW t2, UserTold(x, b, t), Alike(x, y), y.touched
  PROVE  UserTold(y, b2, t2)
BY DEF UserTold, Alike

LEMMA AlikeTold ==
  ASSUME NEW x, NEW y, NEW b, NEW t, UserTold(x, b, t), Alike(x, y), y.touched = x.touched
  PROVE  UserTold(y, b, t)
BY DEF UserTold, Alike

\* A summary is about the record, not about the agent's list.
LEMMA RecordTold ==
  ASSUME NEW x, NEW b, NEW t, UserTold(x, b, t), NEW b2, b2.mounts = b.mounts, b2.env = b.env, b2.paths = b.paths
  PROVE  UserTold(x, b2, t)
<1>1. Removals(x.staged, b2) = Removals(x.staged, b) BY DEF Removals
<1> QED BY <1>1 DEF UserTold

\* The halves of an update stay as they are.
LEMMA PathsKept ==
  ASSUME PathsInv, ~pathsRaced' => ~pathsRaced, box'.paths = box.paths,
         box'.agentPaths = box.agentPaths \/ box'.agentPaths = box'.paths,
         \A d \in ToolCalls : /\ toolCall'[d].phase = "push" <=> toolCall[d].phase = "push"
                              /\ toolCall[d].phase = "push" => toolCall'[d].list = toolCall[d].list
  PROVE  PathsInv'
<1>1. Pushing' = Pushing /\ \A d \in Pushing : toolCall'[d].list = toolCall[d].list BY DEF Pushing
<1> QED BY <1>1 DEF PathsInv

-----------------------------------------------------------------------------
(* Steps of one call that change neither the container nor the file.       *)

LEMMA AloneStep ==
  ASSUME PolicyInv, HistoryInv, NEW c \in ToolCalls, UNCHANGED <<box, template>>, ~pathsRaced' => ~pathsRaced,
         NEW e, IsToolCall(e), toolCall' = [toolCall EXCEPT ![c] = e],
         toolCall[c].phase # "push", e.phase # "push", UserTold(e, box, template)
  PROVE  HistoryInv'
<1>1. toolCall'[c] = e /\ \A d \in ToolCalls \ {c} : toolCall'[d] = toolCall[d] BY CallMoved DEF PolicyInv
<1>2. PathsInv'
  <2>1. \A d \in ToolCalls : /\ toolCall'[d].phase = "push" <=> toolCall[d].phase = "push"
                             /\ toolCall[d].phase = "push" => toolCall'[d].list = toolCall[d].list
    BY <1>1
  <2> QED BY <2>1, PathsKept DEF HistoryInv
<1>3. \A d \in ToolCalls : UserTold(toolCall'[d], box', template') BY <1>1 DEF HistoryInv
<1> QED BY <1>2, <1>3 DEF HistoryInv

LEMMA PhaseAlone ==
  ASSUME PolicyInv, HistoryInv, NEW c \in ToolCalls, UNCHANGED <<box, template>>, ~pathsRaced' => ~pathsRaced,
         NEW p, p # "push", toolCall[c].phase \notin {"push", "done"}, toolCall' = [toolCall EXCEPT ![c].phase = p],
         \/ p \in {"denied", "failed"}
         \/ p = "remount" /\ toolCall[c].phase = "remount_prompt"
         \/ p = "prompt" /\ toolCall[c].phase \in {"read_file", "read_box"}
         \/ p = "done" /\ toolCall[c].phase = "run"
  PROVE  HistoryInv'
<1> DEFINE e == [toolCall[c] EXCEPT !.phase = p]
<1>1. IsToolCall(toolCall[c]) /\ UserTold(toolCall[c], box, template) BY DEF PolicyInv, AreCalls, HistoryInv
<1>2. IsToolCall(e) /\ e.phase = p /\ e.lost = toolCall[c].lost /\ e.summary = toolCall[c].summary BY <1>1 DEF IsToolCall
<1>3. toolCall' = [toolCall EXCEPT ![c] = e] OBVIOUS
<1> HIDE DEF e
<1>4. UserTold(e, box, template) BY <1>1, <1>2 DEF UserTold
<1>5. IsToolCall(e) /\ e.phase # "push" /\ toolCall[c].phase # "push" BY <1>2
<1> QED BY <1>3, <1>4, <1>5, AloneStep

LEMMA PhaseSteps ==
  ASSUME PolicyInv, HistoryInv, NEW c \in ToolCalls,
         \/ GateUnreadable(c) \/ GateAnswered(c) \/ RemountRefused(c) \/ SummaryFails(c) \/ Decline(c) \/ RunPlain(c)
         \/ PathFails(c) /\ toolCall[c].phase = "persist"
  PROVE  HistoryInv'
<1>1. UNCHANGED <<box, template>> /\ (~pathsRaced' => ~pathsRaced)
  <2>1. CASE PathFails(c) BY <2>1, Zenon DEF PathFails
  <2>2. CASE ~PathFails(c) BY <2>2 DEF GateUnreadable, GateAnswered, RemountRefused, SummaryFails, Decline, RunPlain
  <2> QED BY <2>1, <2>2
<1>2. PICK p : /\ toolCall' = [toolCall EXCEPT ![c].phase = p] /\ toolCall[c].phase \notin {"push", "done"} /\ p # "push"
               /\ \/ p \in {"denied", "failed"}
                  \/ p = "remount" /\ toolCall[c].phase = "remount_prompt"
                  \/ p = "prompt" /\ toolCall[c].phase \in {"read_file", "read_box"}
                  \/ p = "done" /\ toolCall[c].phase = "run"
  <2>1. CASE GateAnswered(c)
    <3>1. PICK p \in {"remount", "denied"} : toolCall' = [toolCall EXCEPT ![c].phase = p]
      BY <2>1 DEF GateAnswered, Phase
    <3> QED BY <2>1, <3>1 DEF GateAnswered
  <2>2. CASE RunPlain(c)
    <3>1. PICK p \in {"done", "failed"} : toolCall' = [toolCall EXCEPT ![c].phase = p] BY <2>2 DEF RunPlain, Phase
    <3> QED BY <2>2, <3>1 DEF RunPlain
  <2>3. CASE GateUnreadable(c) \/ RemountRefused(c) \/ SummaryFails(c) \/ Decline(c)
    BY <2>3 DEF GateUnreadable, RemountRefused, SummaryFails, Decline, Phase
  <2>4. CASE PathFails(c) /\ toolCall[c].phase = "persist"
    BY <2>4 DEF PathFails, Phase
  <2> QED BY <2>1, <2>2, <2>3, <2>4
<1> QED BY <1>1, <1>2, PhaseAlone

LEMMA FirstPhases ==
  ASSUME NEW tool, NEW facts
  PROVE  FirstPhase(tool, facts) \in {"gate", "run", "denied", "read_file", "prompt"}
BY DEF FirstPhase

LEMMA BeginHistory ==
  ASSUME PolicyInv, HistoryInv, NEW c \in ToolCalls, NEW tool, Begin(c, tool)
  PROVE  HistoryInv'
<1>1. IsToolCall(toolCall[c]) /\ UserTold(toolCall[c], box, template) /\ toolCall[c].phase = "idle" /\ AreCalls(toolCall)
  BY DEF PolicyInv, AreCalls, HistoryInv, Begin
<1>2. PICK phase, facts : phase = FirstPhase(tool, session) /\ facts = session OBVIOUS
<1>3. PICK verified \in BOOLEAN : verified = WhollyReadOnly(box.mounts) BY DEF WhollyReadOnly
<1>4. PICK e : e = [toolCall[c] EXCEPT !.tool = tool, !.facts = facts, !.phase = phase, !.verified = verified] OBVIOUS
<1>5. IsToolCall(e) /\ e.phase = phase /\ e.lost = toolCall[c].lost /\ e.summary = toolCall[c].summary
  BY <1>1, <1>4 DEF IsToolCall
<1>6. toolCall' = [toolCall EXCEPT ![c] = e] BY <1>1, <1>2, <1>3, <1>4 DEF Begin, AreCalls
<1>7. phase \in {"gate", "run", "denied", "read_file", "prompt"} BY <1>2, FirstPhases
<1>8. UserTold(e, box, template) BY <1>1, <1>5, <1>7 DEF UserTold
<1>9. UNCHANGED <<box, template>> /\ (~pathsRaced' => ~pathsRaced) BY DEF Begin
<1>10. toolCall[c].phase # "push" /\ e.phase # "push" BY <1>1, <1>5, <1>7
<1> QED BY <1>5, <1>6, <1>8, <1>9, <1>10, AloneStep

LEMMA ReadHistory ==
  ASSUME PolicyInv, HistoryInv, NEW c \in ToolCalls,
         GateReads(c) \/ SummaryReadsFile(c) \/ SummaryReadsBox(c) \/ Approve(c) \/ LoadReads(c) \/ PathReads(c)
  PROVE  HistoryInv'
<1> DEFINE x == toolCall[c]
<1>1. IsToolCall(x) /\ AreCalls(toolCall) /\ UserTold(x, box, template) BY DEF PolicyInv, AreCalls, HistoryInv
<1>2. UNCHANGED <<box, template>> /\ (~pathsRaced' => ~pathsRaced)
  BY DEF GateReads, SummaryReadsFile, SummaryReadsBox, Approve, LoadReads, PathReads
<1>3. PICK e : /\ IsToolCall(e) /\ toolCall' = [toolCall EXCEPT ![c] = e]
               /\ x.phase # "push" /\ e.phase # "push" /\ UserTold(e, box, template)
  <2>1. CASE GateReads(c)
    <3>1. PICK seen, phase : /\ seen = box.mounts /\ phase = IF AllReadOnly(box.mounts) THEN "run" ELSE "remount_prompt"
      OBVIOUS
    <3>2. PICK e : e = [x EXCEPT !.seen = seen, !.phase = phase] OBVIOUS
    <3>3. /\ IsToolCall(e) /\ e.phase \in {"run", "remount_prompt"} /\ e.lost = x.lost /\ e.summary = x.summary
      BY <1>1, <3>1, <3>2 DEF IsToolCall
    <3>4. toolCall' = [toolCall EXCEPT ![c] = e] /\ x.phase = "gate" BY <1>1, <2>1, <3>1, <3>2 DEF GateReads, AreCalls
    <3> QED BY <1>1, <3>3, <3>4 DEF UserTold
  <2>2. CASE SummaryReadsFile(c)
    <3>1. PICK e : e = [x EXCEPT !.phase = "read_box", !.staged = template, !.touched = FALSE] OBVIOUS
    <3>2. /\ IsToolCall(e) /\ e.phase = "read_box" /\ e.staged = template /\ e.lost = x.lost /\ e.summary = x.summary
      BY <1>1, <3>1 DEF IsToolCall
    <3>3. toolCall' = [toolCall EXCEPT ![c] = e] /\ x.phase = "read_file" BY <1>1, <2>2, <3>1 DEF SummaryReadsFile, AreCalls
    <3> QED BY <1>1, <3>2, <3>3 DEF UserTold
  <2>3. CASE SummaryReadsBox(c)
    <3>1. PICK summary : summary = Removals(x.staged, box) OBVIOUS
    <3>2. PICK e : e = [x EXCEPT !.phase = "prompt", !.summary = summary] OBVIOUS
    <3>3. /\ IsToolCall(e) /\ e.phase = "prompt" /\ e.staged = x.staged /\ e.lost = x.lost /\ e.summary = summary
          /\ e.touched = x.touched
      BY <1>1, <3>2 DEF IsToolCall
    <3>4. toolCall' = [toolCall EXCEPT ![c] = e] /\ x.phase = "read_box" BY <1>1, <2>3, <3>1, <3>2 DEF SummaryReadsBox, AreCalls
    <3> QED BY <1>1, <3>1, <3>3, <3>4 DEF UserTold
  <2>4. CASE Approve(c)
    <3>1. PICK e : e = [x EXCEPT !.phase = "run", !.approved = TRUE] OBVIOUS
    <3>2. IsToolCall(e) /\ e.phase = "run" /\ e.staged = x.staged /\ e.lost = x.lost /\ e.summary = x.summary /\ e.touched = x.touched
      BY <1>1, <3>1 DEF IsToolCall
    <3>3. toolCall' = [toolCall EXCEPT ![c] = e] /\ x.phase = "prompt" BY <1>1, <2>4, <3>1 DEF Approve, AreCalls
    <3> QED BY <1>1, <3>2, <3>3 DEF UserTold
  <2>5. CASE LoadReads(c)
    <3>1. PICK e : e = [x EXCEPT !.phase = "apply", !.staged = template] OBVIOUS
    <3>2. IsToolCall(e) /\ e.phase = "apply" /\ e.staged = template /\ e.lost = x.lost /\ e.summary = x.summary /\ e.touched = x.touched
      BY <1>1, <3>1 DEF IsToolCall
    <3>3. toolCall' = [toolCall EXCEPT ![c] = e] /\ x.phase = "run" BY <1>1, <2>5, <3>1 DEF LoadReads, AreCalls
    <3> QED BY <1>1, <3>2, <3>3 DEF UserTold
  <2>6. CASE PathReads(c)
    <3>1. PICK list : list = NewList(x.tool) OBVIOUS
    <3>2. PICK e : e = [x EXCEPT !.phase = "persist", !.list = list] OBVIOUS
    <3>3. IsToolCall(e) /\ e.phase = "persist" /\ e.lost = x.lost BY <1>1, <3>2 DEF IsToolCall
    <3>4. toolCall' = [toolCall EXCEPT ![c] = e] /\ x.phase = "run" BY <1>1, <2>6, <3>1, <3>2 DEF PathReads, AreCalls
    <3> QED BY <1>1, <3>3, <3>4 DEF UserTold
  <2> QED BY <2>1, <2>2, <2>3, <2>4, <2>5, <2>6
<1> QED BY <1>2, <1>3, AloneStep

-----------------------------------------------------------------------------
(* The agent's list, and changes of the container.                         *)

LEMMA PushHistory ==
  ASSUME PolicyInv, HistoryInv, NEW c \in ToolCalls,
         PathPushes(c) \/ (PathFails(c) /\ toolCall[c].phase = "push")
  PROVE  HistoryInv'
<1> DEFINE x == toolCall[c]
<1>1. IsToolCall(x) /\ AreCalls(toolCall) /\ UserTold(x, box, template) /\ IsBox(box) /\ x.phase = "push"
  BY DEF PolicyInv, AreCalls, HistoryInv, PathPushes
<1>2. PICK p \in {"done", "failed"} :
        /\ toolCall' = [toolCall EXCEPT ![c].phase = p]
        /\ p = "done" => PathPushes(c)
        /\ p = "failed" => PathFails(c)
  BY DEF PathPushes, PathFails, Phase
<1>3. PICK e : e = [x EXCEPT !.phase = p] OBVIOUS
<1>4. IsToolCall(e) /\ e.phase = p /\ e.lost = x.lost BY <1>1, <1>3 DEF IsToolCall
<1>5. toolCall' = [toolCall EXCEPT ![c] = e] BY <1>2, <1>3
<1>6. toolCall'[c] = e /\ \A d \in ToolCalls \ {c} : toolCall'[d] = toolCall[d] BY <1>1, <1>4, <1>5, CallMoved
<1>7. box'.mounts = box.mounts /\ box'.env = box.env /\ box'.paths = box.paths /\ template' = template
  BY <1>1 DEF PathPushes, PathFails, IsBox
<1>8. ASSUME NEW d \in ToolCalls PROVE UserTold(toolCall'[d], box', template')
  <2>1. UserTold(e, box, template) BY <1>1, <1>4 DEF UserTold
  <2>2. UserTold(toolCall'[d], box, template) BY <2>1, <1>6 DEF HistoryInv
  <2> QED BY <2>2, <1>7, RecordTold
<1>9. PathsInv'
  <2>1. CASE p = "failed"
    <3>1. pathsRaced' BY <1>1, <1>2, <2>1 DEF PathFails
    <3> QED BY <3>1 DEF PathsInv
  <2>2. CASE p = "done"
    <3>1. box'.agentPaths = x.list /\ pathsRaced' = pathsRaced BY <1>1, <1>2, <2>2 DEF PathPushes, IsBox
    <3>2. c \in Pushing BY <1>1 DEF Pushing
    <3>3. ~pathsRaced => Pushing' = {}
      <4> SUFFICES ASSUME ~pathsRaced, NEW d \in Pushing' PROVE FALSE OBVIOUS
      <4>1. d \in ToolCalls /\ toolCall'[d].phase = "push" BY DEF Pushing
      <4>2. d # c BY <4>1, <1>4, <1>6, <2>2
      <4>3. d \in Pushing BY <4>1, <4>2, <1>6 DEF Pushing
      <4> QED BY <3>2, <4>2, <4>3 DEF HistoryInv, PathsInv
    <3>4. ~pathsRaced => x.list = box.paths BY <3>2 DEF HistoryInv, PathsInv
    <3> QED BY <3>1, <3>3, <3>4, <1>7 DEF PathsInv
  <2> QED BY <2>1, <2>2
<1> QED BY <1>8, <1>9 DEF HistoryInv

\* c changes the container and is e then, but for what it notes.
LEMMA NotedTold ==
  ASSUME PolicyInv, HistoryInv, NEW c \in ToolCalls, NEW e, IsToolCall(e), NEW b,
         toolCall' = Noted([toolCall EXCEPT ![c] = e], b, c), UserTold(e, box', template')
  PROVE  /\ \A d \in ToolCalls : UserTold(toolCall'[d], box', template')
         /\ Alike(e, toolCall'[c]) /\ \A d \in ToolCalls \ {c} : Alike(toolCall[d], toolCall'[d])
<1>1. PICK calls : calls = [toolCall EXCEPT ![c] = e] OBVIOUS
<1>2. AreCalls(calls) /\ calls[c] = e /\ \A d \in ToolCalls \ {c} : calls[d] = toolCall[d]
  BY <1>1 DEF PolicyInv, AreCalls
<1>3. ASSUME NEW d \in ToolCalls
      PROVE  Alike(calls[d], toolCall'[d]) /\ (d # c => toolCall'[d].touched) /\ (d = c => toolCall'[d].touched = calls[d].touched)
  <2>1. PICK y : y = Noted(calls, b, c)[d] OBVIOUS
  <2>2. Alike(calls[d], y) /\ (d # c => y.touched) /\ (d = c => y.touched = calls[d].touched) BY <1>2, <2>1, NotedHistory
  <2>3. y = toolCall'[d] BY <1>1, <2>1
  <2> QED BY <2>2, <2>3
<1>4. ASSUME NEW d \in ToolCalls PROVE UserTold(toolCall'[d], box', template')
  <2>1. CASE d = c BY <2>1, <1>2, <1>3, AlikeTold
  <2>2. CASE d # c
    <3>1. UserTold(toolCall[d], box, template) /\ calls[d] = toolCall[d] BY <2>2, <1>2 DEF HistoryInv
    <3> QED BY <2>2, <3>1, <1>3, TouchedTold
  <2> QED BY <2>1, <2>2
<1> QED BY <1>2, <1>3, <1>4

LEMMA RemakeHistory ==
  ASSUME PolicyInv, HistoryInv, NEW c \in ToolCalls, Remount(c) \/ RunMounts(c)
  PROVE  HistoryInv'
<1> DEFINE x == toolCall[c]
<1>1. IsToolCall(x) /\ AreCalls(toolCall) /\ UserTold(x, box, template) /\ IsBox(box) BY DEF PolicyInv, AreCalls, HistoryInv
<1>2. PICK p, b :
        /\ p \in {"run", "done"}
        /\ toolCall' = Noted([toolCall EXCEPT ![c].phase = p], b, c) /\ x.phase \in {"run", "remount"} /\ (p = "run" => x.phase = "remount")
        /\ box'.paths = box.paths /\ box'.agentPaths = box'.paths
  <2>1. ASSUME NEW mounts PROVE LET b == Recreated([box EXCEPT !.mounts = mounts]) IN b.paths = box.paths /\ b.agentPaths = b.paths
    BY <1>1 DEF Recreated, IsBox
  <2>2. CASE Remount(c)
    <3>1. PICK b : b = Recreated([box EXCEPT !.mounts = ReadOnlyMounts(toolCall[c].seen)]) OBVIOUS
    <3> QED BY <2>1, <2>2, <3>1, SMTT(30) DEF Remount
  <2>3. CASE RunMounts(c)
    <3>1. PICK kept : kept = IF toolCall[c].tool = "mount_add" THEN box.mounts ELSE NoMounts OBVIOUS
    <3>2. PICK mounts : mounts = [m \in DOMAIN kept \cup {"volume"} |-> IF m = "volume" THEN "rw" ELSE kept[m]] OBVIOUS
    <3>3. PICK b : b = Recreated([box EXCEPT !.mounts = mounts]) OBVIOUS
    <3>4. box' = b /\ toolCall' = Noted([toolCall EXCEPT ![c].phase = "done"], b, c) /\ x.phase = "run"
      BY <2>3, <3>1, <3>2, <3>3 DEF RunMounts
    <3>5. b.paths = box.paths /\ b.agentPaths = b.paths BY <2>1, <3>3
    <3> QED BY <3>4, <3>5
  <2> QED BY <2>2, <2>3
<1>3. PICK e : e = [x EXCEPT !.phase = p] OBVIOUS
<1>4. /\ IsToolCall(e) /\ e.phase = p /\ e.lost = x.lost /\ e.summary = x.summary /\ e.list = x.list
  BY <1>1, <1>3 DEF IsToolCall
<1>5. toolCall' = Noted([toolCall EXCEPT ![c] = e], b, c) BY <1>2, <1>3
<1>6. UserTold(e, box', template') BY <1>1, <1>2, <1>4 DEF UserTold
<1>7. /\ \A d \in ToolCalls : UserTold(toolCall'[d], box', template')
      /\ Alike(e, toolCall'[c]) /\ \A d \in ToolCalls \ {c} : Alike(toolCall[d], toolCall'[d])
  BY <1>4, <1>5, <1>6, NotedTold
<1>8. PathsInv'
  <2>1. \A d \in ToolCalls : /\ toolCall'[d].phase = "push" <=> toolCall[d].phase = "push"
                             /\ toolCall[d].phase = "push" => toolCall'[d].list = toolCall[d].list
    BY <1>2, <1>4, <1>7 DEF Alike
  <2>2. pathsRaced' = pathsRaced BY DEF Remount, RunMounts
  <2> QED BY <2>1, <2>2, <1>2, PathsKept DEF HistoryInv
<1> QED BY <1>7, <1>8 DEF HistoryInv

LEMMA PersistHistory ==
  ASSUME PolicyInv, HistoryInv, NEW c \in ToolCalls, PathPersists(c)
  PROVE  HistoryInv'
<1> DEFINE x == toolCall[c]
<1>1. IsToolCall(x) /\ UserTold(x, box, template) /\ IsBox(box) /\ x.phase = "persist"
  BY DEF PolicyInv, AreCalls, HistoryInv, PathPersists
<1>2. PICK e : e = [x EXCEPT !.phase = "push"] OBVIOUS
<1>3. IsToolCall(e) /\ e.phase = "push" /\ e.lost = x.lost /\ e.list = x.list BY <1>1, <1>2 DEF IsToolCall
<1>4. toolCall' = Noted([toolCall EXCEPT ![c] = e], box, c) BY <1>2 DEF PathPersists
<1>5. UserTold(e, box', template') BY <1>1, <1>3 DEF UserTold
<1>6. /\ \A d \in ToolCalls : UserTold(toolCall'[d], box', template')
      /\ Alike(e, toolCall'[c]) /\ \A d \in ToolCalls \ {c} : Alike(toolCall[d], toolCall'[d])
  BY <1>3, <1>4, <1>5, NotedTold
<1>7. box'.paths = x.list /\ (~pathsRaced' => Pushing = {}) BY <1>1 DEF PathPersists, IsBox
<1>8. Pushing = {} => Pushing' = {c}
  <2>1. ASSUME NEW d \in ToolCalls, d # c PROVE toolCall'[d].phase = toolCall[d].phase BY <2>1, <1>6 DEF Alike
  <2>2. toolCall'[c].phase = "push" BY <1>3, <1>6 DEF Alike
  <2> QED BY <2>1, <2>2 DEF Pushing
<1>9. toolCall'[c].list = x.list BY <1>3, <1>6 DEF Alike
<1>10. PathsInv' BY <1>7, <1>8, <1>9 DEF PathsInv
<1> QED BY <1>6, <1>10 DEF HistoryInv

\* What an apply that makes r of b records as removed.
Gone(b, r) ==
  [mounts |-> Cardinality(DOMAIN b.mounts \ DOMAIN r.mounts),
   env |-> Cardinality(b.env \ r.env),
   paths |-> Cardinality({i \in 1..Len(b.paths) : \A j \in 1..Len(r.paths) : b.paths[i] # r.paths[j]})]

\* The apply removes what the summary of the same document and container counts.
LEMMA AppliedRemoves ==
  ASSUME NEW t, NEW b, IsBox(b), NEW r, r = Applied(t, b)
  PROVE  /\ Removals(t, b) = Gone(b, r)
         /\ r.agentPaths = r.paths
         /\ t.paths = <<>> => r.paths = b.paths
<1> DEFINE env == IF t.env = {} THEN b.env ELSE t.env
           paths == IF t.paths = <<>> THEN b.paths ELSE t.paths
<1>1. r.mounts = StagedMounts(t) /\ r.env = env /\ r.paths = paths /\ r.agentPaths = paths
  <2>1. PICK mounts, e, p : mounts = StagedMounts(t) /\ e = env /\ p = paths OBVIOUS
  <2>2. r = Recreated([b EXCEPT !.mounts = mounts, !.env = e, !.paths = p]) BY <2>1 DEF Applied
  <2> HIDE DEF env, paths
  <2> QED BY <2>1, <2>2 DEF Recreated, IsBox
<1>2. Cardinality({}) = 0 BY FS_EmptySet
<1>3. Cardinality(b.env \ env) = IF t.env = {} THEN 0 ELSE Cardinality(b.env \ t.env)
  <2>1. CASE t.env = {}
    <3>1. b.env \ env = {} BY <2>1
    <3> QED BY <2>1, <3>1, <1>2
  <2>2. CASE t.env # {} BY <2>2
  <2> QED BY <2>1, <2>2
<1>4. Cardinality({i \in 1..Len(b.paths) : \A j \in 1..Len(paths) : b.paths[i] # paths[j]})
      = IF t.paths = <<>> THEN 0
        ELSE Cardinality({i \in 1..Len(b.paths) : \A j \in 1..Len(t.paths) : b.paths[i] # t.paths[j]})
  <2>1. CASE t.paths = <<>>
    <3>1. {i \in 1..Len(b.paths) : \A j \in 1..Len(paths) : b.paths[i] # paths[j]} = {} BY <2>1
    <3> QED BY <2>1, <3>1, <1>2
  <2>2. CASE t.paths # <<>> BY <2>2
  <2> QED BY <2>1, <2>2
<1>5. t.paths = <<>> => paths = b.paths OBVIOUS
<1> HIDE DEF env, paths
<1> QED BY <1>1, <1>3, <1>4, <1>5 DEF Removals, Gone

LEMMA ApplyHistory ==
  ASSUME PolicyInv, HistoryInv, NEW c \in ToolCalls, LoadApplies(c)
  PROVE  HistoryInv'
<1> DEFINE x == toolCall[c]
<1>1. IsToolCall(x) /\ AreCalls(toolCall) /\ UserTold(x, box, template) /\ IsBox(box) /\ x.phase = "apply"
  BY DEF PolicyInv, AreCalls, HistoryInv, LoadApplies
<1>2. PICK b : b = Applied(x.staged, box) OBVIOUS
<1>3. PICK lost : lost = Gone(box, b) OBVIOUS
<1>4. /\ lost = Removals(x.staged, box) /\ b.agentPaths = b.paths /\ (x.staged.paths = <<>> => b.paths = box.paths)
  <2>1. PICK t : t = x.staged OBVIOUS
  <2>2. b = Applied(t, box) BY <2>1, <1>2
  <2>3. /\ Removals(t, box) = lost /\ b.agentPaths = b.paths /\ (t.paths = <<>> => b.paths = box.paths)
    BY <1>1, <1>3, <2>2, AppliedRemoves
  <2> QED BY <2>1, <2>3
<1>5. PICK e : e = [x EXCEPT !.phase = "done", !.lost = lost] OBVIOUS
<1>6. /\ IsToolCall(e) /\ e.phase = "done" /\ e.lost = lost /\ e.summary = x.summary /\ e.list = x.list
      /\ e.touched = x.touched
  BY <1>1, <1>5 DEF IsToolCall
<1>7. [toolCall EXCEPT ![c] = e] = [toolCall EXCEPT ![c].phase = "done", ![c].lost = lost]
  BY <1>1, <1>5 DEF AreCalls
<1>8. toolCall' = Noted([toolCall EXCEPT ![c].phase = "done", ![c].lost = lost], b, c) /\ box' = b
  BY <1>2, <1>3 DEF LoadApplies, Gone
<1>9. toolCall' = Noted([toolCall EXCEPT ![c] = e], b, c) BY <1>7, <1>8
<1>10. UserTold(e, box', template') BY <1>1, <1>4, <1>6 DEF UserTold
<1>11. /\ \A d \in ToolCalls : UserTold(toolCall'[d], box', template')
       /\ Alike(e, toolCall'[c]) /\ \A d \in ToolCalls \ {c} : Alike(toolCall[d], toolCall'[d])
  BY <1>6, <1>9, <1>10, NotedTold
<1>12. \A d \in ToolCalls : /\ toolCall'[d].phase = "push" <=> toolCall[d].phase = "push"
                            /\ toolCall[d].phase = "push" => toolCall'[d].list = toolCall[d].list
  BY <1>1, <1>6, <1>11 DEF Alike
<1>13. (pathsRaced => pathsRaced') /\ (Pushing # {} /\ x.staged.paths # <<>> => pathsRaced')
  <2>1. pathsRaced' = (pathsRaced \/ (Pushing # {} /\ x.staged.paths # <<>>)) BY DEF LoadApplies
  <2> QED BY <2>1, Zenon
<1>14. PathsInv'
  <2>1. CASE x.staged.paths = <<>> BY <2>1, <1>4, <1>8, <1>12, <1>13, PathsKept DEF HistoryInv
  <2>2. CASE x.staged.paths # <<>>
    <3>1. Pushing' = Pushing BY <1>12 DEF Pushing
    <3> QED BY <2>2, <3>1, <1>4, <1>8, <1>13 DEF PathsInv
  <2> QED BY <2>1, <2>2
<1> QED BY <1>11, <1>14 DEF HistoryInv

\* Another client, the user and the maintainer touch every call.
LEMMA OutsideHistory ==
  ASSUME PolicyInv, HistoryInv, SwitchSession \/ OutsideMounts \/ EditTemplate
  PROVE  HistoryInv'
<1>1. CASE SwitchSession
  BY <1>1 DEF SwitchSession, HistoryInv, PathsInv, Pushing, UserTold
<1>2. CASE OutsideMounts \/ EditTemplate
  <2>1. IsBox(box) /\ AreCalls(toolCall) BY DEF PolicyInv
  <2>2. /\ pathsRaced' = pathsRaced /\ box'.paths = box.paths /\ (box'.agentPaths = box.agentPaths \/ box'.agentPaths = box'.paths)
        /\ \A d \in ToolCalls : Alike(toolCall[d], toolCall'[d]) /\ toolCall'[d].touched
    <3>1. CASE OutsideMounts
      <4>1. PICK mounts : /\ box' = Recreated([box EXCEPT !.mounts = mounts]) /\ pathsRaced' = pathsRaced
                          /\ toolCall' = [d \in ToolCalls |-> [toolCall[d] EXCEPT !.verified = @ \/ WhollyReadOnly(mounts),
                                                                                  !.touched = TRUE]]
        BY <3>1 DEF OutsideMounts
      <4>2. box'.paths = box.paths /\ box'.agentPaths = box'.paths BY <2>1, <4>1 DEF Recreated, IsBox
      <4>3. ASSUME NEW d \in ToolCalls PROVE Alike(toolCall[d], toolCall'[d]) /\ toolCall'[d].touched
        <5>1. IsToolCall(toolCall[d]) BY <2>1 DEF AreCalls
        <5>2. PICK verified \in BOOLEAN : verified = (toolCall[d].verified \/ WhollyReadOnly(mounts))
          BY <5>1 DEF IsToolCall, WhollyReadOnly
        <5>3. toolCall'[d] = [toolCall[d] EXCEPT !.verified = verified, !.touched = TRUE] BY <4>1, <5>2
        <5> QED BY <5>1, <5>3 DEF IsToolCall, Alike
      <4> QED BY <4>1, <4>2, <4>3
    <3>2. CASE EditTemplate
      <4>1. box' = box /\ pathsRaced' = pathsRaced /\ toolCall' = [d \in ToolCalls |-> [toolCall[d] EXCEPT !.touched = TRUE]]
        BY <3>2 DEF EditTemplate
      <4>2. ASSUME NEW d \in ToolCalls PROVE Alike(toolCall[d], toolCall'[d]) /\ toolCall'[d].touched
        <5>1. IsToolCall(toolCall[d]) /\ toolCall'[d] = [toolCall[d] EXCEPT !.touched = TRUE] BY <2>1, <4>1 DEF AreCalls
        <5> QED BY <5>1 DEF IsToolCall, Alike
      <4> QED BY <4>1, <4>2
    <3> QED BY <1>2, <3>1, <3>2
  <2>3. \A d \in ToolCalls : UserTold(toolCall'[d], box', template') BY <2>2, TouchedTold DEF HistoryInv
  <2>4. PathsInv'
    <3>1. \A d \in ToolCalls : /\ toolCall'[d].phase = "push" <=> toolCall[d].phase = "push"
                               /\ toolCall[d].phase = "push" => toolCall'[d].list = toolCall[d].list
      BY <2>2 DEF Alike
    <3> QED BY <2>2, <3>1, PathsKept DEF HistoryInv
  <2> QED BY <2>3, <2>4 DEF HistoryInv
<1> QED BY <1>1, <1>2

LEMMA HistoryStarts == PolicyInit => HistoryInv
<1> SUFFICES ASSUME PolicyInit PROVE HistoryInv OBVIOUS
<1>1. PICK x : toolCall = [c \in ToolCalls |-> x] /\ x = NewCall("listing", session) BY DEF PolicyInit
<1>2. x.phase = "idle" /\ x.lost = NoCounts /\ x.summary = NoCounts BY <1>1 DEF NewCall
<1>3. \A c \in ToolCalls : UserTold(toolCall[c], box, template) BY <1>1, <1>2 DEF UserTold
<1>4. Pushing = {} BY <1>1, <1>2 DEF Pushing
<1>5. box.agentPaths = box.paths BY DEF PolicyInit, FirstBox
<1> QED BY <1>3, <1>4, <1>5 DEF HistoryInv, PathsInv

LEMMA HistorySteps == ASSUME PolicyInv, HistoryInv, [PolicyNext]_policyVars PROVE HistoryInv'
<1>1. CASE UNCHANGED policyVars
  BY <1>1 DEF policyVars, HistoryInv, PathsInv, Pushing, UserTold
<1>2. CASE \E c \in ToolCalls, tool \in ToolClasses : Begin(c, tool) BY <1>2, BeginHistory
<1>3. ASSUME NEW c \in ToolCalls, CallStep(c) PROVE HistoryInv'
  <2>1. PathFails(c) => toolCall[c].phase \in {"persist", "push"} BY DEF PathFails
  <2> QED BY <1>3, <2>1, PhaseSteps, ReadHistory, PushHistory, RemakeHistory, PersistHistory, ApplyHistory DEF CallStep
<1>4. CASE SwitchSession \/ OutsideMounts \/ EditTemplate BY <1>4, OutsideHistory
<1> QED BY <1>1, <1>2, <1>3, <1>4 DEF PolicyNext

LEMMA HistoryHolds == PolicySpec => []HistoryInv
BY PolicyStarts, PolicySteps, HistoryStarts, HistorySteps, PTL DEF PolicySpec

\* The removals that the approval prompt of container_template_load lists are the ones
\* its apply makes, though both read the file and the container at their own time,
\* unless another changed one of them in between (readTemplateLoadSummary against
\* applyContainerTemplate).
THEOREM PromptTellsRemovals == PolicySpec => []SummaryTruthful
<1>1. HistoryInv => SummaryTruthful BY DEF HistoryInv, UserTold, SummaryTruthful
<1> QED BY <1>1, HistoryHolds, PTL

\* A PATH update that is done leaves the agent with the list its record restores,
\* through the recreates of other calls, unless two updates overlapped or one
\* failed half way (applyContainerPaths).
THEOREM AgentHasRecordedPaths == PolicySpec => []PathsAgree
<1>1. HistoryInv => PathsAgree BY DEF HistoryInv, PathsInv, PathsAgree
<1> QED BY <1>1, HistoryHolds, PTL


-----------------------------------------------------------------------------
(* TemplateLoad.                                                           *)

TemplatePhases ==
  {"idle", "list", "ensure", "record", "exists", "create", "start", "publish", "save", "write", "done", "failed"}
Lists == [CustomImages -> ImageRecord]
TemplateCallRecord ==
  [op : {"load", "build", "rebuild", "save"}, target : Targets, phase : TemplatePhases, doc : DocumentType,
   left : SUBSET TemplatePorts, row : ContainerRow \cup {NoContainer}, seen : Lists \cup {NoImage},
   todo : SUBSET {"drop", "provision", "build"}, warned : SUBSET TemplatePorts, sound : BOOLEAN,
   touched : BOOLEAN, before : ContainerRow \cup {NoContainer}]

\* A container made from a base image has what the base has.
BaseTrue(row) == row.image \in Bases => row.holds = Builtins[row.image]

TemplateShaped ==
  /\ images \in Lists /\ provisioned \subseteq Bases
  /\ container \in [Targets -> ContainerRow \cup {NoContainer}]
  /\ \A t \in Targets : BaseTrue(container[t])
  /\ templateFile \in DocumentType
  /\ templateTrouble \in 0..MaxTemplateTrouble
  /\ templateCall \in [TemplateCalls -> TemplateCallRecord]

\* The image of a document is the one under the template's tag.
ImageIs(d, list) == IsBaseOnly(d) \/ list[Own].holds = Builtins[d.base] \cup d.packages

\* What a load has made of the container.
Wrote(x, row) ==
  LET d == x.doc
      old(g) == IF x.before = NoContainer THEN {} ELSE x.before.group[g]
      oldPorts == IF x.before = NoContainer THEN {} ELSE x.before.ports IN
  /\ row # NoContainer
  /\ x.sound => row.holds = Builtins[d.base] \cup d.packages
  /\ DOMAIN row.mounts = DOMAIN d.mounts \cup {"own"}
  /\ \A m \in DOMAIN d.mounts : row.mounts[m] = d.mounts[m]
  /\ \A g \in DocumentGroups : row.group[g] = IF d.group[g] = {} THEN old(g) ELSE d.group[g]
  /\ row.ports \cup x.warned \cup x.left = oldPorts \cup d.ports \cup x.warned

\* A load at each of its places, as long as nothing touched it.
LoadOnTheWay(x, list, boxes) ==
  /\ x.phase \in {"ensure", "record", "exists", "create", "start"} /\ x.sound /\ ~x.touched =>
       (x.phase # "record" /\ "build" \in x.todo) \/ ImageIs(x.doc, list)
  /\ x.phase \in {"exists", "create", "start"} => x.todo = {}
  /\ x.phase = "create" /\ ~x.touched => boxes[x.target] = NoContainer
  /\ x.phase = "publish" => boxes[x.target] # NoContainer
  /\ x.phase \in {"publish", "done"} /\ ~x.touched => Wrote(x, boxes[x.target])
  /\ x.phase = "done" => x.left = {}
  /\ x.phase \notin {"save", "write"}

\* A save goes by the row and the list it read.
SaveOnTheWay(x) ==
  /\ x.phase \in {"idle", "save", "write", "done", "failed"}
  /\ BaseTrue(x.row)
  /\ x.phase \in {"write", "done"} =>
       /\ x.sound => Builtins[x.doc.base] \cup x.doc.packages = x.row.holds
       /\ x.doc.mounts = x.row.mounts /\ x.doc.ports = x.row.ports
       /\ \A g \in DocumentGroups \ {"paths"} : x.doc.group[g] \cap GitIdentity = {}

CallOnTheWay(x, list, boxes) ==
  /\ x.op = "load" => LoadOnTheWay(x, list, boxes)
  /\ x.op = "save" => SaveOnTheWay(x)
  /\ x.op \in {"build", "rebuild"} => x.phase \in {"idle", "list", "ensure", "record", "done", "failed"}

TemplateInv ==
  /\ TemplateShaped
  /\ \A c \in TemplateCalls : CallOnTheWay(templateCall[c], images, container)

-----------------------------------------------------------------------------
LEMMA MetClosed ==
  ASSUME TemplateAssumption, NEW list \in Lists, NEW i \in Bases \cup CustomImages
  PROVE  /\ Met(list, i) \subseteq Bases \cup CustomImages
         /\ i \in Met(list, i)
         /\ \A k \in Met(list, i) \ Bases : list[k].listed => list[k].parent \in Met(list, i)
<1>1. \A k \in CustomImages : list[k].parent \in Bases \cup CustomImages
  BY DEF Lists, ImageRecord
<1> QED BY <1>1 DEF Met

LEMMA MetLeast ==
  ASSUME TemplateAssumption, NEW list \in Lists, NEW i \in Bases \cup CustomImages,
         NEW S \in SUBSET (Bases \cup CustomImages), i \in S,
         \A k \in S \ Bases : list[k].listed => list[k].parent \in S
  PROVE  Met(list, i) \subseteq S
BY DEF Met

LEMMA RootMet ==
  ASSUME NEW list, NEW i, RootOf(list, i) # NoImage
  PROVE  RootOf(list, i) \in Met(list, i) /\ RootOf(list, i) \in Bases
BY DEF RootOf

\* A container of a base image exports that base.
LEMMA BaseExports ==
  ASSUME TemplateAssumption, NEW list \in Lists, NEW i \in Bases
  PROVE  Met(list, i) = {i} /\ PackagesOf(list, i) = {}
<1>1. Met(list, i) \subseteq {i}
  <2>1. {i} \in SUBSET (Bases \cup CustomImages) /\ \A k \in {i} \ Bases : list[k].listed => list[k].parent \in {i}
    OBVIOUS
  <2> QED BY <2>1, MetLeast
<1>2. i \in Met(list, i)
  BY MetClosed
<1> QED BY <1>1, <1>2 DEF PackagesOf

LEMMA ChainHolds ==
  ASSUME TemplateAssumption, NEW list \in Lists, NEW i \in CustomImages, RootOf(list, i) # NoImage,
         \A k \in Met(list, i) \ Bases : Sound(list, k)
  PROVE  Builtins[RootOf(list, i)] \cup PackagesOf(list, i) = list[i].holds
<1> DEFINE b == RootOf(list, i)
           M == Met(list, i)
<1>0. /\ M \subseteq Bases \cup CustomImages /\ i \in M /\ b \in M /\ b \in Bases /\ i \notin Bases
      /\ \A k \in M \ Bases : list[k].listed => list[k].parent \in M
  BY MetClosed, RootMet DEF TemplateAssumption
<1>1. \A k \in M \ Bases : list[k].holds = ParentHolds(list, list[k].parent) \cup list[k].packages
  BY DEF Sound
<1>2. \A k \in M \ Bases : ParentHolds(list, k) = list[k].holds
  BY DEF ParentHolds
<1>3. ParentHolds(list, b) = Builtins[b] /\ ParentHolds(list, i) = list[i].holds
  BY <1>0, <1>2 DEF ParentHolds
<1> HIDE DEF b, M
<1>4. \A j \in M : ParentHolds(list, j) \subseteq list[i].holds
  <2> DEFINE S == {j \in M : ParentHolds(list, j) \subseteq list[i].holds}
  <2>1. S \in SUBSET (Bases \cup CustomImages) /\ i \in S
    BY <1>0, <1>3
  <2>2. \A k \in S \ Bases : list[k].listed => list[k].parent \in S
    BY <1>0, <1>1, <1>2
  <2> HIDE DEF S
  <2>3. Met(list, i) \subseteq S
    BY <2>1, <2>2, MetLeast
  <2> QED BY <2>3 DEF S, M
<1>5. PackagesOf(list, i) \subseteq list[i].holds
  <2>1. \A k \in M \ Bases : list[k].packages \subseteq list[i].holds
    BY <1>1, <1>2, <1>4
  <2> QED BY <2>1 DEF PackagesOf, M
<1>6. ASSUME NEW x \in list[i].holds, x \notin PackagesOf(list, i)
      PROVE  x \in Builtins[b]
  <2> DEFINE S == {j \in M : x \in ParentHolds(list, j)}
  <2>1. S \in SUBSET (Bases \cup CustomImages) /\ i \in S
    BY <1>0, <1>3
  <2>2. \A k \in M \ Bases : x \notin list[k].packages
    BY <1>6 DEF PackagesOf, M
  <2>3. \A k \in S \ Bases : list[k].listed => list[k].parent \in S
    BY <1>0, <1>1, <1>2, <2>2
  <2> HIDE DEF S
  <2>4. Met(list, i) \subseteq S
    BY <2>1, <2>3, MetLeast
  <2> QED BY <2>4, <1>0, <1>3 DEF S, M
<1>7. Builtins[b] \subseteq list[i].holds
  BY <1>0, <1>3, <1>4
<1> QED BY <1>5, <1>6, <1>7 DEF b

\* What is exported from a container names exactly what the container has, as
\* long as its image is as it was made.
LEMMA ExportsAll ==
  ASSUME TemplateAssumption, NEW list \in Lists, NEW row \in ContainerRow, BaseTrue(row),
         StillAsMade(row, list), RootOf(list, row.image) # NoImage
  PROVE  Builtins[Exported(row, list).base] \cup Exported(row, list).packages = row.holds
<1> DEFINE b == RootOf(list, row.image)
           p == PackagesOf(list, row.image)
<1>0. row.image \in Bases \cup CustomImages
  BY DEF ContainerRow
<1>1. Exported(row, list).base = b /\ Exported(row, list).packages = p \ Builtins[b]
  BY DEF Exported, Canonical
<1>2. Builtins[b] \cup p = row.holds
  <2>1. CASE row.image \in Bases
    <3>1. Met(list, row.image) = {row.image} /\ p = {}
      BY <2>1, BaseExports
    <3>2. b = row.image
      BY <3>1, RootMet
    <3> QED BY <2>1, <3>1, <3>2 DEF BaseTrue
  <2>2. CASE row.image \notin Bases
    BY <1>0, <2>2, ChainHolds DEF StillAsMade
  <2> QED BY <2>1, <2>2
<1> QED BY <1>1, <1>2

LEMMA ExportedType ==
  ASSUME TemplateAssumption, NEW list \in Lists, NEW row \in ContainerRow, RootOf(list, row.image) # NoImage
  PROVE  /\ Exported(row, list) \in DocumentType
         /\ Exported(row, list).mounts = row.mounts /\ Exported(row, list).ports = row.ports
         /\ \A g \in DocumentGroups \ {"paths"} : Exported(row, list).group[g] \cap GitIdentity = {}
<1> DEFINE b == RootOf(list, row.image)
           p == PackagesOf(list, row.image)
           w == WithoutGitIdentity(row.group)
<1>0. row.image \in Bases \cup CustomImages /\ row.mounts \in ModeMaps /\ row.group \in GroupMaps
      /\ row.ports \in SUBSET TemplatePorts
  BY DEF ContainerRow
<1>1. b \in Bases
  BY RootMet
<1>2. p \ Builtins[b] \in SUBSET Packages
  <2>1. \A k \in Met(list, row.image) \ Bases : list[k].packages \subseteq Packages
    BY <1>0, MetClosed DEF Lists, ImageRecord
  <2> QED BY <2>1 DEF PackagesOf
<1>3. w \in GroupMaps /\ \A g \in DocumentGroups \ {"paths"} : w[g] \cap GitIdentity = {}
  BY <1>0 DEF WithoutGitIdentity, GroupMaps
<1>4. Exported(row, list)
        = [base |-> b, packages |-> p \ Builtins[b], mounts |-> row.mounts, group |-> w, ports |-> row.ports]
  BY DEF Exported, Canonical
<1> HIDE DEF b, p, w
<1> QED BY <1>0, <1>1, <1>2, <1>3, <1>4 DEF DocumentType

LEMMA ParsedType ==
  ASSUME TemplateAssumption, NEW d \in DocumentType
  PROVE  Parsed(d) \in DocumentType
<1>1. WithoutGitIdentity(d.group) \in GroupMaps
  BY DEF DocumentType, WithoutGitIdentity, GroupMaps
<1>2. Canonical(d.base, d.packages) \in SUBSET Packages
  BY DEF DocumentType, Canonical
<1> QED BY <1>1, <1>2 DEF Parsed, DocumentType

-----------------------------------------------------------------------------
\* Another's step leaves a call where it is: it only notes that it was touched.
NotesOf(x, b) == [x EXCEPT !.touched = @ \/ b]
NotedBy(calls, c, B) == [d \in TemplateCalls |-> NotesOf(calls[d], d # c /\ B[d])]
SameBut(x, y) ==
  /\ y.op = x.op /\ y.target = x.target /\ y.phase = x.phase /\ y.doc = x.doc /\ y.left = x.left
  /\ y.row = x.row /\ y.seen = x.seen /\ y.todo = x.todo /\ y.warned = x.warned /\ y.sound = x.sound
  /\ y.before = x.before

LEMMA NotedIs ==
  ASSUME NEW x \in TemplateCallRecord, NEW b \in BOOLEAN
  PROVE  /\ NotesOf(x, b) \in TemplateCallRecord /\ SameBut(x, NotesOf(x, b)) /\ NotesOf(x, b).touched = (x.touched \/ b)
         /\ ~b => NotesOf(x, b) = x
<1>1. NotesOf(x, b) \in TemplateCallRecord /\ SameBut(x, NotesOf(x, b)) /\ NotesOf(x, b).touched = (x.touched \/ b)
  BY DEF NotesOf, TemplateCallRecord, SameBut
<1>2. ASSUME ~b PROVE NotesOf(x, b) = x
  <2>1. (x.touched \/ b) = x.touched
    BY <1>2 DEF TemplateCallRecord
  <2> QED BY <2>1 DEF NotesOf, TemplateCallRecord
<1> QED BY <1>1, <1>2

InImage == {"ensure", "record", "exists", "create", "start"}
InContainer == {"create", "publish", "done"}

LEMMA NotedOnTheWay ==
  ASSUME NEW x, NEW y, SameBut(x, y), NEW b \in BOOLEAN, y.touched = (x.touched \/ b), x.touched \in BOOLEAN,
         NEW l, NEW m, NEW boxes, NEW ship, CallOnTheWay(x, l, boxes),
         b \/ x.phase \notin InImage \/ m[Own].holds = l[Own].holds,
         b \/ x.phase \notin InContainer \/ ship[x.target] = boxes[x.target],
         boxes[x.target] # NoContainer => ship[x.target] # NoContainer
  PROVE  CallOnTheWay(y, m, ship)
<1>1. ASSUME x.op = "load" PROVE LoadOnTheWay(y, m, ship)
  <2>1. LoadOnTheWay(x, l, boxes)
    BY <1>1 DEF CallOnTheWay
  <2>2. ~y.touched => ~x.touched /\ ~b
    OBVIOUS
  <2>3. y.phase \in InImage /\ y.sound /\ ~y.touched => (y.phase # "record" /\ "build" \in y.todo) \/ ImageIs(y.doc, m)
    BY <2>1, <2>2 DEF LoadOnTheWay, SameBut, InImage, ImageIs
  <2>4. Wrote(y, ship[y.target]) <=> Wrote(x, ship[x.target])
    BY DEF Wrote, SameBut
  <2>5. /\ y.phase \in {"exists", "create", "start"} => y.todo = {}
        /\ y.phase = "create" /\ ~y.touched => ship[y.target] = NoContainer
        /\ y.phase = "publish" => ship[y.target] # NoContainer
        /\ y.phase = "done" => y.left = {}
        /\ y.phase \notin {"save", "write"}
    BY <2>1, <2>2 DEF LoadOnTheWay, SameBut, InContainer
  <2>6. y.phase \in {"publish", "done"} /\ ~y.touched => Wrote(y, ship[y.target])
    BY <2>1, <2>2, <2>4 DEF LoadOnTheWay, SameBut, InContainer
  <2> QED BY <2>3, <2>5, <2>6 DEF LoadOnTheWay, InImage
<1>2. SaveOnTheWay(x) => SaveOnTheWay(y)
  BY DEF SaveOnTheWay, SameBut
<1> QED BY <1>1, <1>2 DEF CallOnTheWay, SameBut

\* One step of one call: its own record is where it should be, every other call
\* is noted where it must be.
Spared(d, b) ==
  /\ b \/ templateCall[d].phase \notin InImage \/ images'[Own].holds = images[Own].holds
  /\ b \/ templateCall[d].phase \notin InContainer
       \/ container'[templateCall[d].target] = container[templateCall[d].target]
  /\ container[templateCall[d].target] # NoContainer => container'[templateCall[d].target] # NoContainer

LEMMA AllOnTheWay ==
  ASSUME TemplateInv,
         images' \in Lists, provisioned' \subseteq Bases,
         container' \in [Targets -> ContainerRow \cup {NoContainer}],
         \A t \in Targets : BaseTrue(container'[t]),
         templateFile' \in DocumentType, templateTrouble' \in 0..MaxTemplateTrouble,
         DOMAIN templateCall' = TemplateCalls, templateCall' = [d \in TemplateCalls |-> templateCall'[d]],
         \A d \in TemplateCalls :
            \/ templateCall'[d] \in TemplateCallRecord /\ CallOnTheWay(templateCall'[d], images', container')
            \/ \E b \in BOOLEAN : templateCall'[d] = NotesOf(templateCall[d], b) /\ Spared(d, b)
  PROVE  TemplateInv'
<1>1. \A d \in TemplateCalls : templateCall[d] \in TemplateCallRecord /\ CallOnTheWay(templateCall[d], images, container)
  BY DEF TemplateInv, TemplateShaped
<1>2. \A d \in TemplateCalls : templateCall'[d] \in TemplateCallRecord /\ CallOnTheWay(templateCall'[d], images', container')
  <2>1. SUFFICES ASSUME NEW d \in TemplateCalls,
                        \E b \in BOOLEAN : templateCall'[d] = NotesOf(templateCall[d], b) /\ Spared(d, b)
                 PROVE  templateCall'[d] \in TemplateCallRecord /\ CallOnTheWay(templateCall'[d], images', container')
    OBVIOUS
  <2>2. PICK b \in BOOLEAN : templateCall'[d] = NotesOf(templateCall[d], b) /\ Spared(d, b)
    BY <2>1
  <2>3. templateCall[d] \in TemplateCallRecord /\ CallOnTheWay(templateCall[d], images, container)
    BY <1>1
  <2>4. templateCall[d].touched \in BOOLEAN
    BY <2>3 DEF TemplateCallRecord
  <2>5. /\ templateCall'[d] \in TemplateCallRecord /\ SameBut(templateCall[d], templateCall'[d])
        /\ templateCall'[d].touched = (templateCall[d].touched \/ b)
    BY <2>2, <2>3, NotedIs
  <2> QED BY <2>2, <2>3, <2>4, <2>5, NotedOnTheWay DEF Spared
<1>3. templateCall' \in [TemplateCalls -> TemplateCallRecord]
  BY <1>2
<1>4. TemplateShaped'
  BY <1>3 DEF TemplateShaped
<1> QED BY <1>2, <1>4 DEF TemplateInv

LEMMA StepOnTheWay ==
  ASSUME TemplateInv, NEW c \in TemplateCalls, templateCall'[c] \in TemplateCallRecord,
         CallOnTheWay(templateCall'[c], images', container'),
         images' \in Lists, provisioned' \subseteq Bases,
         container' \in [Targets -> ContainerRow \cup {NoContainer}],
         \A t \in Targets : BaseTrue(container'[t]),
         templateFile' \in DocumentType, templateTrouble' \in 0..MaxTemplateTrouble,
         DOMAIN templateCall' = TemplateCalls, templateCall' = [d \in TemplateCalls |-> templateCall'[d]],
         \A d \in TemplateCalls \ {c} :
            \E b \in BOOLEAN : templateCall'[d] = NotesOf(templateCall[d], b) /\ Spared(d, b)
  PROVE  TemplateInv'
BY AllOnTheWay

LEMMA AloneFrame ==
  ASSUME TemplateShaped, NEW c \in TemplateCalls, NEW y \in TemplateCallRecord,
         templateCall' = [templateCall EXCEPT ![c] = y],
         images' = images \/ images'[Own].holds = images[Own].holds, container' = container
  PROVE  /\ templateCall'[c] = y
         /\ DOMAIN templateCall' = TemplateCalls /\ templateCall' = [d \in TemplateCalls |-> templateCall'[d]]
         /\ \A d \in TemplateCalls \ {c} :
              \E b \in BOOLEAN : templateCall'[d] = NotesOf(templateCall[d], b) /\ Spared(d, b)
<1>0. templateCall \in [TemplateCalls -> TemplateCallRecord]
  BY DEF TemplateShaped
<1>1. /\ templateCall'[c] = y
      /\ DOMAIN templateCall' = TemplateCalls /\ templateCall' = [d \in TemplateCalls |-> templateCall'[d]]
      /\ \A d \in TemplateCalls \ {c} : templateCall'[d] = templateCall[d]
  BY <1>0
<1>2. ASSUME NEW d \in TemplateCalls \ {c}
      PROVE  \E b \in BOOLEAN : templateCall'[d] = NotesOf(templateCall[d], b) /\ Spared(d, b)
  <2>1. PICK b \in BOOLEAN : b = FALSE
    OBVIOUS
  <2>2. templateCall'[d] = NotesOf(templateCall[d], b)
    BY <1>0, <1>1, <2>1, NotedIs
  <2>3. Spared(d, b)
    BY DEF Spared
  <2> QED BY <2>2, <2>3
<1> QED BY <1>1, <1>2

LEMMA NotedFrame ==
  ASSUME TemplateShaped, NEW c \in TemplateCalls, NEW y \in TemplateCallRecord,
         NEW B \in [TemplateCalls -> BOOLEAN],
         templateCall' = NotedBy([templateCall EXCEPT ![c] = y], c, B),
         \A d \in TemplateCalls \ {c} : Spared(d, B[d])
  PROVE  /\ templateCall'[c] = y
         /\ DOMAIN templateCall' = TemplateCalls /\ templateCall' = [d \in TemplateCalls |-> templateCall'[d]]
         /\ \A d \in TemplateCalls \ {c} :
              \E b \in BOOLEAN : templateCall'[d] = NotesOf(templateCall[d], b) /\ Spared(d, b)
<1>0. templateCall \in [TemplateCalls -> TemplateCallRecord]
  BY DEF TemplateShaped
<1>1. DOMAIN templateCall' = TemplateCalls /\ templateCall' = [d \in TemplateCalls |-> templateCall'[d]]
  BY DEF NotedBy
<1>2. templateCall'[c] = y
  <2>1. templateCall'[c] = NotesOf([templateCall EXCEPT ![c] = y][c], c # c /\ B[c])
    BY DEF NotedBy
  <2>2. [templateCall EXCEPT ![c] = y][c] = y
    BY <1>0
  <2>3. (c # c /\ B[c]) \in BOOLEAN /\ ~(c # c /\ B[c])
    BY DEF NotedBy
  <2>4. PICK b \in BOOLEAN : b = (c # c /\ B[c]) /\ ~b
    BY <2>3
  <2>5. templateCall'[c] = NotesOf(y, b)
    BY <2>1, <2>2, <2>4, Zenon
  <2> QED BY <2>4, <2>5, NotedIs
<1>3. ASSUME NEW d \in TemplateCalls \ {c}
      PROVE  \E b \in BOOLEAN : templateCall'[d] = NotesOf(templateCall[d], b) /\ Spared(d, b)
  <2>1. templateCall'[d] = NotesOf([templateCall EXCEPT ![c] = y][d], d # c /\ B[d])
    BY DEF NotedBy
  <2>2. [templateCall EXCEPT ![c] = y][d] = templateCall[d]
    BY <1>0
  <2>3. (d # c /\ B[d]) = B[d]
    OBVIOUS
  <2>4. B[d] \in BOOLEAN
    OBVIOUS
  <2>5. templateCall'[d] = NotesOf(templateCall[d], B[d])
    BY <2>1, <2>2, <2>3, Zenon
  <2> QED BY <2>4, <2>5
<1> QED BY <1>1, <1>2, <1>3

LEMMA ImageFrame ==
  ASSUME TemplateShaped, NEW c \in TemplateCalls, NEW y \in TemplateCallRecord,
         templateCall' = NotedImage([templateCall EXCEPT ![c] = y], c), container' = container
  PROVE  /\ templateCall'[c] = y
         /\ DOMAIN templateCall' = TemplateCalls /\ templateCall' = [d \in TemplateCalls |-> templateCall'[d]]
         /\ \A d \in TemplateCalls \ {c} :
              \E b \in BOOLEAN : templateCall'[d] = NotesOf(templateCall[d], b) /\ Spared(d, b)
<1> DEFINE B == [d \in TemplateCalls |-> UsesImage(d)]
<1>1. B \in [TemplateCalls -> BOOLEAN]
  BY DEF UsesImage
<1>2. templateCall' = NotedBy([templateCall EXCEPT ![c] = y], c, B)
  BY DEF NotedImage, NotesOf, NotedBy
<1>3. \A d \in TemplateCalls \ {c} : Spared(d, B[d])
  BY DEF Spared, UsesImage, InImage
<1> HIDE DEF B
<1> QED BY <1>1, <1>2, <1>3, NotedFrame

LEMMA ContainerFrame ==
  ASSUME TemplateAssumption, TemplateShaped, NEW c \in TemplateCalls, NEW t \in Targets, NEW y \in TemplateCallRecord,
         NEW row \in ContainerRow,
         templateCall' = NotedContainer([templateCall EXCEPT ![c] = y], c, t), images' = images,
         container' = [container EXCEPT ![t] = row]
  PROVE  /\ templateCall'[c] = y
         /\ DOMAIN templateCall' = TemplateCalls /\ templateCall' = [d \in TemplateCalls |-> templateCall'[d]]
         /\ \A d \in TemplateCalls \ {c} :
              \E b \in BOOLEAN : templateCall'[d] = NotesOf(templateCall[d], b) /\ Spared(d, b)
<1> DEFINE B == [d \in TemplateCalls |-> UsesContainer(d, t)]
<1>1. B \in [TemplateCalls -> BOOLEAN]
  BY DEF UsesContainer
<1>2. templateCall' = NotedBy([templateCall EXCEPT ![c] = y], c, B)
  BY DEF NotedContainer, NotesOf, NotedBy
<1>3. \A d \in TemplateCalls \ {c} : Spared(d, B[d])
  <2>1. SUFFICES ASSUME NEW d \in TemplateCalls \ {c} PROVE Spared(d, B[d])
    OBVIOUS
  <2>2. templateCall[d].target \in Targets /\ container \in [Targets -> ContainerRow \cup {NoContainer}]
    BY DEF TemplateShaped, TemplateCallRecord
  <2>3. row # NoContainer
    BY DEF ContainerRow, NoContainer, TemplateAssumption
  <2>4. CASE templateCall[d].target = t
    <3>1. container'[templateCall[d].target] # NoContainer
      BY <2>2, <2>3, <2>4
    <3> QED BY <2>4, <3>1 DEF Spared, UsesContainer, InContainer
  <2>5. CASE templateCall[d].target # t
    BY <2>2, <2>5 DEF Spared
  <2> QED BY <2>4, <2>5
<1> HIDE DEF B
<1> QED BY <1>1, <1>2, <1>3, NotedFrame

-----------------------------------------------------------------------------
\* The steps.
LEMMA CallThere ==
  ASSUME TemplateInv, NEW c \in TemplateCalls
  PROVE  /\ templateCall \in [TemplateCalls -> TemplateCallRecord]
         /\ templateCall[c] \in TemplateCallRecord /\ CallOnTheWay(templateCall[c], images, container)
         /\ images \in Lists /\ provisioned \subseteq Bases
         /\ container \in [Targets -> ContainerRow \cup {NoContainer}]
         /\ \A t \in Targets : BaseTrue(container[t])
         /\ templateFile \in DocumentType /\ templateTrouble \in 0..MaxTemplateTrouble
BY DEF TemplateInv, TemplateShaped

LEMMA TroubleBounded ==
  ASSUME TemplateAssumption, templateTrouble \in 0..MaxTemplateTrouble, Trouble \/ Quiet
  PROVE  templateTrouble' \in 0..MaxTemplateTrouble
BY DEF TemplateAssumption, Trouble, Quiet

\* A step of a call that changes no image and no container.
LEMMA AloneTemplate ==
  ASSUME TemplateAssumption, TemplateInv, NEW c \in TemplateCalls, NEW y \in TemplateCallRecord,
         templateCall' = [templateCall EXCEPT ![c] = y], CallOnTheWay(y, images, container),
         provisioned' \subseteq Bases, templateFile' \in DocumentType, Trouble \/ Quiet,
         UNCHANGED <<images, container>>
  PROVE  TemplateInv'
<1>1. TemplateShaped
  BY DEF TemplateInv
<1>2. templateTrouble' \in 0..MaxTemplateTrouble
  BY CallThere, TroubleBounded
<1>3. images' \in Lists /\ container' \in [Targets -> ContainerRow \cup {NoContainer}]
      /\ (\A t \in Targets : BaseTrue(container'[t]))
  BY CallThere
<1>4. /\ templateCall'[c] = y
      /\ DOMAIN templateCall' = TemplateCalls /\ templateCall' = [d \in TemplateCalls |-> templateCall'[d]]
      /\ \A d \in TemplateCalls \ {c} :
           \E b \in BOOLEAN : templateCall'[d] = NotesOf(templateCall[d], b) /\ Spared(d, b)
  BY <1>1, AloneFrame
<1>5. CallOnTheWay(y, images', container')
  OBVIOUS
<1> QED BY <1>2, <1>3, <1>4, <1>5, StepOnTheWay

Opened(d, op, t, ph) == [NewTemplateCall(d) EXCEPT !.op = op, !.target = t, !.phase = ph]

LEMMA NewCallAt ==
  ASSUME NEW d \in DocumentType, NEW op \in {"load", "build", "rebuild", "save"}, NEW t \in Targets,
         NEW ph \in TemplatePhases
  PROVE  LET y == Opened(d, op, t, ph) IN
         y \in TemplateCallRecord /\ y.op = op /\ y.phase = ph /\ y.row = NoContainer
<1>1. NewTemplateCall(d) \in TemplateCallRecord /\ NewTemplateCall(d).row = NoContainer
  <2>1. "load" \in {"load", "build", "rebuild", "save"} /\ "idle" \in TemplatePhases /\ "default" \in Targets
    BY DEF TemplatePhases, Targets
  <2> QED BY <2>1 DEF NewTemplateCall, TemplateCallRecord
<1> QED BY <1>1 DEF TemplateCallRecord, Opened

LEMMA OpenTemplateInv ==
  ASSUME TemplateAssumption, TemplateInv, NEW c \in TemplateCalls, NEW op \in TemplateOps[c],
         NEW t \in Targets, OpenTemplate(c, op, t)
  PROVE  TemplateInv'
<1> DEFINE ph == IF op = "save" THEN "save" ELSE "list"
           y == Opened(Parsed(templateFile), op, t, ph)
<1>1. op \in {"load", "build", "rebuild", "save"} /\ ph \in TemplatePhases
  BY DEF TemplateAssumption, TemplatePhases
<1>2. Parsed(templateFile) \in DocumentType
  BY CallThere, ParsedType
<1>3. templateCall' = [templateCall EXCEPT ![c] = y]
  BY DEF OpenTemplate, Opened
<1>4. y \in TemplateCallRecord /\ y.op = op /\ y.phase = ph /\ y.row = NoContainer
  <2> HIDE DEF ph
  <2> QED BY <1>1, <1>2, NewCallAt
<1> HIDE DEF y
<1>5. CallOnTheWay(y, images, container)
  <2>1. BaseTrue(NoContainer)
    BY DEF BaseTrue, NoContainer, TemplateAssumption
  <2>2. op = "load" => LoadOnTheWay(y, images, container)
    BY <1>4 DEF LoadOnTheWay
  <2>3. op = "save" => SaveOnTheWay(y)
    BY <1>4, <2>1 DEF SaveOnTheWay
  <2> QED BY <1>4, <2>2, <2>3 DEF CallOnTheWay
<1> QED BY <1>3, <1>4, <1>5, CallThere, AloneTemplate DEF OpenTemplate

LEMMA PlanFinds ==
  ASSUME TemplateAssumption, NEW d \in DocumentType, NEW list \in Lists, NEW bases, NEW force,
         "build" \notin Todo(d, list, bases, force), IsBaseOnly(d) \/ ~list[Own].tagged \/ Sound(list, Own)
  PROVE  ImageIs(d, list)
<1>1. SUFFICES ASSUME ~IsBaseOnly(d) PROVE list[Own].holds = Builtins[d.base] \cup d.packages
  BY DEF ImageIs
<1>2. ~NeedsBuild(d, list, bases)
  BY <1>1 DEF Todo
<1>3. list[Own].tagged /\ list[Own].parent = d.base /\ list[Own].packages = d.packages
  BY <1>1, <1>2 DEF NeedsBuild
<1>4. d.base \in Bases
  BY DEF DocumentType
<1> QED BY <1>1, <1>3, <1>4 DEF Sound, ParentHolds

LEMMA ListImagesInv ==
  ASSUME TemplateAssumption, TemplateInv, NEW c \in TemplateCalls, ListImages(c)
  PROVE  TemplateInv'
<1> PICK x \in TemplateCallRecord : x = templateCall[c] /\ CallOnTheWay(x, images, container)
  BY CallThere
<1> DEFINE T == Todo(x.doc, images, provisioned, x.op = "rebuild")
           s == IsBaseOnly(x.doc) \/ ~images[Own].tagged \/ Sound(images, Own)
           y == [x EXCEPT !.phase = "ensure", !.todo = T, !.sound = s, !.touched = FALSE]
<1>1. T \in SUBSET {"drop", "provision", "build"}
  BY DEF Todo
<1>2. s \in BOOLEAN
  BY CallThere DEF IsBaseOnly, Sound, TemplateAssumption, Lists, ImageRecord
<1>3. "build" \notin T /\ s => ImageIs(x.doc, images)
  BY CallThere, PlanFinds DEF TemplateCallRecord
<1>4. /\ x.phase = "list"
      /\ templateCall' = [templateCall EXCEPT ![c].phase = "ensure", ![c].todo = T, ![c].sound = s, ![c].touched = FALSE]
  BY DEF ListImages
<1> HIDE DEF T, s
<1>5. templateCall' = [templateCall EXCEPT ![c] = y]
  BY <1>4, CallThere
<1>6. y \in TemplateCallRecord /\ y.op = x.op /\ y.target = x.target /\ y.phase = "ensure" /\ y.doc = x.doc /\ y.todo = T /\ y.sound = s
  BY <1>1, <1>2 DEF TemplateCallRecord, TemplatePhases
<1> HIDE DEF y
<1>7. CallOnTheWay(y, images, container)
  <2>1. x.op # "save"
    BY <1>4 DEF CallOnTheWay, SaveOnTheWay
  <2>2. LoadOnTheWay(y, images, container)
    BY <1>3, <1>6 DEF LoadOnTheWay
  <2> QED BY <2>1, <2>2, <1>6 DEF CallOnTheWay
<1> QED BY <1>5, <1>6, <1>7, CallThere, AloneTemplate DEF ListImages

\* An operation that changes the image under the template's tag, or its record.
LEMMA ImageStep ==
  ASSUME TemplateAssumption, TemplateInv, NEW c \in TemplateCalls, NEW y \in TemplateCallRecord,
         templateCall' = NotedImage([templateCall EXCEPT ![c] = y], c), CallOnTheWay(y, images', container),
         images' \in Lists, provisioned' \subseteq Bases, Trouble \/ Quiet,
         UNCHANGED <<container, templateFile>>
  PROVE  TemplateInv'
<1>1. TemplateShaped
  BY DEF TemplateInv
<1>2. templateTrouble' \in 0..MaxTemplateTrouble
  BY CallThere, TroubleBounded
<1>3. templateFile' \in DocumentType /\ container' \in [Targets -> ContainerRow \cup {NoContainer}]
      /\ (\A t \in Targets : BaseTrue(container'[t]))
  BY CallThere
<1>4. /\ templateCall'[c] = y
      /\ DOMAIN templateCall' = TemplateCalls /\ templateCall' = [d \in TemplateCalls |-> templateCall'[d]]
      /\ \A d \in TemplateCalls \ {c} :
           \E b \in BOOLEAN : templateCall'[d] = NotesOf(templateCall[d], b) /\ Spared(d, b)
  BY <1>1, ImageFrame
<1>5. CallOnTheWay(y, images', container')
  OBVIOUS
<1> QED BY <1>2, <1>3, <1>4, <1>5, StepOnTheWay

\* An operation that changes a container.
LEMMA ContainerStep ==
  ASSUME TemplateAssumption, TemplateInv, NEW c \in TemplateCalls, NEW t \in Targets, NEW y \in TemplateCallRecord,
         NEW row \in ContainerRow, BaseTrue(row),
         templateCall' = NotedContainer([templateCall EXCEPT ![c] = y], c, t),
         container' = [container EXCEPT ![t] = row], CallOnTheWay(y, images, container'),
         provisioned' \subseteq Bases, Quiet, UNCHANGED <<images, templateFile>>
  PROVE  TemplateInv'
<1>1. TemplateShaped
  BY DEF TemplateInv
<1>2. templateTrouble' \in 0..MaxTemplateTrouble
  BY CallThere, TroubleBounded
<1>3. images' \in Lists /\ templateFile' \in DocumentType
      /\ container' \in [Targets -> ContainerRow \cup {NoContainer}]
      /\ (\A s \in Targets : BaseTrue(container'[s]))
  BY CallThere
<1>4. /\ templateCall'[c] = y
      /\ DOMAIN templateCall' = TemplateCalls /\ templateCall' = [d \in TemplateCalls |-> templateCall'[d]]
      /\ \A d \in TemplateCalls \ {c} :
           \E b \in BOOLEAN : templateCall'[d] = NotesOf(templateCall[d], b) /\ Spared(d, b)
  BY <1>1, ContainerFrame
<1>5. CallOnTheWay(y, images', container')
  OBVIOUS
<1> QED BY <1>2, <1>3, <1>4, <1>5, StepOnTheWay

LEMMA ImageSet ==
  ASSUME TemplateAssumption, NEW list \in Lists, NEW i \in ImageRecord
  PROVE  [list EXCEPT ![Own] = i] \in Lists /\ [list EXCEPT ![Own] = i][Own] = i
BY DEF Lists, TemplateAssumption

LEMMA OwnRecord ==
  ASSUME TemplateAssumption, TemplateInv
  PROVE  images[Own] \in ImageRecord
BY CallThere DEF TemplateInv, TemplateShaped, Lists, TemplateAssumption

LEMMA DropInv ==
  ASSUME TemplateAssumption, TemplateInv, NEW c \in TemplateCalls, Drop(c)
  PROVE  TemplateInv'
<1> PICK x \in TemplateCallRecord : x = templateCall[c] /\ CallOnTheWay(x, images, container)
  BY CallThere
<1> DEFINE y == [x EXCEPT !.todo = @ \ {"drop"}]
<1>1. x.phase = "ensure"
  BY DEF Drop
<1>2. [templateCall EXCEPT ![c].todo = @ \ {"drop"}] = [templateCall EXCEPT ![c] = y]
  BY CallThere
<1>3. y \in TemplateCallRecord /\ y.op = x.op /\ y.target = x.target /\ y.phase = x.phase /\ y.doc = x.doc
      /\ y.todo = x.todo \ {"drop"} /\ y.sound = x.sound /\ y.touched = x.touched
  BY DEF TemplateCallRecord
<1>4. images' \in Lists /\ images'[Own].holds = images[Own].holds
  <2> DEFINE i == [images[Own] EXCEPT !.listed = FALSE, !.tagged = FALSE]
  <2>1. i \in ImageRecord /\ i.holds = images[Own].holds
    BY OwnRecord DEF ImageRecord
  <2>2. images' = images \/ images' = [images EXCEPT ![Own] = i]
    BY CallThere DEF Drop, Lists, TemplateAssumption
  <2> HIDE DEF i
  <2> QED BY <2>1, <2>2, CallThere, ImageSet
<1> HIDE DEF y
<1>5. CallOnTheWay(y, images', container)
  <2>1. x.op # "save"
    BY <1>1 DEF CallOnTheWay, SaveOnTheWay
  <2>2. LoadOnTheWay(x, images, container) => LoadOnTheWay(y, images', container)
    BY <1>1, <1>3, <1>4 DEF LoadOnTheWay, ImageIs
  <2> QED BY <2>1, <2>2, <1>1, <1>3 DEF CallOnTheWay
<1>6. Quiet /\ UNCHANGED <<container, templateFile>> /\ provisioned' \subseteq Bases /\ templateFile' \in DocumentType
  BY CallThere DEF Drop
<1>7. CASE images' = images /\ templateCall' = [templateCall EXCEPT ![c] = y]
  BY <1>7, <1>3, <1>5, <1>6, AloneTemplate
<1>8. CASE templateCall' = NotedImage([templateCall EXCEPT ![c] = y], c)
  BY <1>8, <1>3, <1>4, <1>5, <1>6, ImageStep
<1>9. \/ images' = images /\ templateCall' = [templateCall EXCEPT ![c].todo = @ \ {"drop"}]
      \/ templateCall' = NotedImage([templateCall EXCEPT ![c].todo = @ \ {"drop"}], c)
  BY DEF Drop
<1> QED BY <1>2, <1>7, <1>8, <1>9

LEMMA ProvisionInv ==
  ASSUME TemplateAssumption, TemplateInv, NEW c \in TemplateCalls, Provision(c)
  PROVE  TemplateInv'
<1> PICK x \in TemplateCallRecord : x = templateCall[c] /\ CallOnTheWay(x, images, container)
  BY CallThere
<1> DEFINE y == [x EXCEPT !.todo = {}]
<1>1. x.phase = "ensure" /\ x.todo = {"provision"}
  BY DEF Provision
<1>2. templateCall' = [templateCall EXCEPT ![c] = y]
  BY CallThere DEF Provision
<1>3. y \in TemplateCallRecord /\ y.op = x.op /\ y.target = x.target /\ y.phase = x.phase /\ y.doc = x.doc
      /\ y.todo = {} /\ y.sound = x.sound /\ y.touched = x.touched
  BY DEF TemplateCallRecord
<1>4. provisioned' \subseteq Bases
  BY CallThere DEF Provision, TemplateCallRecord, DocumentType
<1> HIDE DEF y
<1>5. CallOnTheWay(y, images, container)
  <2>1. x.op # "save"
    BY <1>1 DEF CallOnTheWay, SaveOnTheWay
  <2>2. LoadOnTheWay(x, images, container) => LoadOnTheWay(y, images, container)
    BY <1>1, <1>3 DEF LoadOnTheWay
  <2> QED BY <2>1, <2>2, <1>1, <1>3 DEF CallOnTheWay
<1> QED BY <1>2, <1>3, <1>4, <1>5, CallThere, AloneTemplate DEF Provision

LEMMA BuildTagsInv ==
  ASSUME TemplateAssumption, TemplateInv, NEW c \in TemplateCalls, BuildTags(c)
  PROVE  TemplateInv'
<1> PICK x \in TemplateCallRecord : x = templateCall[c] /\ CallOnTheWay(x, images, container)
  BY CallThere
<1> DEFINE y == [x EXCEPT !.phase = "record"]
           h == Builtins[x.doc.base] \cup x.doc.packages
<1>1. x.phase = "ensure" /\ x.doc \in DocumentType
  BY DEF BuildTags, TemplateCallRecord
<1>2. [templateCall EXCEPT ![c].phase = "record"] = [templateCall EXCEPT ![c] = y]
  BY CallThere
<1>3. templateCall' = NotedImage([templateCall EXCEPT ![c] = y], c)
  BY <1>2 DEF BuildTags
<1>4. y \in TemplateCallRecord /\ y.op = x.op /\ y.phase = "record" /\ y.doc = x.doc
  BY DEF TemplateCallRecord, TemplatePhases
<1>5. h \in SUBSET Packages
  BY <1>1 DEF TemplateAssumption, DocumentType
<1>6. images' \in Lists /\ images'[Own].holds = h
  <2> DEFINE i == [images[Own] EXCEPT !.tagged = TRUE, !.holds = h]
  <2>1. images' = [images EXCEPT ![Own] = i]
    BY CallThere DEF BuildTags, Lists, TemplateAssumption
  <2> HIDE DEF h
  <2>2. i \in ImageRecord /\ i.holds = h
    BY <1>5, OwnRecord DEF ImageRecord
  <2> HIDE DEF i
  <2> QED BY <2>1, <2>2, CallThere, ImageSet
<1>7. provisioned' \subseteq Bases
  BY <1>1, CallThere DEF BuildTags, DocumentType
<1> HIDE DEF y
<1>8. CallOnTheWay(y, images', container)
  <2>1. x.op # "save"
    BY <1>1 DEF CallOnTheWay, SaveOnTheWay
  <2>2. LoadOnTheWay(y, images', container)
    BY <1>4, <1>6 DEF LoadOnTheWay, ImageIs
  <2> QED BY <2>1, <2>2, <1>4 DEF CallOnTheWay
<1> QED BY <1>3, <1>4, <1>6, <1>7, <1>8, ImageStep DEF BuildTags

LEMMA BuildRecordsInv ==
  ASSUME TemplateAssumption, TemplateInv, NEW c \in TemplateCalls, BuildRecords(c)
  PROVE  TemplateInv'
<1> PICK x \in TemplateCallRecord : x = templateCall[c] /\ CallOnTheWay(x, images, container)
  BY CallThere
<1> DEFINE y == [x EXCEPT !.phase = "ensure", !.todo = {}]
<1>1. x.phase = "record" /\ x.doc \in DocumentType
  BY DEF BuildRecords, TemplateCallRecord
<1>2. [templateCall EXCEPT ![c].phase = "ensure", ![c].todo = {}] = [templateCall EXCEPT ![c] = y]
  BY CallThere
<1>3. templateCall' = NotedImage([templateCall EXCEPT ![c] = y], c)
  BY <1>2 DEF BuildRecords
<1>4. y \in TemplateCallRecord /\ y.op = x.op /\ y.phase = "ensure" /\ y.doc = x.doc /\ y.todo = {}
      /\ y.sound = x.sound /\ y.touched = x.touched
  BY DEF TemplateCallRecord, TemplatePhases
<1>5. images' \in Lists /\ images'[Own].holds = images[Own].holds
  <2> DEFINE i == [images[Own] EXCEPT !.listed = TRUE, !.parent = x.doc.base, !.packages = x.doc.packages]
  <2>1. images' = [images EXCEPT ![Own] = i]
    BY CallThere DEF BuildRecords, Lists, TemplateAssumption
  <2>2. i \in ImageRecord /\ i.holds = images[Own].holds
    BY <1>1, OwnRecord DEF ImageRecord, DocumentType
  <2> HIDE DEF i
  <2> QED BY <2>1, <2>2, CallThere, ImageSet
<1> HIDE DEF y
<1>6. CallOnTheWay(y, images', container)
  <2>1. x.op # "save"
    BY <1>1 DEF CallOnTheWay, SaveOnTheWay
  <2>2. LoadOnTheWay(x, images, container) => LoadOnTheWay(y, images', container)
    BY <1>1, <1>4, <1>5 DEF LoadOnTheWay, ImageIs
  <2> QED BY <2>1, <2>2, <1>4 DEF CallOnTheWay
<1> QED BY <1>3, <1>4, <1>5, <1>6, CallThere, ImageStep DEF BuildRecords

At(x, p) == [x EXCEPT !.phase = p]

LEMMA AtIs ==
  ASSUME NEW x \in TemplateCallRecord, NEW p \in TemplatePhases
  PROVE  LET y == At(x, p) IN
         /\ y \in TemplateCallRecord /\ y.phase = p /\ y.op = x.op /\ y.target = x.target /\ y.doc = x.doc /\ y.left = x.left
         /\ y.row = x.row /\ y.seen = x.seen /\ y.todo = x.todo /\ y.warned = x.warned /\ y.sound = x.sound
         /\ y.touched = x.touched /\ y.before = x.before
BY DEF At, TemplateCallRecord

\* A step that only takes a call to its next phase.
LEMMA GoToInv ==
  ASSUME TemplateAssumption, TemplateInv, NEW c \in TemplateCalls, NEW p \in TemplatePhases, GoTo(c, p),
         CallOnTheWay(At(templateCall[c], p), images, container),
         provisioned' \subseteq Bases, templateFile' \in DocumentType, Trouble \/ Quiet,
         UNCHANGED <<images, container>>
  PROVE  TemplateInv'
<1>1. templateCall' = [templateCall EXCEPT ![c] = At(templateCall[c], p)]
  BY CallThere DEF GoTo, At
<1>2. At(templateCall[c], p) \in TemplateCallRecord
  BY CallThere, AtIs
<1> QED BY <1>1, <1>2, AloneTemplate

LEMMA EnsuredInv ==
  ASSUME TemplateAssumption, TemplateInv, NEW c \in TemplateCalls, Ensured(c)
  PROVE  TemplateInv'
<1> PICK x \in TemplateCallRecord : x = templateCall[c] /\ CallOnTheWay(x, images, container)
  BY CallThere
<1>1. PICK p \in TemplatePhases : p = (IF x.op = "load" THEN "exists" ELSE "done")
  BY DEF TemplatePhases
<1>2. GoTo(c, p) /\ x.phase = "ensure" /\ x.todo = {}
  BY <1>1 DEF Ensured
<1>3. CallOnTheWay(At(x, p), images, container)
  <2>1. x.op # "save"
    BY <1>2 DEF CallOnTheWay, SaveOnTheWay
  <2>2. ASSUME x.op = "load" PROVE LoadOnTheWay(At(x, p), images, container)
    <3>1. LoadOnTheWay(x, images, container) /\ p = "exists"
      BY <2>2, <1>1 DEF CallOnTheWay
    <3> QED BY <3>1, <1>2, AtIs DEF LoadOnTheWay
  <2>3. x.op # "load" => p = "done"
    BY <1>1
  <2> QED BY <2>1, <2>2, <2>3, AtIs DEF CallOnTheWay
<1> QED BY <1>2, <1>3, CallThere, GoToInv DEF Ensured

LEMMA FailedOnTheWay ==
  ASSUME NEW x \in TemplateCallRecord
  PROVE  /\ "failed" \in TemplatePhases
         /\ BaseTrue(x.row) \/ x.op # "save" => CallOnTheWay(At(x, "failed"), images, container)
<1>1. "failed" \in TemplatePhases
  BY DEF TemplatePhases
<1>2. LoadOnTheWay(At(x, "failed"), images, container)
  BY <1>1, AtIs DEF LoadOnTheWay
<1>3. BaseTrue(x.row) => SaveOnTheWay(At(x, "failed"))
  BY <1>1, AtIs DEF SaveOnTheWay
<1> QED BY <1>1, <1>2, <1>3, AtIs DEF CallOnTheWay

LEMMA CallFailsInv ==
  ASSUME TemplateAssumption, TemplateInv, NEW c \in TemplateCalls, GoTo(c, "failed"), Trouble \/ Quiet,
         UNCHANGED <<images, provisioned, container, templateFile>>
  PROVE  TemplateInv'
<1>1. templateCall[c].op = "save" => BaseTrue(templateCall[c].row)
  BY CallThere DEF CallOnTheWay, SaveOnTheWay
<1>2. CallOnTheWay(At(templateCall[c], "failed"), images, container) /\ "failed" \in TemplatePhases
  BY <1>1, CallThere, FailedOnTheWay
<1>3. provisioned' \subseteq Bases /\ templateFile' \in DocumentType
  BY CallThere
<1> QED BY <1>2, <1>3, GoToInv

LEMMA AsksWorkspaceInv ==
  ASSUME TemplateAssumption, TemplateInv, NEW c \in TemplateCalls, AsksWorkspace(c)
  PROVE  TemplateInv'
<1> PICK x \in TemplateCallRecord : x = templateCall[c] /\ CallOnTheWay(x, images, container)
  BY CallThere
<1>1. PICK p \in TemplatePhases : p = (IF WorkspaceExists THEN "start" ELSE IF x.target = "default" THEN "create" ELSE "failed")
  BY DEF TemplatePhases
<1>2. GoTo(c, p) /\ x.phase = "exists"
  BY <1>1 DEF AsksWorkspace
<1>3. p = "create" => container[x.target] = NoContainer
  BY <1>1 DEF WorkspaceExists, TemplateCallRecord
<1>4. CallOnTheWay(At(x, p), images, container)
  <2>1. x.op = "load"
    BY <1>2 DEF CallOnTheWay, SaveOnTheWay, TemplateCallRecord
  <2>2. p \in {"start", "create", "failed"}
    BY <1>1
  <2>3. ASSUME x.op = "load" PROVE LoadOnTheWay(At(x, p), images, container)
    <3>1. LoadOnTheWay(x, images, container)
      BY <2>3 DEF CallOnTheWay
    <3> QED BY <3>1, <2>2, <1>2, <1>3, AtIs DEF LoadOnTheWay
  <2> QED BY <2>1, <2>2, <2>3, AtIs DEF CallOnTheWay
<1> QED BY <1>2, <1>4, CallThere, GoToInv DEF AsksWorkspace

LEMMA LoadedInv ==
  ASSUME TemplateAssumption, TemplateInv, NEW c \in TemplateCalls, Loaded(c)
  PROVE  TemplateInv'
<1> PICK x \in TemplateCallRecord : x = templateCall[c] /\ CallOnTheWay(x, images, container)
  BY CallThere
<1>1. GoTo(c, "done") /\ x.phase = "publish" /\ x.left = {} /\ "done" \in TemplatePhases
  BY DEF Loaded, TemplatePhases
<1>2. CallOnTheWay(At(x, "done"), images, container)
  <2>1. x.op # "save"
    BY <1>1 DEF CallOnTheWay, SaveOnTheWay
  <2>2. ASSUME x.op = "load" PROVE LoadOnTheWay(At(x, "done"), images, container)
    <3>1. LoadOnTheWay(x, images, container)
      BY <2>2 DEF CallOnTheWay
    <3>2. Wrote(At(x, "done"), container[x.target]) <=> Wrote(x, container[x.target])
      BY <1>1, AtIs DEF Wrote
    <3> QED BY <3>1, <3>2, <1>1, AtIs DEF LoadOnTheWay
  <2> QED BY <2>1, <2>2, <1>1, AtIs DEF CallOnTheWay
<1> QED BY <1>1, <1>2, CallThere, GoToInv DEF Loaded

LEMMA SaveWritesInv ==
  ASSUME TemplateAssumption, TemplateInv, NEW c \in TemplateCalls, SaveWrites(c)
  PROVE  TemplateInv'
<1> PICK x \in TemplateCallRecord : x = templateCall[c] /\ CallOnTheWay(x, images, container)
  BY CallThere
<1>1. GoTo(c, "done") /\ x.phase = "write" /\ "done" \in TemplatePhases
  BY DEF SaveWrites, TemplatePhases
<1>2. CallOnTheWay(At(x, "done"), images, container)
  <2>1. x.op = "save"
    BY <1>1 DEF CallOnTheWay, LoadOnTheWay, TemplateCallRecord
  <2>2. SaveOnTheWay(x)
    BY <2>1 DEF CallOnTheWay
  <2>3. SaveOnTheWay(At(x, "done"))
    BY <2>2, <1>1, AtIs DEF SaveOnTheWay
  <2> QED BY <2>1, <2>3, <1>1, AtIs DEF CallOnTheWay
<1>3. templateFile' \in DocumentType
  BY DEF SaveWrites, TemplateCallRecord
<1> QED BY <1>1, <1>2, <1>3, CallThere, GoToInv DEF SaveWrites

LEMMA PublishRefusedInv ==
  ASSUME TemplateAssumption, TemplateInv, NEW c \in TemplateCalls, NEW p \in TemplatePorts, PublishRefused(c, p)
  PROVE  TemplateInv'
<1> PICK x \in TemplateCallRecord : x = templateCall[c] /\ CallOnTheWay(x, images, container)
  BY CallThere
<1> DEFINE y == [x EXCEPT !.left = @ \ {p}, !.warned = @ \cup {p}]
<1>1. x.phase = "publish" /\ p \in x.left
  BY DEF PublishRefused
<1>2. templateCall' = [templateCall EXCEPT ![c] = y]
  BY CallThere DEF PublishRefused
<1>3. y \in TemplateCallRecord /\ y.op = x.op /\ y.target = x.target /\ y.phase = x.phase /\ y.doc = x.doc
      /\ y.todo = x.todo /\ y.sound = x.sound /\ y.touched = x.touched /\ y.before = x.before
      /\ y.left = x.left \ {p} /\ y.warned = x.warned \cup {p}
  BY DEF TemplateCallRecord
<1> HIDE DEF y
<1>4. CallOnTheWay(y, images, container)
  <2>1. x.op # "save"
    BY <1>1 DEF CallOnTheWay, SaveOnTheWay
  <2>2. ASSUME x.op = "load" PROVE LoadOnTheWay(y, images, container)
    <3>1. LoadOnTheWay(x, images, container)
      BY <2>2 DEF CallOnTheWay
    <3>2. Wrote(x, container[x.target]) => Wrote(y, container[x.target])
      BY <1>3 DEF Wrote
    <3> QED BY <3>1, <3>2, <1>1, <1>3 DEF LoadOnTheWay
  <2> QED BY <2>1, <2>2, <1>1, <1>3 DEF CallOnTheWay
<1> QED BY <1>2, <1>3, <1>4, CallThere, AloneTemplate DEF PublishRefused

LEMMA PublishInv ==
  ASSUME TemplateAssumption, TemplateInv, NEW c \in TemplateCalls, NEW p \in TemplatePorts, Publish(c, p)
  PROVE  TemplateInv'
<1> PICK x \in TemplateCallRecord : x = templateCall[c] /\ CallOnTheWay(x, images, container)
  BY CallThere
<1> PICK t \in Targets : t = x.target
  BY DEF TemplateCallRecord
<1>1. x.phase = "publish" /\ p \in x.left
  BY DEF Publish
<1>2. CASE container[t] \in ContainerRow
  <2> DEFINE y == [x EXCEPT !.left = @ \ {p}]
             old == container[t]
             row == [old EXCEPT !.ports = @ \cup {p}]
  <2>1. [templateCall EXCEPT ![c].left = @ \ {p}] = [templateCall EXCEPT ![c] = y]
    BY CallThere
  <2>2. templateCall' = NotedContainer([templateCall EXCEPT ![c] = y], c, t)
    BY <2>1 DEF Publish
  <2>3. y \in TemplateCallRecord /\ y.op = x.op /\ y.target = x.target /\ y.phase = x.phase /\ y.doc = x.doc
        /\ y.todo = x.todo /\ y.sound = x.sound /\ y.touched = x.touched /\ y.before = x.before
        /\ y.left = x.left \ {p} /\ y.warned = x.warned
    BY DEF TemplateCallRecord
  <2>4. row \in ContainerRow /\ row.image = old.image /\ row.holds = old.holds /\ row.mounts = old.mounts
        /\ row.group = old.group /\ row.ports = old.ports \cup {p}
    BY <1>2 DEF ContainerRow
  <2>5. container' = [container EXCEPT ![t] = row]
    BY CallThere DEF Publish
  <2>6. BaseTrue(row)
    BY <2>4, CallThere DEF BaseTrue
  <2> HIDE DEF y, row
  <2>7. container'[t] = row
    BY <2>5, CallThere
  <2>8. CallOnTheWay(y, images, container')
    <3>1. x.op # "save"
      BY <1>1 DEF CallOnTheWay, SaveOnTheWay
    <3>2. ASSUME x.op = "load" PROVE LoadOnTheWay(y, images, container')
      <4>1. LoadOnTheWay(x, images, container)
        BY <3>2 DEF CallOnTheWay
      <4>2. row # NoContainer
        BY <2>4 DEF ContainerRow, NoContainer, TemplateAssumption
      <4>3. Wrote(x, container[t]) => Wrote(y, container'[t])
        BY <1>1, <2>3, <2>4, <2>7, <4>2 DEF Wrote
      <4> QED BY <4>1, <4>2, <4>3, <1>1, <2>3, <2>7 DEF LoadOnTheWay
    <3> QED BY <3>1, <3>2, <1>1, <2>3 DEF CallOnTheWay
  <2>9. provisioned' \subseteq Bases /\ Quiet /\ UNCHANGED <<images, templateFile>>
    BY CallThere DEF Publish
  <2> QED BY <2>2, <2>3, <2>4, <2>5, <2>6, <2>8, <2>9, ContainerStep
<1>3. x.op = "load"
  BY <1>1 DEF CallOnTheWay, SaveOnTheWay, TemplateCallRecord
<1>4. container[t] # NoContainer
  BY <1>1, <1>3 DEF CallOnTheWay, LoadOnTheWay
<1> QED BY <1>2, <1>4, CallThere

\* The container a request asks for.
LEMMA ForcedIs ==
  ASSUME NEW mounts \in ModeMaps
  PROVE  /\ Forced(mounts) \in ModeMaps /\ DOMAIN Forced(mounts) = DOMAIN mounts \cup {"own"}
         /\ \A m \in DOMAIN mounts : Forced(mounts)[m] = mounts[m]
<1>1. PICK S \in SUBSET {"own", "other"} : mounts \in [S -> {"ro", "rw"}]
  BY DEF ModeMaps
<1>2. Forced(mounts) \in [S \cup {"own"} -> {"ro", "rw"}]
  BY <1>1 DEF Forced
<1>3. Forced(mounts) \in ModeMaps
  BY <1>2 DEF ModeMaps
<1> QED BY <1>1, <1>3 DEF Forced

NoModes == [m \in {} |-> "rw"]
NoGroups == [g \in DocumentGroups |-> {}]
OldOf(row) ==
  IF row = NoContainer THEN [mounts |-> NoModes, ports |-> {}, group |-> NoGroups]
  ELSE [mounts |-> row.mounts, ports |-> row.ports, group |-> row.group]

LEMMA OldIs ==
  ASSUME NEW row \in ContainerRow \cup {NoContainer}
  PROVE  /\ OldOf(row).mounts \in ModeMaps /\ OldOf(row).group \in GroupMaps
         /\ OldOf(row).ports \in SUBSET TemplatePorts
         /\ row = NoContainer => OldOf(row).ports = {} /\ OldOf(row).group = NoGroups
         /\ row # NoContainer => OldOf(row).ports = row.ports /\ OldOf(row).group = row.group
<1>1. NoModes \in ModeMaps /\ NoGroups \in GroupMaps
  <2>1. NoModes \in [{} -> {"ro", "rw"}] /\ {} \in SUBSET {"own", "other"}
    BY DEF NoModes
  <2>2. NoModes \in ModeMaps
    BY <2>1 DEF ModeMaps
  <2>3. NoGroups \in GroupMaps
    BY DEF NoGroups, GroupMaps
  <2> QED BY <2>2, <2>3
<1>2. row # NoContainer => row.mounts \in ModeMaps /\ row.group \in GroupMaps /\ row.ports \in SUBSET TemplatePorts
  BY DEF ContainerRow
<1> QED BY <1>1, <1>2 DEF OldOf

GroupsMade(d, old, creates) ==
  [g \in DocumentGroups |-> IF d.group[g] # {} \/ (creates /\ g # "paths") THEN d.group[g] ELSE old[g]]

\* A request with document d for the container row makes r.
Makes(r, d, row, creates) ==
  /\ r \in ContainerRow /\ BaseTrue(r) /\ r # NoContainer
  /\ ImageIs(d, images) => r.holds = Builtins[d.base] \cup d.packages
  /\ ~creates \/ row = NoContainer => r.mounts = Forced(d.mounts)
  /\ r.ports = OldOf(row).ports
  /\ r.group = GroupsMade(d, OldOf(row).group, creates)

LEMMA RequestedIs ==
  ASSUME TemplateAssumption, TemplateShaped, NEW d \in DocumentType, NEW row \in ContainerRow \cup {NoContainer},
         NEW creates \in BOOLEAN
  PROVE  Makes(Requested(d, row, creates), d, row, creates)
<1> DEFINE old == OldOf(row)
           i == ImageOf(d)
           h == IF IsBaseOnly(d) THEN Builtins[d.base] ELSE images[Own].holds
           m == IF creates /\ row # NoContainer THEN Forced(old.mounts) ELSE Forced(d.mounts)
           g == GroupsMade(d, old.group, creates)
<1>0. d.base \in Bases /\ d.packages \in SUBSET Packages /\ d.mounts \in ModeMaps /\ d.group \in GroupMaps
  BY DEF DocumentType
<1>1. Requested(d, row, creates) = [image |-> i, holds |-> h, mounts |-> m, group |-> g, ports |-> old.ports]
  BY DEF Requested, OldOf, NoModes, NoGroups, GroupsMade
<1>2. i \in Bases \cup CustomImages /\ (i \in Bases => i = d.base /\ h = Builtins[i])
  BY <1>0 DEF ImageOf, TemplateAssumption
<1>3. h \in SUBSET Packages
  BY <1>0 DEF TemplateShaped, Lists, ImageRecord, TemplateAssumption
<1>4. m \in ModeMaps
  BY <1>0, ForcedIs, OldIs
<1>5. g \in GroupMaps
  BY <1>0, OldIs DEF GroupsMade, GroupMaps
<1>6. ImageIs(d, images) => h = Builtins[d.base] \cup d.packages
  BY DEF ImageIs, IsBaseOnly
<1>7. ~creates \/ row = NoContainer => m = Forced(d.mounts)
  OBVIOUS
<1>8. old.ports \in SUBSET TemplatePorts
  BY OldIs
<1> HIDE DEF i, h, m, g, old
<1>9. Requested(d, row, creates) \in ContainerRow
  BY <1>1, <1>2, <1>3, <1>4, <1>5, <1>8 DEF ContainerRow
<1>10. Requested(d, row, creates) # NoContainer
  BY <1>9 DEF ContainerRow, NoContainer, TemplateAssumption
<1>11. BaseTrue(Requested(d, row, creates))
  BY <1>1, <1>2 DEF BaseTrue
<1> QED BY <1>1, <1>6, <1>7, <1>9, <1>10, <1>11 DEF old, g, Makes

LEMMA RequestInv ==
  ASSUME TemplateAssumption, TemplateInv, NEW c \in TemplateCalls, Request(c)
  PROVE  TemplateInv'
<1> PICK x \in TemplateCallRecord : x = templateCall[c] /\ CallOnTheWay(x, images, container)
  BY CallThere
<1> PICK t \in Targets : t = x.target
  BY DEF TemplateCallRecord
<1> PICK old \in ContainerRow \cup {NoContainer} : old = container[t]
  BY CallThere
<1> PICK creates \in BOOLEAN : creates = (x.phase = "create")
  OBVIOUS
<1> DEFINE y == [x EXCEPT !.phase = "publish", !.before = old, !.left = x.doc.ports]
           row == Requested(x.doc, old, creates)
<1>1. x.phase \in {"create", "start"} /\ x.doc \in DocumentType /\ x.doc.ports \in SUBSET TemplatePorts
  BY DEF Request, TemplateCallRecord, DocumentType
<1>2. [templateCall EXCEPT ![c].phase = "publish", ![c].before = old, ![c].left = x.doc.ports]
        = [templateCall EXCEPT ![c] = y]
  BY CallThere
<1>3. templateCall' = NotedContainer([templateCall EXCEPT ![c] = y], c, t)
  BY <1>2 DEF Request
<1>4. y \in TemplateCallRecord /\ y.op = x.op /\ y.target = x.target /\ y.phase = "publish" /\ y.doc = x.doc
      /\ y.todo = x.todo /\ y.sound = x.sound /\ y.touched = x.touched /\ y.before = old
      /\ y.left = x.doc.ports /\ y.warned = x.warned
  BY <1>1 DEF TemplateCallRecord, TemplatePhases
<1>5. container' = [container EXCEPT ![t] = row]
  BY DEF Request
<1>6. TemplateShaped
  BY DEF TemplateInv
<1> HIDE DEF y, row
<1>7. /\ row \in ContainerRow /\ BaseTrue(row) /\ row # NoContainer
      /\ ImageIs(x.doc, images) => row.holds = Builtins[x.doc.base] \cup x.doc.packages
      /\ ~creates \/ old = NoContainer => row.mounts = Forced(x.doc.mounts)
      /\ row.ports = OldOf(old).ports
      /\ row.group = GroupsMade(x.doc, OldOf(old).group, creates)
  <2>1. PICK d \in DocumentType : d = x.doc
    BY <1>1
  <2>2. row = Requested(d, old, creates)
    BY <2>1 DEF row
  <2>3. Makes(Requested(d, old, creates), d, old, creates)
    BY <1>6, RequestedIs
  <2> QED BY <2>1, <2>2, <2>3 DEF Makes
<1>8. container'[t] = row
  BY <1>5, CallThere
<1>9. x.op = "load" /\ LoadOnTheWay(x, images, container)
  BY <1>1 DEF CallOnTheWay, SaveOnTheWay, TemplateCallRecord
<1>10. x.sound /\ ~x.touched => ImageIs(x.doc, images)
  BY <1>1, <1>9 DEF LoadOnTheWay
<1>11. creates /\ ~x.touched => old = NoContainer
  BY <1>9 DEF LoadOnTheWay
<1>12. ASSUME ~x.touched PROVE Wrote(y, row)
  <2>1. x.sound => row.holds = Builtins[x.doc.base] \cup x.doc.packages
    BY <1>7, <1>10, <1>12
  <2>2. x.doc.mounts \in ModeMaps /\ row.mounts = Forced(x.doc.mounts)
    BY <1>1, <1>7, <1>11, <1>12 DEF DocumentType
  <2>3. DOMAIN row.mounts = DOMAIN x.doc.mounts \cup {"own"}
        /\ \A m \in DOMAIN x.doc.mounts : row.mounts[m] = x.doc.mounts[m]
    BY <2>2, ForcedIs
  <2>4. \A g \in DocumentGroups :
          row.group[g] = IF x.doc.group[g] = {} THEN (IF old = NoContainer THEN {} ELSE old.group[g]) ELSE x.doc.group[g]
    <3>1. SUFFICES ASSUME NEW g \in DocumentGroups
                   PROVE  row.group[g] = IF x.doc.group[g] = {} THEN (IF old = NoContainer THEN {} ELSE old.group[g])
                                         ELSE x.doc.group[g]
      OBVIOUS
    <3>2. row.group[g] = IF x.doc.group[g] # {} \/ (creates /\ g # "paths") THEN x.doc.group[g] ELSE OldOf(old).group[g]
      BY <1>7 DEF GroupsMade
    <3>3. OldOf(old).group[g] = IF old = NoContainer THEN {} ELSE old.group[g]
      BY OldIs DEF NoGroups
    <3> QED BY <3>2, <3>3, <1>11, <1>12
  <2>5. row.ports = IF old = NoContainer THEN {} ELSE old.ports
    BY <1>7, OldIs
  <2> QED BY <1>4, <1>7, <2>1, <2>3, <2>4, <2>5 DEF Wrote
<1>13. CallOnTheWay(y, images, container')
  BY <1>4, <1>7, <1>8, <1>9, <1>12 DEF CallOnTheWay, LoadOnTheWay
<1>14. provisioned' \subseteq Bases /\ Quiet /\ UNCHANGED <<images, templateFile>>
  BY <1>1, CallThere DEF Request, DocumentType
<1> QED BY <1>3, <1>4, <1>5, <1>7, <1>13, <1>14, ContainerStep

LEMMA SaveReadsRowInv ==
  ASSUME TemplateAssumption, TemplateInv, NEW c \in TemplateCalls, SaveReadsRow(c)
  PROVE  TemplateInv'
<1> PICK x \in TemplateCallRecord : x = templateCall[c] /\ CallOnTheWay(x, images, container)
  BY CallThere
<1> PICK row \in ContainerRow \cup {NoContainer} : row = container[x.target] /\ BaseTrue(row)
  BY CallThere DEF TemplateCallRecord
<1> PICK p \in TemplatePhases : p = IF row = NoContainer THEN "failed" ELSE "save"
  BY DEF TemplatePhases
<1> DEFINE y == [x EXCEPT !.row = row, !.phase = p]
<1>1. x.phase = "save"
  BY DEF SaveReadsRow
<1>2. templateCall' = [templateCall EXCEPT ![c] = y]
  <2>1. templateCall' = [templateCall EXCEPT ![c].row = row, ![c].phase = p]
    BY <1>1, CallThere DEF SaveReadsRow
  <2> QED BY <2>1, CallThere
<1>3. y \in TemplateCallRecord /\ y.op = x.op /\ y.phase = p /\ y.row = row
  BY DEF TemplateCallRecord
<1> HIDE DEF y
<1>4. CallOnTheWay(y, images, container)
  <2>1. x.op = "save"
    BY <1>1 DEF CallOnTheWay, LoadOnTheWay, TemplateCallRecord
  <2>2. SaveOnTheWay(y)
    BY <1>3 DEF SaveOnTheWay
  <2> QED BY <2>1, <2>2, <1>3 DEF CallOnTheWay
<1> QED BY <1>2, <1>3, <1>4, CallThere, AloneTemplate DEF SaveReadsRow

LEMMA SaveReadsImagesInv ==
  ASSUME TemplateAssumption, TemplateInv, NEW c \in TemplateCalls, SaveReadsImages(c)
  PROVE  TemplateInv'
<1> PICK x \in TemplateCallRecord : x = templateCall[c] /\ CallOnTheWay(x, images, container)
  BY CallThere
<1> DEFINE y == [x EXCEPT !.seen = images]
<1>1. x.phase = "save"
  BY DEF SaveReadsImages
<1>2. templateCall' = [templateCall EXCEPT ![c] = y]
  BY CallThere DEF SaveReadsImages
<1>3. y \in TemplateCallRecord /\ y.op = x.op /\ y.phase = x.phase /\ y.row = x.row
  BY CallThere DEF TemplateCallRecord
<1> HIDE DEF y
<1>4. CallOnTheWay(y, images, container)
  <2>1. x.op = "save"
    BY <1>1 DEF CallOnTheWay, LoadOnTheWay, TemplateCallRecord
  <2>2. SaveOnTheWay(x) => SaveOnTheWay(y)
    BY <1>1, <1>3 DEF SaveOnTheWay
  <2> QED BY <2>1, <2>2, <1>3 DEF CallOnTheWay
<1> QED BY <1>2, <1>3, <1>4, CallThere, AloneTemplate DEF SaveReadsImages

LEMMA SaveExportsInv ==
  ASSUME TemplateAssumption, TemplateInv, NEW c \in TemplateCalls, SaveExports(c)
  PROVE  TemplateInv'
<1> PICK x \in TemplateCallRecord : x = templateCall[c] /\ CallOnTheWay(x, images, container)
  BY CallThere
<1>1. x.phase = "save" /\ x.row # NoContainer /\ x.seen # NoImage
  BY DEF SaveExports
<1> PICK row \in ContainerRow : row = x.row
  BY <1>1 DEF TemplateCallRecord
<1> PICK list \in Lists : list = x.seen
  BY <1>1 DEF TemplateCallRecord
<1>2. x.op = "save" /\ SaveOnTheWay(x) /\ BaseTrue(row)
  BY <1>1 DEF CallOnTheWay, LoadOnTheWay, TemplateCallRecord, SaveOnTheWay
<1>3. Quiet /\ UNCHANGED <<images, provisioned, container, templateFile>>
  BY DEF SaveExports
<1>4. CASE RootOf(list, row.image) = NoImage
  <2>1. GoTo(c, "failed")
    BY <1>4 DEF SaveExports, GoTo
  <2> QED BY <2>1, <1>3, CallFailsInv
<1>5. CASE RootOf(list, row.image) # NoImage
  <2> DEFINE d == Exported(row, list)
             s == StillAsMade(row, list)
             y == [x EXCEPT !.phase = "write", !.doc = d, !.sound = s]
  <2>1. /\ d \in DocumentType /\ d.mounts = row.mounts /\ d.ports = row.ports
        /\ \A g \in DocumentGroups \ {"paths"} : d.group[g] \cap GitIdentity = {}
    BY <1>5, ExportedType
  <2>2. s \in BOOLEAN
    BY DEF StillAsMade
  <2>3. s => Builtins[d.base] \cup d.packages = row.holds
    BY <1>2, <1>5, ExportsAll
  <2>4. templateCall' = [templateCall EXCEPT ![c].phase = "write", ![c].doc = d, ![c].sound = s]
    BY <1>5 DEF SaveExports
  <2> HIDE DEF d, s
  <2>5. templateCall' = [templateCall EXCEPT ![c] = y]
    BY <2>4, CallThere
  <2>6. y \in TemplateCallRecord /\ y.op = "save" /\ y.phase = "write" /\ y.doc = d /\ y.sound = s /\ y.row = row
    BY <2>1, <2>2, <1>2 DEF TemplateCallRecord, TemplatePhases
  <2> HIDE DEF y
  <2>7. SaveOnTheWay(y)
    BY <2>1, <2>3, <2>6, <1>2 DEF SaveOnTheWay
  <2>8. CallOnTheWay(y, images, container)
    BY <2>6, <2>7 DEF CallOnTheWay
  <2> QED BY <2>5, <2>6, <2>8, <1>3, CallThere, AloneTemplate
<1> QED BY <1>4, <1>5

LEMMA MeanwhileInv ==
  ASSUME TemplateAssumption, TemplateInv, EditFile \/ TagRemoved \/ BaseRemoved \/ UNCHANGED templateVars
  PROVE  TemplateInv'
<1>0. TemplateShaped /\ templateCall \in [TemplateCalls -> TemplateCallRecord]
  BY DEF TemplateInv, TemplateShaped
<1>1. CASE EditFile \/ BaseRemoved \/ UNCHANGED templateVars
  <2>1. provisioned' \subseteq Bases /\ templateFile' \in DocumentType /\ templateTrouble' \in 0..MaxTemplateTrouble
    BY <1>0, <1>1, TroubleBounded DEF TemplateShaped, EditFile, BaseRemoved, templateVars, TemplateAssumption
  <2>2. images' = images /\ container' = container /\ templateCall' = templateCall
    BY <1>1 DEF EditFile, BaseRemoved, templateVars
  <2> QED BY <2>1, <2>2 DEF TemplateInv, TemplateShaped
<1>2. CASE TagRemoved
  <2> DEFINE i == [images[Own] EXCEPT !.tagged = FALSE]
             B == [d \in TemplateCalls |-> UsesImage(d)]
  <2>1. i \in ImageRecord /\ i.holds = images[Own].holds
    BY OwnRecord DEF ImageRecord
  <2>2. images' = [images EXCEPT ![Own] = i]
    BY <1>0, <1>2 DEF TagRemoved, Lists, TemplateAssumption, TemplateShaped
  <2>3. images' \in Lists /\ images'[Own].holds = images[Own].holds
    <3> HIDE DEF i
    <3> QED BY <1>0, <2>1, <2>2, ImageSet DEF TemplateShaped
  <2>4. /\ provisioned' = provisioned /\ container' = container /\ templateFile' = templateFile
        /\ templateTrouble' \in 0..MaxTemplateTrouble
    BY <1>0, <1>2, TroubleBounded DEF TagRemoved, TemplateShaped
  <2>5. B \in [TemplateCalls -> BOOLEAN]
    BY DEF UsesImage
  <2>6. templateCall' = NotedBy(templateCall, NoImage, B)
    BY <1>2 DEF TagRemoved, NotedImage, NotedBy, NotesOf
  <2> HIDE DEF B, i
  <2>7. DOMAIN templateCall' = TemplateCalls /\ templateCall' = [d \in TemplateCalls |-> templateCall'[d]]
    BY <2>6 DEF NotedBy
  <2>8. ASSUME NEW d \in TemplateCalls
        PROVE  \E b \in BOOLEAN : templateCall'[d] = NotesOf(templateCall[d], b) /\ Spared(d, b)
    <3>1. templateCall'[d] = NotesOf(templateCall[d], d # NoImage /\ B[d])
      BY <2>6 DEF NotedBy
    <3>2. (d # NoImage /\ B[d]) \in BOOLEAN
      OBVIOUS
    <3>3. PICK b \in BOOLEAN : b = (d # NoImage /\ B[d])
      BY <3>2
    <3>4. templateCall'[d] = NotesOf(templateCall[d], b)
      BY <3>1, <3>3, Zenon
    <3>5. Spared(d, b)
      BY <2>3, <2>4 DEF Spared
    <3> QED BY <3>3, <3>4, <3>5
  <2> QED BY <1>0, <2>3, <2>4, <2>7, <2>8, AllOnTheWay DEF TemplateShaped
<1> QED BY <1>1, <1>2

LEMMA TemplateInitInv ==
  ASSUME TemplateAssumption, TemplateInit
  PROVE  TemplateInv
<1>1. templateFile \in DocumentType
  BY DEF TemplateInit, TemplateAssumption
<1>2. \A c \in TemplateCalls : templateCall[c] = NewTemplateCall(templateFile)
  BY DEF TemplateInit
<1>3. "load" \in {"load", "build", "rebuild", "save"} /\ "idle" \in TemplatePhases /\ "default" \in Targets
  BY DEF TemplatePhases, Targets
<1>4. NewTemplateCall(templateFile) \in TemplateCallRecord
  BY <1>1, <1>3 DEF NewTemplateCall, TemplateCallRecord
<1>5. templateCall \in [TemplateCalls -> TemplateCallRecord]
  BY <1>4 DEF TemplateInit
<1>6. \A t \in Targets : BaseTrue(container[t])
  BY DEF BaseTrue, TemplateInit, TemplateAssumption
<1>7. TemplateShaped
  BY <1>1, <1>5, <1>6 DEF TemplateShaped, TemplateInit, TemplateAssumption, Lists
<1>8. LoadOnTheWay(NewTemplateCall(templateFile), images, container) /\ NewTemplateCall(templateFile).op = "load"
  BY DEF LoadOnTheWay, NewTemplateCall
<1>9. \A c \in TemplateCalls : CallOnTheWay(templateCall[c], images, container)
  BY <1>2, <1>8 DEF CallOnTheWay
<1> QED BY <1>7, <1>9 DEF TemplateInv

LEMMA TemplateStepInv ==
  ASSUME TemplateAssumption, TemplateInv, [TemplateNext]_templateVars
  PROVE  TemplateInv'
<1>1. ASSUME NEW c \in TemplateCalls, TemplateStep(c) PROVE TemplateInv'
  <2>1. CASE CallBreaks(c) \/ RequestRefused(c)
    BY <2>1, CallFailsInv DEF CallBreaks, RequestRefused
  <2>2. CASE \E p \in TemplatePorts : Publish(c, p) \/ PublishRefused(c, p)
    BY <2>2, PublishInv, PublishRefusedInv
  <2>3. CASE SaveReadsRow(c) \/ SaveReadsImages(c) \/ SaveExports(c) \/ SaveWrites(c)
    BY <2>3, SaveReadsRowInv, SaveReadsImagesInv, SaveExportsInv, SaveWritesInv
  <2>4. CASE ListImages(c) \/ Drop(c) \/ Provision(c) \/ BuildTags(c) \/ BuildRecords(c) \/ Ensured(c)
    BY <2>4, ListImagesInv, DropInv, ProvisionInv, BuildTagsInv, BuildRecordsInv, EnsuredInv
  <2>5. CASE AsksWorkspace(c) \/ Request(c) \/ Loaded(c)
    BY <2>5, AsksWorkspaceInv, RequestInv, LoadedInv
  <2> QED BY <1>1, <2>1, <2>2, <2>3, <2>4, <2>5 DEF TemplateStep
<1>2. ASSUME NEW c \in TemplateCalls, NEW op \in TemplateOps[c], NEW t \in Targets, OpenTemplate(c, op, t)
      PROVE  TemplateInv'
  BY <1>2, OpenTemplateInv
<1> QED BY <1>1, <1>2, MeanwhileInv DEF TemplateNext

LEMMA TemplateInvMeans ==
  ASSUME TemplateInv
  PROVE  TemplatesFaithful /\ TemplateTypeOK
<1>1. ASSUME NEW c \in TemplateCalls
      PROVE  templateCall[c] \in TemplateCallRecord /\ CallOnTheWay(templateCall[c], images, container)
  BY CallThere
<1>2. LoadedAsWritten
  <2> SUFFICES ASSUME NEW c \in TemplateCalls, templateCall[c].op = "load", templateCall[c].phase = "done",
                      ~templateCall[c].touched
               PROVE  LET call == templateCall[c]
                          row == container[call.target]
                          d == call.doc
                          old(g) == IF call.before = NoContainer THEN {} ELSE call.before.group[g]
                          oldPorts == IF call.before = NoContainer THEN {} ELSE call.before.ports IN
                      /\ row # NoContainer
                      /\ call.sound => row.holds = Builtins[d.base] \cup d.packages
                      /\ "own" \in DOMAIN row.mounts
                      /\ \A m \in DOMAIN row.mounts : m \in DOMAIN d.mounts => row.mounts[m] = d.mounts[m]
                      /\ DOMAIN row.mounts = DOMAIN d.mounts \cup {"own"}
                      /\ \A g \in DocumentGroups : row.group[g] = IF d.group[g] = {} THEN old(g) ELSE d.group[g]
                      /\ row.ports \cup call.warned = oldPorts \cup d.ports \cup call.warned
    BY DEF LoadedAsWritten
  <2>1. Wrote(templateCall[c], container[templateCall[c].target]) /\ templateCall[c].left = {}
    BY <1>1 DEF CallOnTheWay, LoadOnTheWay
  <2> QED BY <2>1 DEF Wrote
<1>3. SavedAsRun
  BY <1>1 DEF SavedAsRun, CallOnTheWay, SaveOnTheWay
<1>4. TemplateTypeOK
  BY <1>1 DEF TemplateTypeOK, TemplateInv, TemplateShaped, TemplateCallRecord, TemplatePhases, Lists
<1> QED BY <1>2, <1>3, <1>4 DEF TemplatesFaithful

\* A template that loads done leaves a container of its image with its mounts,
\* groups and ports, and one that is saved describes the container it was saved
\* from, in any number of overlapping loads, builds, rebuilds and saves, unless
\* another call touched the same container or image in between
\* (loadContainerTemplate, buildContainerTemplate, saveContainerTemplate).
THEOREM TemplatesAreFaithful == TemplateSpec => []TemplatesFaithful
<1>1. TemplateInit => TemplateInv
  BY TemplateInitInv, TemplateAssumption
<1>2. TemplateInv /\ [TemplateNext]_templateVars => TemplateInv'
  BY TemplateStepInv, TemplateAssumption
<1>3. TemplateInv => TemplatesFaithful
  BY TemplateInvMeans
<1> QED BY <1>1, <1>2, <1>3, PTL DEF TemplateSpec

\* The state of the template calls keeps its types (container-template.ts).
THEOREM TemplateTypes == TemplateSpec => []TemplateTypeOK
<1>1. TemplateInit => TemplateInv
  BY TemplateInitInv, TemplateAssumption
<1>2. TemplateInv /\ [TemplateNext]_templateVars => TemplateInv'
  BY TemplateStepInv, TemplateAssumption
<1>3. TemplateInv => TemplateTypeOK
  BY TemplateInvMeans
<1> QED BY <1>1, <1>2, <1>3, PTL DEF TemplateSpec

-----------------------------------------------------------------------------
(* Types of ToolPolicy.                                                    *)

ToolCallRecord ==
  [tool : ToolClasses, phase : Phases, facts : Facts, seen : MountMaps, staged : Templates,
   summary : Counts \cup {NoCounts}, list : PathLists, verified : BOOLEAN, touched : BOOLEAN,
   approved : BOOLEAN, lost : Counts \cup {NoCounts}]
BoxRecord == [mounts : MountMaps, env : SUBSET EnvNames, paths : PathLists, agentPaths : PathLists]

\* The mounts of a container are a map of mount names.
LEMMA MountMapsAre ==
  /\ \A mounts \in MountMaps : DOMAIN mounts \in SUBSET MountNames /\ \A m \in DOMAIN mounts : mounts[m] \in MountModes
  /\ \A S \in SUBSET MountNames : [S -> MountModes] \subseteq MountMaps
PROOF
<1>1. \A mounts \in MountMaps : \E S \in SUBSET MountNames : mounts \in [S -> MountModes] BY DEF MountMaps
<1>2. ASSUME NEW mounts \in MountMaps
      PROVE  DOMAIN mounts \in SUBSET MountNames /\ \A m \in DOMAIN mounts : mounts[m] \in MountModes
  <2>1. PICK S \in SUBSET MountNames : mounts \in [S -> MountModes] BY <1>1
  <2> QED BY <2>1
<1>3. \A S \in SUBSET MountNames : [S -> MountModes] \subseteq MountMaps BY DEF MountMaps
<1> QED BY <1>2, <1>3

LEMMA ReadOnlyTyped == \A mounts \in MountMaps : ReadOnlyMounts(mounts) \in MountMaps
PROOF
<1> SUFFICES ASSUME NEW mounts \in MountMaps PROVE ReadOnlyMounts(mounts) \in MountMaps OBVIOUS
<1>1. DOMAIN mounts \in SUBSET MountNames /\ \A m \in DOMAIN mounts : mounts[m] \in MountModes BY MountMapsAre
<1>2. ReadOnlyMounts(mounts) \in [DOMAIN mounts -> MountModes] BY <1>1 DEF ReadOnlyMounts, MountModes
<1> QED BY <1>1, <1>2, MountMapsAre

LEMMA StagedTyped ==
  ASSUME NEW t \in Templates
  PROVE  StagedMounts(t) \in MountMaps /\ t.env \in SUBSET EnvNames /\ t.paths \in PathLists
PROOF
<1>1. t.mounts \in MountMaps /\ t.env \in SUBSET EnvNames /\ t.paths \in PathLists BY PolicyAssumption
<1>2. DOMAIN t.mounts \in SUBSET MountNames /\ \A m \in DOMAIN t.mounts : t.mounts[m] \in MountModes BY <1>1, MountMapsAre
<1>3. (DOMAIN t.mounts \cup {"project"}) \in SUBSET MountNames BY <1>2 DEF MountNames
<1>4. StagedMounts(t) \in [DOMAIN t.mounts \cup {"project"} -> MountModes] BY <1>2 DEF StagedMounts, MountModes
<1> QED BY <1>1, <1>3, <1>4, MountMapsAre

LEMMA WithVolumeTyped ==
  ASSUME NEW kept \in MountMaps
  PROVE  [m \in DOMAIN kept \cup {"volume"} |-> IF m = "volume" THEN "rw" ELSE kept[m]] \in MountMaps
PROOF
<1>1. DOMAIN kept \in SUBSET MountNames /\ \A m \in DOMAIN kept : kept[m] \in MountModes BY MountMapsAre
<1>2. (DOMAIN kept \cup {"volume"}) \in SUBSET MountNames BY <1>1 DEF MountNames
<1>3. [m \in DOMAIN kept \cup {"volume"} |-> IF m = "volume" THEN "rw" ELSE kept[m]]
        \in [DOMAIN kept \cup {"volume"} -> MountModes]
  BY <1>1 DEF MountModes
<1> QED BY <1>2, <1>3, MountMapsAre

LEMMA SomeMountsTyped ==
  /\ NoMounts \in MountMaps
  /\ [m \in {"project", "scratch"} |-> "rw"] \in MountMaps /\ [m \in {"project", "volume"} |-> "ro"] \in MountMaps
  /\ [m \in {"project", "volume"} |-> IF m = "project" THEN "rw" ELSE "ro"] \in MountMaps
PROOF
<1>1. NoMounts \in [{} -> MountModes] BY DEF NoMounts
<1>2. [m \in {"project", "scratch"} |-> "rw"] \in [{"project", "scratch"} -> MountModes] BY DEF MountModes
<1>3. [m \in {"project", "volume"} |-> "ro"] \in [{"project", "volume"} -> MountModes] BY DEF MountModes
<1>4. [m \in {"project", "volume"} |-> IF m = "project" THEN "rw" ELSE "ro"] \in [{"project", "volume"} -> MountModes]
  BY DEF MountModes
<1>5. {} \in SUBSET MountNames /\ {"project", "scratch"} \in SUBSET MountNames /\ {"project", "volume"} \in SUBSET MountNames
  BY DEF MountNames
<1> QED BY <1>1, <1>2, <1>3, <1>4, <1>5, MountMapsAre

-----------------------------------------------------------------------------
(* Counts.                                                                 *)

LEMMA CountOfPair ==
  ASSUME NEW a, NEW b, NEW S, S \subseteq {a, b}
  PROVE  IsFiniteSet(S) /\ Cardinality(S) \in 0..2
PROOF
<1>1. IsFiniteSet({a, b}) /\ Cardinality({a, b}) <= 2 /\ Cardinality({a, b}) \in Nat
  <2>1. IsFiniteSet({a}) /\ Cardinality({a}) = 1 BY FS_Singleton
  <2>2. {a, b} = {a} \cup {b} OBVIOUS
  <2>3. IsFiniteSet({a} \cup {b}) /\ (Cardinality({a} \cup {b}) = 1 \/ Cardinality({a} \cup {b}) = 2)
    <3>1. IsFiniteSet({a} \cup {b}) /\ Cardinality({a} \cup {b}) = IF b \in {a} THEN Cardinality({a}) ELSE Cardinality({a}) + 1
      BY <2>1, FS_AddElement, Zenon
    <3> QED BY <2>1, <3>1
  <2> QED BY <2>2, <2>3
<1>2. IsFiniteSet(S) /\ Cardinality(S) <= Cardinality({a, b}) BY <1>1, FS_Subset
<1>3. Cardinality(S) \in Nat BY <1>2, FS_CardinalityType
<1> QED BY <1>1, <1>2, <1>3

LEMMA CountOfThree ==
  ASSUME NEW a, NEW b, NEW c, NEW S, S \subseteq {a, b, c}
  PROVE  Cardinality(S) \in 0..3
PROOF
<1>1. IsFiniteSet({a, b}) /\ Cardinality({a, b}) \in 0..2 BY CountOfPair
<1>2. {a, b, c} = {a, b} \cup {c} OBVIOUS
<1>3. /\ IsFiniteSet({a, b} \cup {c})
      /\ Cardinality({a, b} \cup {c}) = IF c \in {a, b} THEN Cardinality({a, b}) ELSE Cardinality({a, b}) + 1
  BY <1>1, FS_AddElement, Zenon
<1>4. IsFiniteSet({a, b, c}) /\ Cardinality({a, b, c}) \in 0..3 BY <1>1, <1>2, <1>3
<1>5. IsFiniteSet(S) /\ Cardinality(S) <= Cardinality({a, b, c}) BY <1>4, FS_Subset
<1>6. Cardinality(S) \in Nat BY <1>5, FS_CardinalityType
<1> QED BY <1>4, <1>5, <1>6

\* A list has at most two entries.
LEMMA ListLengths == \A list \in PathLists : Len(list) \in {0, 1, 2} /\ 1..Len(list) \subseteq {1, 2}
PROOF
<1>1. \A list \in PathLists : Len(list) \in {0, 1, 2} BY DEF PathLists
<1>2. 1..0 = {} /\ 1..1 = {1} /\ 1..2 = {1, 2} OBVIOUS
<1> SUFFICES ASSUME NEW list \in PathLists PROVE 1..Len(list) \subseteq {1, 2} BY <1>1
<1>3. Len(list) = 0 \/ Len(list) = 1 \/ Len(list) = 2 BY <1>1
<1> QED BY <1>2, <1>3


LEMMA MountCount == ASSUME NEW mounts \in MountMaps, NEW M PROVE Cardinality(DOMAIN mounts \ M) \in 0..3
PROOF
<1>1. DOMAIN mounts \in SUBSET MountNames BY MountMapsAre
<1>2. (DOMAIN mounts \ M) \subseteq {"project", "volume", "scratch"} BY <1>1 DEF MountNames
<1> QED BY <1>2, CountOfThree

LEMMA EnvCount == ASSUME NEW env \in SUBSET EnvNames, NEW E PROVE Cardinality(env \ E) \in 0..2
PROOF
<1>1. (env \ E) \subseteq {"x", "y"} BY DEF EnvNames
<1> QED BY <1>1, CountOfPair

LEMMA PathCount ==
  ASSUME NEW list \in PathLists, NEW other
  PROVE  Cardinality({i \in 1..Len(list) : \A j \in 1..Len(other) : list[i] # other[j]}) \in 0..2
PROOF
<1>1. {i \in 1..Len(list) : \A j \in 1..Len(other) : list[i] # other[j]} \subseteq {1, 2} BY ListLengths
<1> QED BY <1>1, CountOfPair

LEMMA RemovalsTyped ==
  ASSUME NEW t \in Templates, NEW b \in BoxRecord
  PROVE  Removals(t, b) \in Counts
PROOF
<1>1. b.mounts \in MountMaps /\ b.env \in SUBSET EnvNames /\ b.paths \in PathLists BY DEF BoxRecord
<1>2. Cardinality(DOMAIN b.mounts \ DOMAIN StagedMounts(t)) \in 0..3 BY <1>1, MountCount
<1>3. (IF t.env = {} THEN 0 ELSE Cardinality(b.env \ t.env)) \in 0..2 BY <1>1, EnvCount
<1>4. (IF t.paths = <<>> THEN 0
       ELSE Cardinality({i \in 1..Len(b.paths) : \A j \in 1..Len(t.paths) : b.paths[i] # t.paths[j]})) \in 0..2
  <2>1. Cardinality({i \in 1..Len(b.paths) : \A j \in 1..Len(t.paths) : b.paths[i] # t.paths[j]}) \in 0..2
    BY <1>1, PathCount, Zenon
  <2> QED BY <2>1
<1> QED BY <1>2, <1>3, <1>4 DEF Removals, Counts

-----------------------------------------------------------------------------
(* Lists without an entry.                                                 *)

Kept(list, p) == {i \in 1..Len(list) : list[i] # p}
Nth(kept, j) == CHOOSE i \in kept : Cardinality({k \in kept : k <= i}) = j
PickedOf(list, kept) == [j \in 1..Cardinality(kept) |-> list[Nth(kept, j)]]

LEMMA WithoutIsPicked == \A list, p : WithoutPath(list, p) = PickedOf(list, Kept(list, p))
PROOF BY DEF WithoutPath, PickedOf, Nth, Kept

LEMMA NoneIsEmpty == \A list : PickedOf(list, {}) = <<>>
PROOF
<1> SUFFICES ASSUME NEW list PROVE PickedOf(list, {}) = <<>> OBVIOUS
<1>1. Cardinality({}) = 0 BY FS_EmptySet
<1>2. PICK f : f = PickedOf(list, {}) OBVIOUS
<1>3. f = [j \in 1..0 |-> list[Nth({}, j)]] BY <1>1, <1>2 DEF PickedOf
<1>4. f \in [1..0 -> {<<>>}] BY <1>3
<1>5. f = <<>> BY <1>4
<1> QED BY <1>2, <1>5

LEMMA OneIsItself == \A list : \A n \in Nat : PickedOf(list, {n}) = <<list[n]>>
PROOF
<1> SUFFICES ASSUME NEW list, NEW n \in Nat PROVE PickedOf(list, {n}) = <<list[n]>> OBVIOUS
<1>1. Cardinality({n}) = 1 BY FS_Singleton
<1>2. PICK f : f = PickedOf(list, {n}) OBVIOUS
<1>3. f = [j \in 1..1 |-> list[Nth({n}, j)]] BY <1>1, <1>2 DEF PickedOf
<1>4. {k \in {n} : k <= n} = {n} OBVIOUS
<1>5. Nth({n}, 1) = n
  <2>1. \E i \in {n} : Cardinality({k \in {n} : k <= i}) = 1 BY <1>1, <1>4
  <2>2. Nth({n}, 1) \in {n} BY <2>1 DEF Nth
  <2> QED BY <2>2
<1>6. f = [j \in 1..1 |-> list[n]]
  <2>1. \A j \in 1..1 : Nth({n}, j) = n BY <1>5
  <2> QED BY <1>3, <2>1
<1>7. <<list[n]>> = [j \in 1..1 |-> list[n]] OBVIOUS
<1> QED BY <1>2, <1>6, <1>7

LEMMA BothStay == \A x, y : PickedOf(<<x, y>>, {1, 2}) = <<x, y>>
PROOF
<1> SUFFICES ASSUME NEW x, NEW y PROVE PickedOf(<<x, y>>, {1, 2}) = <<x, y>> OBVIOUS
<1>1. Cardinality({1}) = 1 /\ Cardinality({1, 2}) = 2
  <2>1. IsFiniteSet({1}) /\ Cardinality({1}) = 1 BY FS_Singleton
  <2>2. Cardinality({1} \cup {2}) = Cardinality({1}) + 1 BY <2>1, FS_AddElement
  <2>3. {1, 2} = {1} \cup {2} OBVIOUS
  <2> QED BY <2>1, <2>2, <2>3
<1>2. {k \in {1, 2} : k <= 1} = {1} /\ {k \in {1, 2} : k <= 2} = {1, 2} OBVIOUS
<1>3. Nth({1, 2}, 1) = 1
  <2>1. \E i \in {1, 2} : Cardinality({k \in {1, 2} : k <= i}) = 1 BY <1>1, <1>2
  <2>2. Nth({1, 2}, 1) \in {1, 2} /\ Cardinality({k \in {1, 2} : k <= Nth({1, 2}, 1)}) = 1 BY <2>1 DEF Nth
  <2>3. Nth({1, 2}, 1) # 2 BY <1>1, <1>2, <2>2
  <2> QED BY <2>2, <2>3
<1>4. Nth({1, 2}, 2) = 2
  <2>1. \E i \in {1, 2} : Cardinality({k \in {1, 2} : k <= i}) = 2 BY <1>1, <1>2
  <2>2. Nth({1, 2}, 2) \in {1, 2} /\ Cardinality({k \in {1, 2} : k <= Nth({1, 2}, 2)}) = 2 BY <2>1 DEF Nth
  <2>3. Nth({1, 2}, 2) # 1 BY <1>1, <1>2, <2>2
  <2> QED BY <2>2, <2>3
<1>5. PICK f : f = PickedOf(<<x, y>>, {1, 2}) OBVIOUS
<1>6. f = [j \in 1..2 |-> <<x, y>>[Nth({1, 2}, j)]] BY <1>1, <1>5 DEF PickedOf
<1>7. f[1] = x /\ f[2] = y BY <1>3, <1>4, <1>6
<1>8. <<x, y>> = [j \in 1..2 |-> <<x, y>>[j]] OBVIOUS
<1>9. f = <<x, y>> BY <1>6, <1>7, <1>8
<1> QED BY <1>5, <1>9

\* A list of two names, less one: the empty list, or the other one.
LEMMA WithoutPathTyped ==
  ASSUME NEW list \in PathLists
  PROVE  WithoutPath(list, "b") \in {<<>>, <<"a">>} /\ WithoutPath(list, "a") \in {<<>>, <<"b">>}
PROOF
<1>1. CASE list = <<>>
  <2>1. Kept(list, "a") = {} /\ Kept(list, "b") = {} BY <1>1 DEF Kept
  <2> QED BY <2>1, NoneIsEmpty, WithoutIsPicked
<1>2. ASSUME NEW x \in {"a", "b"}, list = <<x>>
      PROVE  /\ WithoutPath(list, x) = <<>>
             /\ \A p \in {"a", "b"} \ {x} : WithoutPath(list, p) = <<x>>
  <2>1. 1..Len(list) = {1} /\ list[1] = x BY <1>2
  <2>2. Kept(list, x) = {} BY <2>1 DEF Kept
  <2>3. \A p \in {"a", "b"} \ {x} : Kept(list, p) = {1} BY <2>1 DEF Kept
  <2>4. PickedOf(list, {1}) = <<x>> BY <2>1, OneIsItself
  <2> QED BY <2>2, <2>3, <2>4, NoneIsEmpty, WithoutIsPicked
<1>3. ASSUME NEW x \in {"a", "b"}, NEW y \in {"a", "b"} \ {x}, list = <<x, y>>
      PROVE  WithoutPath(list, x) = <<y>> /\ WithoutPath(list, y) = <<x>>
  <2>1. 1..Len(list) = {1, 2} /\ list[1] = x /\ list[2] = y BY <1>3
  <2>2. Kept(list, x) = {2} /\ Kept(list, y) = {1} BY <2>1 DEF Kept
  <2>3. PickedOf(list, {1}) = <<x>> /\ PickedOf(list, {2}) = <<y>> BY <2>1, OneIsItself
  <2> QED BY <2>2, <2>3, WithoutIsPicked
<1>4. list \in {<<>>, <<"a">>, <<"b">>, <<"a", "b">>, <<"b", "a">>} BY DEF PathLists
<1>5. CASE list = <<"a">> BY <1>2, <1>5
<1>6. CASE list = <<"b">> BY <1>2, <1>6
<1>7. CASE list = <<"a", "b">> BY <1>3, <1>7
<1>8. CASE list = <<"b", "a">> BY <1>3, <1>8
<1> QED BY <1>1, <1>4, <1>5, <1>6, <1>7, <1>8

LEMMA PutFirst == \A x, y : <<x>> \o <<>> = <<x>> /\ <<x>> \o <<y>> = <<x, y>>
PROOF
<1> SUFFICES ASSUME NEW x, NEW y PROVE <<x>> \o <<>> = <<x>> /\ <<x>> \o <<y>> = <<x, y>> OBVIOUS
<1>1. <<x>> \in Seq({x, y}) /\ <<y>> \in Seq({x, y}) /\ <<>> \in Seq({x, y}) OBVIOUS
<1>2. PICK f : f = <<x>> \o <<>> OBVIOUS
<1>3. PICK g : g = <<x>> \o <<y>> OBVIOUS
<1>4. f \in Seq({x, y}) /\ Len(f) = 1 /\ f[1] = x BY <1>1, <1>2
<1>5. g \in Seq({x, y}) /\ Len(g) = 2 /\ g[1] = x /\ g[2] = y BY <1>1, <1>3
<1>6. f = <<x>> BY <1>4
<1>7. g = <<x, y>> BY <1>5
<1> QED BY <1>2, <1>3, <1>6, <1>7

LEMMA NewListTyped ==
  ASSUME box.agentPaths \in PathLists, NEW tool
  PROVE  NewList(tool) \in PathLists
PROOF
<1>1. WithoutPath(box.agentPaths, "b") \in {<<>>, <<"a">>} /\ WithoutPath(box.agentPaths, "a") \in {<<>>, <<"b">>}
  BY WithoutPathTyped
<1>2. <<"b">> \o <<>> = <<"b">> BY PutFirst
<1>6. <<"b">> \o <<"a">> = <<"b", "a">> BY PutFirst
<1>3. CASE tool = "path_add" BY <1>1, <1>2, <1>3, <1>6 DEF NewList, PathLists
<1>4. CASE tool = "path_remove" BY <1>1, <1>4 DEF NewList, PathLists
<1>5. CASE tool \notin {"path_add", "path_remove"} BY <1>5 DEF NewList, PathLists
<1> QED BY <1>3, <1>4, <1>5

-----------------------------------------------------------------------------
(* Steps.                                                                  *)

LEMMA PolicyTypeParts ==
  ASSUME PolicyTypeOK
  PROVE  /\ session \in Facts /\ box \in BoxRecord /\ template \in Templates
         /\ toolCall \in [ToolCalls -> ToolCallRecord]
PROOF BY DEF PolicyTypeOK, BoxRecord, ToolCallRecord

\* The calls after a change of the container.
LEMMA NotedTyped ==
  ASSUME NEW calls \in [ToolCalls -> ToolCallRecord], NEW b, NEW c
  PROVE  Noted(calls, b, c) \in [ToolCalls -> ToolCallRecord]
PROOF
<1>1. ASSUME NEW d \in ToolCalls PROVE Noted(calls, b, c)[d] \in ToolCallRecord
  <2>1. calls[d] \in ToolCallRecord OBVIOUS
  <2>2. PICK verified \in BOOLEAN, touched \in BOOLEAN :
          Noted(calls, b, c)[d] = [calls[d] EXCEPT !.verified = verified, !.touched = touched]
    BY <2>1 DEF Noted, ToolCallRecord, WhollyReadOnly
  <2> QED BY <2>1, <2>2 DEF ToolCallRecord
<1>2. Noted(calls, b, c) = [d \in ToolCalls |-> Noted(calls, b, c)[d]] BY DEF Noted
<1> QED BY <1>1, <1>2

LEMMA PolicyBound == MaxPolicyDisturbances \in Nat
PROOF BY PolicyAssumption

LEMMA NoneCounted == 0 \in 0..MaxPolicyDisturbances
PROOF BY PolicyBound

LEMMA OneMoreCounted ==
  ASSUME NEW n \in 0..MaxPolicyDisturbances, n < MaxPolicyDisturbances
  PROVE  n + 1 \in 0..MaxPolicyDisturbances
PROOF BY PolicyBound

\* One call moves.
LEMMA MovedTyped ==
  ASSUME toolCall \in [ToolCalls -> ToolCallRecord], NEW c \in ToolCalls, NEW e \in ToolCallRecord
  PROVE  [toolCall EXCEPT ![c] = e] \in [ToolCalls -> ToolCallRecord]
PROOF OBVIOUS

LEMMA PhaseTyped ==
  ASSUME toolCall \in [ToolCalls -> ToolCallRecord], NEW c \in ToolCalls, NEW p \in Phases
  PROVE  [toolCall EXCEPT ![c].phase = p] \in [ToolCalls -> ToolCallRecord]
PROOF
<1>1. [toolCall[c] EXCEPT !.phase = p] \in ToolCallRecord BY DEF ToolCallRecord
<1>2. [toolCall EXCEPT ![c].phase = p] = [toolCall EXCEPT ![c] = [toolCall[c] EXCEPT !.phase = p]] OBVIOUS
<1> QED BY <1>1, <1>2

LEMMA FirstPhaseTyped ==
  ASSUME NEW tool, NEW facts
  PROVE  FirstPhase(tool, facts) \in {"gate", "run", "denied", "read_file", "prompt"}
PROOF BY DEF FirstPhase

\* Steps of a call that leave the container as it is.
LEMMA CallStepTyped ==
  ASSUME PolicyTypeOK, NEW c \in ToolCalls,
         \/ GateUnreadable(c) \/ GateReads(c) \/ GateAnswered(c) \/ RemountRefused(c) \/ SummaryFails(c)
         \/ SummaryReadsFile(c) \/ SummaryReadsBox(c) \/ Approve(c) \/ Decline(c) \/ RunPlain(c) \/ LoadReads(c)
         \/ PathReads(c) \/ PathFails(c) \/ \E tool \in ToolClasses : Begin(c, tool)
  PROVE  PolicyTypeOK'
PROOF
<1>0. /\ session \in Facts /\ box \in BoxRecord /\ template \in Templates
      /\ toolCall \in [ToolCalls -> ToolCallRecord] /\ toolCall[c] \in ToolCallRecord
  BY PolicyTypeParts
<1>1. /\ session' = session /\ box' = box /\ template' = template /\ policyDisturbances' = policyDisturbances
      /\ pathsRaced' \in BOOLEAN
  BY DEF PolicyTypeOK, GateUnreadable, GateReads, GateAnswered, RemountRefused, SummaryFails, SummaryReadsFile,
         SummaryReadsBox, Approve, Decline, RunPlain, LoadReads, PathReads, PathFails, Begin
<1>2. ASSUME toolCall' \in [ToolCalls -> ToolCallRecord] PROVE PolicyTypeOK'
  BY <1>1, <1>2 DEF PolicyTypeOK, ToolCallRecord
<1>3. CASE \/ GateUnreadable(c) \/ GateAnswered(c) \/ RemountRefused(c) \/ SummaryFails(c) \/ Decline(c)
           \/ RunPlain(c) \/ PathFails(c)
  <2>1. PICK p \in {"denied", "remount", "failed", "prompt", "done"} : toolCall' = [toolCall EXCEPT ![c].phase = p]
    BY <1>3 DEF GateUnreadable, GateAnswered, RemountRefused, SummaryFails, Decline, RunPlain, PathFails, Phase
  <2>2. p \in Phases BY DEF Phases
  <2> QED BY <1>0, <1>2, <2>1, <2>2, PhaseTyped
<1>4. CASE GateReads(c)
  <2>1. PICK phase \in {"run", "remount_prompt"} :
          toolCall' = [toolCall EXCEPT ![c] = [toolCall[c] EXCEPT !.seen = box.mounts, !.phase = phase]]
    BY <1>0, <1>4 DEF GateReads
  <2>2. box.mounts \in MountMaps /\ phase \in Phases BY <1>0 DEF BoxRecord, Phases
  <2>3. [toolCall[c] EXCEPT !.seen = box.mounts, !.phase = phase] \in ToolCallRecord BY <1>0, <2>2 DEF ToolCallRecord
  <2> QED BY <1>0, <1>2, <2>1, <2>3, MovedTyped
<1>5. CASE SummaryReadsFile(c)
  <2>1. toolCall' = [toolCall EXCEPT ![c] = [toolCall[c] EXCEPT !.phase = "read_box", !.staged = template, !.touched = FALSE]]
    BY <1>0, <1>5 DEF SummaryReadsFile
  <2>2. [toolCall[c] EXCEPT !.phase = "read_box", !.staged = template, !.touched = FALSE] \in ToolCallRecord
    BY <1>0 DEF ToolCallRecord, Phases
  <2> QED BY <1>0, <1>2, <2>1, <2>2, MovedTyped
<1>6. CASE SummaryReadsBox(c)
  <2>1. PICK summary : summary = Removals(toolCall[c].staged, box) OBVIOUS
  <2>2. toolCall[c].staged \in Templates BY <1>0 DEF ToolCallRecord
  <2>3. summary \in Counts BY <1>0, <2>1, <2>2, RemovalsTyped
  <2>4. toolCall' = [toolCall EXCEPT ![c] = [toolCall[c] EXCEPT !.phase = "prompt", !.summary = summary]]
    BY <1>0, <1>6, <2>1 DEF SummaryReadsBox
  <2>5. [toolCall[c] EXCEPT !.phase = "prompt", !.summary = summary] \in ToolCallRecord
    BY <1>0, <2>3 DEF ToolCallRecord, Phases
  <2> QED BY <1>0, <1>2, <2>4, <2>5, MovedTyped
<1>7. CASE Approve(c)
  <2>1. toolCall' = [toolCall EXCEPT ![c] = [toolCall[c] EXCEPT !.phase = "run", !.approved = TRUE]]
    BY <1>0, <1>7 DEF Approve
  <2>2. [toolCall[c] EXCEPT !.phase = "run", !.approved = TRUE] \in ToolCallRecord BY <1>0 DEF ToolCallRecord, Phases
  <2> QED BY <1>0, <1>2, <2>1, <2>2, MovedTyped
<1>8. CASE LoadReads(c)
  <2>1. toolCall' = [toolCall EXCEPT ![c] = [toolCall[c] EXCEPT !.phase = "apply", !.staged = template]]
    BY <1>0, <1>8 DEF LoadReads
  <2>2. [toolCall[c] EXCEPT !.phase = "apply", !.staged = template] \in ToolCallRecord BY <1>0 DEF ToolCallRecord, Phases
  <2> QED BY <1>0, <1>2, <2>1, <2>2, MovedTyped
<1>9. CASE PathReads(c)
  <2>1. PICK list : list = NewList(toolCall[c].tool) OBVIOUS
  <2>2. box.agentPaths \in PathLists BY <1>0 DEF BoxRecord
  <2>3. list \in PathLists BY <2>1, <2>2, NewListTyped
  <2>4. toolCall' = [toolCall EXCEPT ![c] = [toolCall[c] EXCEPT !.phase = "persist", !.list = list]]
    BY <1>0, <1>9, <2>1 DEF PathReads
  <2>5. [toolCall[c] EXCEPT !.phase = "persist", !.list = list] \in ToolCallRecord
    BY <1>0, <2>3 DEF ToolCallRecord, Phases
  <2> QED BY <1>0, <1>2, <2>4, <2>5, MovedTyped
<1>10. ASSUME NEW tool \in ToolClasses, Begin(c, tool) PROVE PolicyTypeOK'
  <2>1. PICK phase : phase = FirstPhase(tool, session) OBVIOUS
  <2>2. PICK verified \in BOOLEAN : verified = WhollyReadOnly(box.mounts) BY DEF WhollyReadOnly
  <2>3. phase \in Phases BY <2>1, FirstPhaseTyped DEF Phases
  <2>4. toolCall' = [toolCall EXCEPT ![c] = [toolCall[c] EXCEPT !.tool = tool, !.facts = session, !.phase = phase,
                                                               !.verified = verified]]
    BY <1>0, <1>10, <2>1, <2>2 DEF Begin
  <2>5. [toolCall[c] EXCEPT !.tool = tool, !.facts = session, !.phase = phase, !.verified = verified] \in ToolCallRecord
    BY <1>0, <2>3 DEF ToolCallRecord
  <2> QED BY <1>0, <1>2, <2>4, <2>5, MovedTyped
<1> QED BY <1>3, <1>4, <1>5, <1>6, <1>7, <1>8, <1>9, <1>10

LEMMA RecreatedTyped ==
  ASSUME NEW b \in BoxRecord, NEW mounts \in MountMaps, NEW env \in SUBSET EnvNames, NEW paths \in PathLists
  PROVE  /\ Recreated([b EXCEPT !.mounts = mounts]) \in BoxRecord
         /\ Recreated([b EXCEPT !.mounts = mounts, !.env = env, !.paths = paths]) \in BoxRecord
         /\ [b EXCEPT !.paths = paths] \in BoxRecord /\ [b EXCEPT !.agentPaths = paths] \in BoxRecord
PROOF BY DEF BoxRecord, Recreated

\* Steps of a call that change the container.
LEMMA HandlerTyped ==
  ASSUME PolicyTypeOK, NEW c \in ToolCalls,
         Remount(c) \/ RunMounts(c) \/ LoadApplies(c) \/ PathPersists(c) \/ PathPushes(c)
  PROVE  PolicyTypeOK'
PROOF
<1>0. /\ session \in Facts /\ box \in BoxRecord /\ template \in Templates
      /\ toolCall \in [ToolCalls -> ToolCallRecord] /\ toolCall[c] \in ToolCallRecord
  BY PolicyTypeParts
<1>1. /\ session' = session /\ template' = template /\ policyDisturbances' = policyDisturbances
      /\ pathsRaced' \in BOOLEAN
  BY DEF PolicyTypeOK, Remount, RunMounts, LoadApplies, PathPersists, PathPushes
<1>2. ASSUME toolCall' \in [ToolCalls -> ToolCallRecord], box' \in BoxRecord PROVE PolicyTypeOK'
  BY <1>1, <1>2 DEF PolicyTypeOK, ToolCallRecord, BoxRecord
<1>3. /\ box.mounts \in MountMaps /\ box.env \in SUBSET EnvNames /\ box.paths \in PathLists
      /\ toolCall[c].seen \in MountMaps /\ toolCall[c].staged \in Templates /\ toolCall[c].list \in PathLists
  BY <1>0 DEF BoxRecord, ToolCallRecord
<1>4. CASE Remount(c)
  <2>1. PICK mounts : mounts = ReadOnlyMounts(toolCall[c].seen) OBVIOUS
  <2>2. mounts \in MountMaps BY <1>3, <2>1, ReadOnlyTyped
  <2>3. PICK b : b = Recreated([box EXCEPT !.mounts = mounts]) OBVIOUS
  <2>4. b \in BoxRecord BY <1>0, <1>3, <2>2, <2>3, RecreatedTyped
  <2>5. box' = b /\ toolCall' = Noted([toolCall EXCEPT ![c].phase = "run"], b, c) BY <1>4, <2>1, <2>3 DEF Remount
  <2>6. "run" \in Phases BY DEF Phases
  <2> QED BY <1>0, <1>2, <2>4, <2>5, <2>6, PhaseTyped, NotedTyped
<1>5. CASE RunMounts(c)
  <2>1. PICK kept : kept = IF toolCall[c].tool = "mount_add" THEN box.mounts ELSE NoMounts OBVIOUS
  <2>2. PICK mounts : mounts = [m \in DOMAIN kept \cup {"volume"} |-> IF m = "volume" THEN "rw" ELSE kept[m]] OBVIOUS
  <2>3. kept \in MountMaps BY <1>3, <2>1, SomeMountsTyped
  <2>4. mounts \in MountMaps BY <2>2, <2>3, WithVolumeTyped
  <2>5. PICK b : b = Recreated([box EXCEPT !.mounts = mounts]) OBVIOUS
  <2>6. b \in BoxRecord BY <1>0, <1>3, <2>4, <2>5, RecreatedTyped
  <2>7. box' = b /\ toolCall' = Noted([toolCall EXCEPT ![c].phase = "done"], b, c)
    BY <1>5, <2>1, <2>2, <2>5 DEF RunMounts
  <2>8. "done" \in Phases BY DEF Phases
  <2> QED BY <1>0, <1>2, <2>6, <2>7, <2>8, PhaseTyped, NotedTyped
<1>6. CASE LoadApplies(c)
  <2>1. PICK t \in Templates : t = toolCall[c].staged BY <1>3
  <2>2. PICK mounts : mounts = StagedMounts(t) OBVIOUS
  <2>3. PICK env : env = IF t.env = {} THEN box.env ELSE t.env OBVIOUS
  <2>4. PICK paths : paths = IF t.paths = <<>> THEN box.paths ELSE t.paths OBVIOUS
  <2>5. mounts \in MountMaps /\ env \in SUBSET EnvNames /\ paths \in PathLists
    BY <1>3, <2>2, <2>3, <2>4, StagedTyped
  <2>6. PICK b : b = Applied(t, box) OBVIOUS
  <2>7. b = Recreated([box EXCEPT !.mounts = mounts, !.env = env, !.paths = paths])
    BY <1>0, <2>2, <2>3, <2>4, <2>6 DEF Applied, BoxRecord
  <2>8. b \in BoxRecord BY <1>0, <2>5, <2>7, RecreatedTyped
  <2>9. PICK lost : lost = [mounts |-> Cardinality(DOMAIN box.mounts \ DOMAIN b.mounts),
                            env |-> Cardinality(box.env \ b.env),
                            paths |-> Cardinality({i \in 1..Len(box.paths) :
                                                     \A j \in 1..Len(b.paths) : box.paths[i] # b.paths[j]})]
    OBVIOUS
  <2>10. lost \in Counts
    <3>1. Cardinality({i \in 1..Len(box.paths) : \A j \in 1..Len(b.paths) : box.paths[i] # b.paths[j]}) \in 0..2
      BY <1>3, PathCount, Zenon
    <3>2. Cardinality(DOMAIN box.mounts \ DOMAIN b.mounts) \in 0..3 /\ Cardinality(box.env \ b.env) \in 0..2
      BY <1>3, MountCount, EnvCount
    <3> QED BY <2>9, <3>1, <3>2 DEF Counts
  <2>11. box' = b BY <1>6, <2>1, <2>6 DEF LoadApplies
  <2>12. toolCall' = Noted([toolCall EXCEPT ![c].phase = "done", ![c].lost = lost], b, c)
    BY <1>6, <2>1, <2>6, <2>9 DEF LoadApplies
  <2>13. [toolCall[c] EXCEPT !.phase = "done", !.lost = lost] \in ToolCallRecord
    BY <1>0, <2>10 DEF ToolCallRecord, Phases
  <2>14. [toolCall EXCEPT ![c].phase = "done", ![c].lost = lost]
          = [toolCall EXCEPT ![c] = [toolCall[c] EXCEPT !.phase = "done", !.lost = lost]]
    BY <1>0
  <2>15. [toolCall EXCEPT ![c].phase = "done", ![c].lost = lost] \in [ToolCalls -> ToolCallRecord]
    BY <1>0, <2>13, <2>14, MovedTyped
  <2> QED BY <1>2, <2>8, <2>11, <2>12, <2>15, NotedTyped
<1>7. CASE PathPersists(c)
  <2>1. box' = [box EXCEPT !.paths = toolCall[c].list] /\ toolCall' = Noted([toolCall EXCEPT ![c].phase = "push"], box, c)
    BY <1>7 DEF PathPersists
  <2>2. "push" \in Phases BY DEF Phases
  <2> QED BY <1>0, <1>2, <1>3, <2>1, <2>2, PhaseTyped, NotedTyped, RecreatedTyped
<1>8. CASE PathPushes(c)
  <2>1. box' = [box EXCEPT !.agentPaths = toolCall[c].list] /\ toolCall' = [toolCall EXCEPT ![c].phase = "done"]
    BY <1>8 DEF PathPushes, Phase
  <2>2. "done" \in Phases BY DEF Phases
  <2> QED BY <1>0, <1>2, <1>3, <2>1, <2>2, PhaseTyped, RecreatedTyped
<1> QED BY <1>4, <1>5, <1>6, <1>7, <1>8

LEMMA PolicyMeanwhileTyped ==
  ASSUME PolicyTypeOK, SwitchSession \/ OutsideMounts \/ EditTemplate
  PROVE  PolicyTypeOK'
PROOF
<1>0. /\ session \in Facts /\ box \in BoxRecord /\ template \in Templates
      /\ toolCall \in [ToolCalls -> ToolCallRecord]
  BY PolicyTypeParts
<1>1. policyDisturbances' \in 0..MaxPolicyDisturbances /\ pathsRaced' \in BOOLEAN
  <2>1. policyDisturbances \in 0..MaxPolicyDisturbances /\ pathsRaced \in BOOLEAN BY DEF PolicyTypeOK
  <2>2. /\ policyDisturbances < MaxPolicyDisturbances
        /\ policyDisturbances' = policyDisturbances + 1 /\ pathsRaced' = pathsRaced
    BY DEF SwitchSession, OutsideMounts, EditTemplate
  <2>3. policyDisturbances + 1 \in 0..MaxPolicyDisturbances BY <2>1, <2>2, OneMoreCounted
  <2> QED BY <2>1, <2>2, <2>3
<1>2. ASSUME session' \in Facts, box' \in BoxRecord, template' \in Templates, toolCall' \in [ToolCalls -> ToolCallRecord]
      PROVE  PolicyTypeOK'
  BY <1>1, <1>2 DEF PolicyTypeOK, ToolCallRecord, BoxRecord
<1>3. CASE SwitchSession
  <2>1. PICK mode \in Modes : session' = [session EXCEPT !.mode = mode] BY <1>3 DEF SwitchSession
  <2>2. session' \in Facts BY <1>0, <2>1 DEF Facts
  <2> QED BY <1>0, <1>2, <1>3, <2>2 DEF SwitchSession
<1>4. CASE OutsideMounts
  <2>1. PICK mounts \in {[m \in {"project", "scratch"} |-> "rw"], [m \in {"project", "volume"} |-> "ro"]} :
          /\ box' = Recreated([box EXCEPT !.mounts = mounts])
          /\ toolCall' = [c \in ToolCalls |-> [toolCall[c] EXCEPT !.verified = @ \/ WhollyReadOnly(mounts), !.touched = TRUE]]
    BY <1>4 DEF OutsideMounts
  <2>2. mounts \in MountMaps BY SomeMountsTyped
  <2>3. box.env \in SUBSET EnvNames /\ box.paths \in PathLists BY <1>0 DEF BoxRecord
  <2>4. box' \in BoxRecord BY <1>0, <2>1, <2>2, <2>3, RecreatedTyped
  <2>5. ASSUME NEW c \in ToolCalls PROVE toolCall'[c] \in ToolCallRecord
    <3>1. toolCall[c] \in ToolCallRecord BY <1>0
    <3>2. PICK verified \in BOOLEAN : verified = (toolCall[c].verified \/ WhollyReadOnly(mounts))
      BY <3>1 DEF ToolCallRecord, WhollyReadOnly
    <3>3. toolCall'[c] = [toolCall[c] EXCEPT !.verified = verified, !.touched = TRUE] BY <2>1, <3>2
    <3> QED BY <3>1, <3>3 DEF ToolCallRecord
  <2>6. toolCall' = [c \in ToolCalls |-> toolCall'[c]] BY <2>1
  <2>7. toolCall' \in [ToolCalls -> ToolCallRecord] BY <2>5, <2>6
  <2> QED BY <1>0, <1>2, <1>4, <2>4, <2>7 DEF OutsideMounts
<1>5. CASE EditTemplate
  <2>1. \A c \in ToolCalls : [toolCall[c] EXCEPT !.touched = TRUE] \in ToolCallRecord BY <1>0 DEF ToolCallRecord
  <2>2. toolCall' \in [ToolCalls -> ToolCallRecord] BY <1>5, <2>1 DEF EditTemplate
  <2> QED BY <1>0, <1>2, <1>5, <2>2 DEF EditTemplate
<1> QED BY <1>3, <1>4, <1>5

\* The calls, the container and the template file are of the shapes the code
\* gives them (approval.ts, tool-handlers.ts), for any number of calls, of
\* templates and of changes from outside: a call carries a document of the file
\* and a list of names, and what it counts is in the range of what there is.
THEOREM PolicyTypes == PolicySpec => []PolicyTypeOK
PROOF
<1>1. PolicyInit => PolicyTypeOK
  <2> SUFFICES ASSUME PolicyInit PROVE PolicyTypeOK OBVIOUS
  <2>1. session \in Facts /\ template \in Templates BY PolicyAssumption DEF PolicyInit
  <2>2. box \in BoxRecord
    <3>1. {"x"} \in SUBSET EnvNames /\ <<"a">> \in PathLists BY DEF EnvNames, PathLists
    <3> QED BY <3>1, SomeMountsTyped DEF PolicyInit, FirstBox, BoxRecord
  <2>3. (CHOOSE t \in Templates : TRUE) \in Templates BY <2>1
  <2>4. NewCall("listing", session) \in ToolCallRecord
    <3>1. "listing" \in ToolClasses /\ "idle" \in Phases /\ <<>> \in PathLists
      BY DEF ToolClasses, ReadOnlyClass, Phases, PathLists
    <3> QED BY <2>1, <2>3, <3>1, SomeMountsTyped DEF NewCall, ToolCallRecord
  <2>5. toolCall \in [ToolCalls -> ToolCallRecord] BY <2>4 DEF PolicyInit
  <2>6. pathsRaced \in BOOLEAN /\ policyDisturbances \in 0..MaxPolicyDisturbances
    <3>1. pathsRaced = FALSE /\ policyDisturbances = 0 BY DEF PolicyInit
    <3> QED BY <3>1, NoneCounted
  <2> QED BY <2>1, <2>2, <2>5, <2>6 DEF PolicyTypeOK, BoxRecord, ToolCallRecord
<1>2. PolicyTypeOK /\ [PolicyNext]_policyVars => PolicyTypeOK'
  <2> SUFFICES ASSUME PolicyTypeOK, [PolicyNext]_policyVars PROVE PolicyTypeOK' OBVIOUS
  <2>1. CASE UNCHANGED policyVars BY <2>1 DEF policyVars, PolicyTypeOK
  <2>2. ASSUME NEW c \in ToolCalls, (\E tool \in ToolClasses : Begin(c, tool)) \/ CallStep(c) PROVE PolicyTypeOK'
    BY <2>2, CallStepTyped, HandlerTyped DEF CallStep
  <2>3. CASE SwitchSession \/ OutsideMounts \/ EditTemplate BY <2>3, PolicyMeanwhileTyped
  <2> QED BY <2>1, <2>2, <2>3 DEF PolicyNext
<1> QED BY <1>1, <1>2, PTL DEF PolicySpec
=============================================================================
