------------------------ MODULE TerminalSessionsProofs ------------------------
(***************************************************************************)
(* Type correctness of TerminalSessions, the ownership of a shell by one    *)
(* stream, the report of its end, and the agreement of the two indexes, for *)
(* any number of tabs, pages and streams.                                   *)
(***************************************************************************)
EXTENDS TerminalSessions, SequenceTheorems, TLAPS

-------------------------------------------------------------------------------
(* The inductive invariant.                                                *)

\* What a request holds at each place of its handler.
Shaped(r) ==
    /\ stream[r].pc = "unused" <=> r > opened
    /\ stream[r].pc # "unused" => stream[r].page \in Page
    /\ stream[r].pc = "starting" => stream[r].term = r
    /\ stream[r].pc # "open" => stream[r].told = <<>>
    /\ stream[r].pc = "open" => stream[r].term \in Request

\* How far the shell of a request is, and that only a shell which has started is
\* indexed.
Phased(t) ==
    /\ guest[t] = "starting" <=> stream[t].pc = "starting"
    /\ stream[t].pc \in {"unused", "sent", "looking"} => guest[t] = "none"
    /\ t \in byId => guest[t] \in {"running"} \cup Ends

\* The listener of a shell is a stream attached to it which was told what there
\* is to tell, and nothing of a successor.
Owned(t) ==
    listener[t] # None =>
        /\ stream[listener[t]].pc = "open"
        /\ stream[listener[t]].term = t
        /\ stream[listener[t]].told = Greeting(t)
        /\ guest[t] \in {"running"} \cup Ends

\* Who believes to be attached is the listener.
Believed(r) == Attached(r) => listener[stream[r].term] = r

Inv ==
    /\ TypeOK
    /\ \A r \in Request : Shaped(r)
    /\ \A t \in Request : Phased(t)
    /\ \A t \in Request : Owned(t)
    /\ \A r \in Request : Believed(r)
    /\ Indexed

-------------------------------------------------------------------------------
(* Frames.                                                                 *)

LEMMA GreetingTyped ==
    ASSUME NEW t
    PROVE  /\ Greeting(t) \in Told
           /\ Greeting(t) # <<>>
           /\ Last(Greeting(t)) # "detached"
           /\ guest[t] \in Ends => Last(Greeting(t)) = guest[t]
<1>1. CASE guest[t] \in Ends
  BY <1>1 DEF Greeting, Told, Last, Ends
<1>2. CASE guest[t] \notin Ends
  BY <1>2 DEF Greeting, Told, Last
<1> QED BY <1>1, <1>2

LEMMA AppendToOne ==
    ASSUME NEW a, NEW c
    PROVE  Append(<<a>>, c) = <<a, c>>
<1> DEFINE S == {a, c}
<1>1. <<a>> \in Seq(S) /\ c \in S
  OBVIOUS
<1>2. Append(<<a>>, c) \in Seq(S) /\ <<a, c>> \in Seq(S)
  BY <1>1
<1>3. Len(Append(<<a>>, c)) = 2 /\ Len(<<a, c>>) = 2
  BY <1>1
<1>4. \A i \in 1..2 : Append(<<a>>, c)[i] = <<a, c>>[i]
  BY <1>1
<1> QED BY <1>2, <1>3, <1>4, SeqEqual

LEMMA AppendToTwo ==
    ASSUME NEW a, NEW b, NEW c
    PROVE  Append(<<a, b>>, c) = <<a, b, c>>
<1> DEFINE S == {a, b, c}
<1>1. <<a, b>> \in Seq(S) /\ c \in S
  OBVIOUS
<1>2. Append(<<a, b>>, c) \in Seq(S) /\ <<a, b, c>> \in Seq(S)
  BY <1>1
<1>3. Len(Append(<<a, b>>, c)) = 3 /\ Len(<<a, b, c>>) = 3
  BY <1>1
<1>4. \A i \in 1..3 : Append(<<a, b>>, c)[i] = <<a, b, c>>[i]
  BY <1>1
<1> QED BY <1>2, <1>3, <1>4, SeqEqual

LEMMA LastOfThree ==
    ASSUME NEW a, NEW b, NEW c
    PROVE  Last(<<a, b, c>>) = c
<1>1. Len(<<a, b, c>>) = 3
  OBVIOUS
<1>2. <<a, b, c>>[3] = c
  OBVIOUS
<1> QED BY <1>1, <1>2 DEF Last

LEMMA LastOfTwo ==
    ASSUME NEW a, NEW b
    PROVE  Last(<<a, b>>) = b
<1>1. Len(<<a, b>>) = 2
  OBVIOUS
<1>2. <<a, b>>[2] = b
  OBVIOUS
<1> QED BY <1>1, <1>2 DEF Last

LEMMA SuccessorTold ==
    ASSUME NEW t
    PROVE  /\ Append(Greeting(t), "detached") \in Told
           /\ Last(Append(Greeting(t), "detached")) = "detached"
<1>1. CASE guest[t] \in Ends
  <2>1. Append(Greeting(t), "detached") = <<"ready", guest[t], "detached">>
    BY <1>1, AppendToTwo DEF Greeting
  <2>2. <<"ready", guest[t], "detached">> \in Told
    BY <1>1 DEF Told
  <2> QED BY <2>1, <2>2, LastOfThree, ZenonT(40)
<1>2. CASE guest[t] \notin Ends
  <2>1. Append(Greeting(t), "detached") = <<"ready", "detached">>
    BY <1>2, AppendToOne DEF Greeting
  <2>2. <<"ready", "detached">> \in Told
    BY DEF Told
  <2> QED BY <2>1, <2>2, LastOfTwo
<1> QED BY <1>1, <1>2

LEMMA EndAppended ==
    ASSUME NEW how \in Ends
    PROVE  /\ Append(<<"ready">>, how) = <<"ready", how>>
           /\ <<"ready", how>> \in Told
<1>1. Append(<<"ready">>, how) = <<"ready", how>>
  BY AppendToOne
<1>2. <<"ready", how>> \in Told
  BY DEF Told
<1> QED BY <1>1, <1>2

-------------------------------------------------------------------------------
(* Steps that touch one stream, or none.                                   *)

\* Only an open stream listens.
LEMMA Unheard ==
    ASSUME Inv, NEW r \in Request, stream[r].pc # "open"
    PROVE  \A t \in Request : listener[t] # r
BY NoneAssumption DEF Inv, Owned

\* An indexed shell belongs to a request that was made.
LEMMA EntryMade ==
    ASSUME Inv, NEW k \in Tab, entries[k] # None
    PROVE  /\ entries[k] \in Request
           /\ entries[k] \in byId
           /\ TabOf(entries[k]) = k
           /\ guest[entries[k]] \in {"running"} \cup Ends
           /\ stream[entries[k]].pc \notin {"unused", "sent", "looking", "starting"}
<1>1. entries[k] \in Request /\ entries[k] \in byId /\ TabOf(entries[k]) = k
  BY DEF Inv, TypeOK, Indexed
<1>2. guest[entries[k]] \in {"running"} \cup Ends
  BY <1>1 DEF Inv, Phased
<1>3. guest[entries[k]] # "none" /\ guest[entries[k]] # "starting"
  BY <1>2 DEF Ends
<1> QED BY <1>1, <1>2, <1>3 DEF Inv, Phased

\* Neither streams nor shells change.
LEMMA HostOnly ==
    ASSUME Inv, UNCHANGED <<stream, listener, guest, opened>>, byId' \subseteq byId
    PROVE  /\ \A r \in Request : Shaped(r)'
           /\ \A t \in Request : Phased(t)'
           /\ \A t \in Request : Owned(t)'
           /\ \A r \in Request : Believed(r)'
<1>1. \A r \in Request : Shaped(r)'
  BY DEF Inv, Shaped
<1>2. \A t \in Request : Phased(t)'
  BY DEF Inv, Phased
<1>3. \A t \in Request : Owned(t)'
  BY DEF Inv, Owned, Greeting
<1>4. \A r \in Request : Believed(r)'
  BY DEF Inv, Believed, Attached
<1> QED BY <1>1, <1>2, <1>3, <1>4

\* One stream changes which is not attached afterwards.
LEMMA OneStream ==
    ASSUME Inv, NEW r \in Request,
           \A q \in Request \ {r} : stream'[q] = stream[q],
           stream'[r].told = <<>>,
           listener' = [t \in Request |-> IF listener[t] = r THEN None ELSE listener[t]],
           \A t \in Request : guest[t] \in {"running"} \cup Ends => guest'[t] = guest[t]
    PROVE  /\ \A t \in Request : Owned(t)'
           /\ \A q \in Request : Believed(q)'
<1>1. \A t \in Request : Owned(t)'
  <2> SUFFICES ASSUME NEW t \in Request, listener'[t] # None
               PROVE  /\ stream'[listener'[t]].pc = "open"
                      /\ stream'[listener'[t]].term = t
                      /\ stream'[listener'[t]].told = Greeting(t)'
                      /\ guest'[t] \in {"running"} \cup Ends
    BY DEF Owned
  <2>1. listener'[t] = listener[t] /\ listener[t] # r /\ listener[t] # None
    OBVIOUS
  <2>2. listener[t] \in Request \ {r}
    BY <2>1 DEF Inv, TypeOK
  <2>3. Owned(t)
    BY DEF Inv
  <2>4. guest'[t] = guest[t]
    BY <2>1, <2>3 DEF Owned
  <2>5. Greeting(t)' = Greeting(t)
    BY <2>4 DEF Greeting
  <2> QED BY <2>1, <2>2, <2>3, <2>4, <2>5 DEF Owned
<1>2. \A q \in Request : Believed(q)'
  <2> SUFFICES ASSUME NEW q \in Request, Attached(q)'
               PROVE  listener'[stream'[q].term] = q
    BY DEF Believed
  <2>1. q # r
    BY DEF Attached
  <2>2. stream'[q] = stream[q]
    BY <2>1
  <2>3. Attached(q)
    BY <2>2 DEF Attached
  <2>4. stream[q].term \in Request
    BY <2>3 DEF Inv, Shaped, Attached
  <2>5. listener[stream[q].term] = q
    BY <2>3 DEF Inv, Believed
  <2> QED BY <2>1, <2>2, <2>4, <2>5
<1> QED BY <1>1, <1>2

LEMMA NothingHeard ==
    ASSUME Inv, NEW r \in Request, stream[r].pc # "open"
    PROVE  listener = [t \in Request |-> IF listener[t] = r THEN None ELSE listener[t]]
BY Unheard DEF Inv, TypeOK

-------------------------------------------------------------------------------
(* The actions that leave streams and shells alone.                        *)

\* drop leaves the entries of the other tabs indexed.
LEMMA DroppedKeeps ==
    ASSUME Inv, NEW k \in Tab, Dropped(k),
           \A r \in Request : stream[r].pc # "unused" => TabOf(r)' = TabOf(r)
    PROVE  /\ Indexed'
           /\ entries' \in [Tab -> Request \cup {None}]
           /\ byId' \subseteq byId
<1>1. entries \in [Tab -> Request \cup {None}]
  BY DEF Inv, TypeOK
<1>2. entries' \in [Tab -> Request \cup {None}]
  BY <1>1 DEF Dropped
<1>3. byId' \subseteq byId
  BY DEF Dropped
<1>4. Indexed'
  <2> SUFFICES ASSUME NEW j \in Tab, entries'[j] # None
               PROVE  entries'[j] \in byId' /\ Shows[stream'[entries'[j]].page] = j
    BY DEF Indexed, TabOf
  <2>1. j # k /\ entries'[j] = entries[j] /\ entries[j] # None
    BY <1>1 DEF Dropped
  <2>2. /\ entries[j] \in Request
        /\ entries[j] \in byId
        /\ TabOf(entries[j]) = j
        /\ stream[entries[j]].pc # "unused"
    BY <2>1, EntryMade
  <2>3. Shows[stream'[entries[j]].page] = Shows[stream[entries[j]].page]
    BY <2>2 DEF TabOf
  <2>4. entries[j] # entries[k]
    BY <2>1, <2>2, EntryMade
  <2> QED BY <2>1, <2>2, <2>3, <2>4 DEF Dropped, TabOf
<1> QED BY <1>2, <1>3, <1>4

LEMMA ForgottenKeeps ==
    ASSUME Inv, NEW T \in SUBSET Request, Forgotten(T), UNCHANGED stream
    PROVE  /\ Indexed'
           /\ entries' \in [Tab -> Request \cup {None}]
           /\ byId' \subseteq byId
           /\ stale' \subseteq Request
           /\ closing' \subseteq Request
<1>1. entries \in [Tab -> Request \cup {None}] /\ stale \subseteq Request
        /\ closing \subseteq Request
  BY DEF Inv, TypeOK
<1>2. Indexed'
  BY <1>1 DEF Inv, Indexed, Forgotten, TabOf
<1> QED BY <1>1, <1>2 DEF Forgotten

LEMMA RetainedMade == Inv => Retained \subseteq Request
BY DEF Inv, TypeOK, Retained

\* A page that has left holds nothing.
LEMMA LeaveKeeps ==
    ASSUME Inv, NEW w \in Page, Leave(w)
    PROVE  Inv'
<1>1. TypeOK'
  BY DEF Inv, TypeOK, Leave, host, Blank, PageState, Status
<1>2. Indexed'
  BY DEF Inv, Indexed, Leave, host, TabOf
<1> QED BY <1>1, <1>2, HostOnly DEF Inv, Leave, host

LEMMA StreamFailsKeeps ==
    ASSUME Inv, NEW w \in Page, StreamFails(w)
    PROVE  Inv'
<1>1. TypeOK'
  BY ZenonT(40) DEF Inv, TypeOK, StreamFails, host, PageState, Status
<1>2. Indexed'
  BY DEF Inv, Indexed, StreamFails, host, TabOf
<1> QED BY <1>1, <1>2, HostOnly DEF Inv, StreamFails, host

LEMMA UseKeeps ==
    ASSUME Inv, NEW w \in Page, Use(w)
    PROVE  Inv'
<1>1. TypeOK'
  BY DEF Inv, TypeOK, Use
<1>2. Indexed'
  BY DEF Inv, Indexed, Use, TabOf
<1> QED BY <1>1, <1>2, HostOnly DEF Inv, Use

LEMMA AgeKeeps ==
    ASSUME Inv, NEW t \in Request, Age(t)
    PROVE  Inv'
<1>1. TypeOK'
  BY DEF Inv, TypeOK, Age
<1>2. Indexed'
  BY DEF Inv, Indexed, Age, TabOf
<1> QED BY <1>1, <1>2, HostOnly DEF Inv, Age

LEMMA CloseKeeps ==
    ASSUME Inv, NEW t \in Request, Close(t)
    PROVE  Inv'
<1>1. CASE t \in byId
  <2>1. /\ Dropped(TabOf(t))
        /\ stale' \subseteq stale
        /\ closing' = closing \cup {t}
        /\ closes' = closes \ {t}
    BY <1>1 DEF Close
  <2>2. stream[t].pc # "unused"
    BY <1>1 DEF Inv, Phased, Ends
  <2>3. TabOf(t) \in Tab
    BY <2>2, ShowsAssumption DEF Inv, Shaped, TabOf
  <2>4. /\ Indexed'
        /\ entries' \in [Tab -> Request \cup {None}]
        /\ byId' \subseteq byId
    BY <2>1, <2>3, DroppedKeeps DEF Close, TabOf
  <2>5. TypeOK'
    BY <2>1, <2>4 DEF Inv, TypeOK, Close
  <2> QED BY <2>4, <2>5, HostOnly DEF Inv, Close
<1>2. CASE t \notin byId
  <2>1. TypeOK'
    BY <1>2 DEF Inv, TypeOK, Close
  <2>2. Indexed'
    BY <1>2 DEF Inv, Indexed, Close, TabOf
  <2> QED BY <1>2, <2>1, <2>2, HostOnly DEF Inv, Close
<1> QED BY <1>1, <1>2

LEMMA ReapKeeps ==
    ASSUME Inv, Reap
    PROVE  Inv'
<1>1. Due \in SUBSET Request
  BY RetainedMade DEF Due
<1>2. /\ Indexed'
      /\ entries' \in [Tab -> Request \cup {None}]
      /\ byId' \subseteq byId
      /\ stale' \subseteq Request
      /\ closing' \subseteq Request
  BY <1>1, ForgottenKeeps DEF Reap
<1>3. TypeOK'
  BY <1>2 DEF Inv, TypeOK, Reap
<1> QED BY <1>2, <1>3, HostOnly DEF Inv, Reap

LEMMA DisposeKeeps ==
    ASSUME Inv, Dispose
    PROVE  Inv'
<1>1. Retained \in SUBSET Request
  BY RetainedMade
<1>2. /\ Indexed'
      /\ entries' \in [Tab -> Request \cup {None}]
      /\ byId' \subseteq byId
      /\ stale' \subseteq Request
      /\ closing' \subseteq Request
  BY <1>1, ForgottenKeeps DEF Dispose
<1>3. TypeOK'
  BY <1>2 DEF Inv, TypeOK, Dispose
<1> QED BY <1>2, <1>3, HostOnly DEF Inv, Dispose

-------------------------------------------------------------------------------
(* The actions that move one stream.                                       *)

LEMMA OverTyped ==
    ASSUME Inv, NEW r \in Request, stream[r].pc # "unused", stream' = Over(r)
    PROVE  /\ stream' \in [Request -> Stream]
           /\ \A q \in Request \ {r} : stream'[q] = stream[q]
           /\ stream'[r].told = <<>>
           /\ stream'[r].pc = "over"
           /\ stream'[r].page = stream[r].page
<1>1. stream \in [Request -> Stream] /\ stream[r].page \in Page
  BY DEF Inv, TypeOK, Shaped
<1>2. [Unused EXCEPT !.page = stream[r].page, !.pc = "over"] \in Stream
  BY <1>1 DEF Unused, Stream, Told, PC
<1> QED BY <1>1, <1>2 DEF Over, Unused

LEMMA ConnectKeeps ==
    ASSUME Inv, NEW w \in Page, NEW reopen \in BOOLEAN, Connect(w, reopen)
    PROVE  Inv'
<1> DEFINE r == opened + 1
<1>1. opened \in Nat /\ r \in Request /\ opened < r /\ opened' = r
  BY RequestsAssumption DEF Inv, TypeOK, Request, Connect
<1>2. stream \in [Request -> Stream] /\ stream[r].pc = "unused"
  BY <1>1 DEF Inv, TypeOK, Shaped
<1>3. /\ \A q \in Request \ {r} : stream'[q] = stream[q]
      /\ stream'[r].page = w
      /\ stream'[r].pc = "sent"
      /\ stream'[r].told = stream[r].told
      /\ stream' \in [Request -> Stream]
  BY <1>1, <1>2 DEF Connect, Stream, PC
<1>4. stream'[r].told = <<>>
  BY <1>1, <1>2, <1>3 DEF Inv, Shaped
<1> HIDE DEF r
<1>5. TypeOK'
  <2>1. page' \in [Page -> PageState]
    BY <1>1 DEF Inv, TypeOK, Connect, r, PageState, Status
  <2>2. closes' \subseteq Request
    BY DEF Inv, TypeOK, Connect, PageState
  <2>3. opened' \in 0..MaxRequests
    BY <1>1, RequestsAssumption DEF Request
  <2> QED BY <1>3, <2>1, <2>2, <2>3 DEF Inv, TypeOK, Connect, host
<1>6. \A q \in Request : Shaped(q)'
  <2> SUFFICES ASSUME NEW q \in Request
               PROVE  Shaped(q)'
    OBVIOUS
  <2>1. CASE q = r
    BY <1>1, <1>3, <1>4, <2>1, RequestsAssumption DEF Shaped, Request
  <2>2. CASE q # r
    <3>1. q > opened <=> q > r
      BY <1>1, <2>2 DEF Request, r
    <3> QED BY <1>1, <1>3, <2>2, <3>1 DEF Inv, Shaped
  <2> QED BY <2>1, <2>2
<1>7. \A t \in Request : Phased(t)'
  BY <1>1, <1>2, <1>3 DEF Inv, Phased, Connect, host
<1>8. (\A t \in Request : Owned(t)') /\ (\A q \in Request : Believed(q)')
  BY <1>1, <1>2, <1>3, <1>4, NothingHeard, OneStream DEF Connect, host
<1>9. Indexed'
  BY <1>1, <1>2, <1>3, EntryMade DEF Inv, Indexed, Connect, host, TabOf
<1> QED BY <1>5, <1>6, <1>7, <1>8, <1>9 DEF Inv

LEMMA ResolveKeeps ==
    ASSUME Inv, NEW r \in Request, Resolve(r)
    PROVE  Inv'
<1>1. stream \in [Request -> Stream] /\ stream[r].pc = "sent" /\ stream[r].page \in Page
  BY DEF Inv, TypeOK, Shaped, Resolve
<1>2. stream' = [stream EXCEPT ![r].pc = "looking", ![r].reopen = FALSE]
  BY DEF Resolve
<1>3. stream[r].told = <<>>
  BY <1>1 DEF Inv, Shaped
<1>4. /\ \A q \in Request \ {r} : stream'[q] = stream[q]
      /\ stream'[r].page = stream[r].page
      /\ stream'[r].pc = "looking"
      /\ stream'[r].told = <<>>
      /\ stream' \in [Request -> Stream]
  BY <1>1, <1>2, <1>3, ZenonT(40) DEF Stream, PC
<1>5. TabOf(r) \in Tab
  BY <1>1, ShowsAssumption DEF TabOf
<1>6. \A q \in Request : TabOf(q)' = TabOf(q)
  BY <1>4 DEF TabOf
<1>7. Dropped(TabOf(r))
  BY DEF Resolve
<1>8. /\ Indexed'
      /\ entries' \in [Tab -> Request \cup {None}]
      /\ byId' \subseteq byId
  BY <1>5, <1>6, <1>7, DroppedKeeps
<1>9. TypeOK'
  BY <1>4, <1>8 DEF Inv, TypeOK, Resolve
<1>10. \A q \in Request : Shaped(q)'
  BY <1>1, <1>4 DEF Inv, Shaped, Resolve
<1>11. \A t \in Request : Phased(t)'
  BY <1>1, <1>4, <1>8 DEF Inv, Phased, Resolve
<1>12. (\A t \in Request : Owned(t)') /\ (\A q \in Request : Believed(q)')
  BY <1>1, <1>4, NothingHeard, OneStream DEF Resolve
<1> QED BY <1>8, <1>9, <1>10, <1>11, <1>12 DEF Inv

LEMMA LookupFailsKeeps ==
    ASSUME Inv, NEW r \in Request, LookupFails(r)
    PROVE  Inv'
<1>1. stream[r].pc = "looking" /\ stream' = Over(r)
  BY DEF LookupFails
<1>2. /\ stream' \in [Request -> Stream]
      /\ \A q \in Request \ {r} : stream'[q] = stream[q]
      /\ stream'[r].told = <<>>
      /\ stream'[r].pc = "over"
      /\ stream'[r].page = stream[r].page
  BY <1>1, OverTyped
<1>3. TypeOK'
  BY <1>2 DEF Inv, TypeOK, LookupFails, host
<1>4. \A q \in Request : Shaped(q)'
  BY <1>1, <1>2 DEF Inv, Shaped, LookupFails
<1>5. \A t \in Request : Phased(t)'
  BY <1>1, <1>2 DEF Inv, Phased, LookupFails, host
<1>6. (\A t \in Request : Owned(t)') /\ (\A q \in Request : Believed(q)')
  BY <1>1, <1>2, NothingHeard, OneStream DEF LookupFails, host
<1>7. Indexed'
  BY <1>2 DEF Inv, TypeOK, Indexed, LookupFails, host, TabOf
<1> QED BY <1>3, <1>4, <1>5, <1>6, <1>7 DEF Inv

LEMMA StartKeeps ==
    ASSUME Inv, NEW r \in Request, Start(r)
    PROVE  Inv'
<1>1. stream \in [Request -> Stream] /\ stream[r].pc = "looking" /\ stream[r].told = <<>>
  BY DEF Inv, TypeOK, Shaped, Start
<1>2. stream' = [stream EXCEPT ![r].pc = "starting", ![r].term = r]
  BY DEF Start
<1>3. /\ \A q \in Request \ {r} : stream'[q] = stream[q]
      /\ stream'[r].page = stream[r].page
      /\ stream'[r].pc = "starting"
      /\ stream'[r].term = r
      /\ stream'[r].told = <<>>
      /\ stream' \in [Request -> Stream]
  BY <1>1, <1>2, ZenonT(40) DEF Stream, PC
<1>4. guest[r] = "none" /\ r \notin byId
  BY <1>1 DEF Inv, Phased, Ends
<1>5. /\ guest' \in [Request -> {"none", "starting", "running"} \cup Ends]
      /\ guest'[r] = "starting"
      /\ \A t \in Request \ {r} : guest'[t] = guest[t]
  BY DEF Inv, TypeOK, Start
<1>6. TypeOK'
  BY <1>3, <1>5 DEF Inv, TypeOK, Start, host
<1>7. \A q \in Request : Shaped(q)'
  BY <1>1, <1>3 DEF Inv, Shaped, Start
<1>8. \A t \in Request : Phased(t)'
  BY <1>1, <1>3, <1>4, <1>5 DEF Inv, Phased, Start, host
<1>9. (\A t \in Request : Owned(t)') /\ (\A q \in Request : Believed(q)')
  <2>1. \A t \in Request : guest[t] \in {"running"} \cup Ends => guest'[t] = guest[t]
    BY <1>4, <1>5 DEF Ends
  <2> QED BY <1>1, <1>3, <2>1, NothingHeard, OneStream DEF Start, host
<1>10. Indexed'
  BY <1>3 DEF Inv, TypeOK, Indexed, Start, host, TabOf
<1> QED BY <1>6, <1>7, <1>8, <1>9, <1>10 DEF Inv

LEMMA StartFailsKeeps ==
    ASSUME Inv, NEW r \in Request, StartFails(r)
    PROVE  Inv'
<1>1. stream[r].pc = "starting" /\ stream' = Over(r)
  BY DEF StartFails
<1>2. /\ stream' \in [Request -> Stream]
      /\ \A q \in Request \ {r} : stream'[q] = stream[q]
      /\ stream'[r].told = <<>>
      /\ stream'[r].pc = "over"
      /\ stream'[r].page = stream[r].page
  BY <1>1, OverTyped
<1>3. guest[r] = "starting" /\ r \notin byId
  BY <1>1 DEF Inv, Phased, Ends
<1>4. /\ guest' \in [Request -> {"none", "starting", "running"} \cup Ends]
      /\ guest'[r] = "error"
      /\ \A t \in Request \ {r} : guest'[t] = guest[t]
  BY DEF Inv, TypeOK, StartFails, Ends
<1>5. TypeOK'
  BY <1>2, <1>4 DEF Inv, TypeOK, StartFails, host
<1>6. \A q \in Request : Shaped(q)'
  BY <1>1, <1>2 DEF Inv, Shaped, StartFails
<1>7. \A t \in Request : Phased(t)'
  BY <1>1, <1>2, <1>3, <1>4 DEF Inv, Phased, StartFails, host, Ends
<1>8. (\A t \in Request : Owned(t)') /\ (\A q \in Request : Believed(q)')
  <2>1. \A t \in Request : guest[t] \in {"running"} \cup Ends => guest'[t] = guest[t]
    BY <1>3, <1>4 DEF Ends
  <2> QED BY <1>1, <1>2, <2>1, NothingHeard, OneStream DEF StartFails, host
<1>9. Indexed'
  BY <1>2 DEF Inv, TypeOK, Indexed, StartFails, host, TabOf
<1> QED BY <1>5, <1>6, <1>7, <1>8, <1>9 DEF Inv

\* A stream that detaches leaves its shell without a listener.
LEMMA AbortArrivesKeeps ==
    ASSUME Inv, NEW r \in Request, AbortArrives(r)
    PROVE  Inv'
<1>1. stream \in [Request -> Stream] /\ stream[r].pc # "unused"
  BY DEF Inv, TypeOK, AbortArrives
<1>2. listener' = [t \in Request |-> IF listener[t] = r THEN None ELSE listener[t]]
  BY DEF AbortArrives
<1>3. listener' \in [Request -> Request \cup {None}]
  BY <1>2 DEF Inv, TypeOK
<1>4. /\ stream' \in [Request -> Stream]
      /\ \A q \in Request \ {r} : stream'[q] = stream[q]
      /\ stream'[r].told = <<>>
      /\ stream'[r].page = stream[r].page
  <2>1. CASE stream[r].pc = "starting"
    <3>1. stream' = [stream EXCEPT ![r].aborted = TRUE] /\ stream[r].told = <<>>
      BY <2>1 DEF AbortArrives, Inv, Shaped
    <3> QED BY <1>1, <3>1 DEF Stream
  <2>2. CASE stream[r].pc # "starting"
    <3>1. stream' = Over(r)
      BY <2>2 DEF AbortArrives
    <3> QED BY <1>1, <3>1, OverTyped
  <2> QED BY <2>1, <2>2
<1>5. \/ /\ stream[r].pc = "starting" /\ stream'[r].pc = "starting"
         /\ stream'[r].term = stream[r].term
      \/ stream[r].pc # "starting" /\ stream'[r].pc = "over"
  <2>1. CASE stream[r].pc = "starting"
    <3>1. stream' = [stream EXCEPT ![r].aborted = TRUE]
      BY <2>1 DEF AbortArrives
    <3>2. stream[r] \in Stream
      BY <1>1
    <3>3. stream'[r] = [stream[r] EXCEPT !.aborted = TRUE]
      BY <1>1, <3>1
    <3> QED BY <2>1, <3>2, <3>3 DEF Stream
  <2>2. CASE stream[r].pc # "starting"
    <3>1. stream' = Over(r)
      BY <2>2 DEF AbortArrives
    <3> QED BY <1>1, <2>2, <3>1, OverTyped
  <2> QED BY <2>1, <2>2
<1>6. TypeOK'
  BY <1>3, <1>4 DEF Inv, TypeOK, AbortArrives
<1>7. \A q \in Request : Shaped(q)'
  BY <1>1, <1>4, <1>5 DEF Inv, Shaped, AbortArrives
<1>8. \A t \in Request : Phased(t)'
  BY <1>1, <1>4, <1>5 DEF Inv, Phased, AbortArrives
<1>9. (\A t \in Request : Owned(t)') /\ (\A q \in Request : Believed(q)')
  BY <1>2, <1>4, OneStream DEF AbortArrives
<1>10. Indexed'
  BY <1>4 DEF Inv, TypeOK, Indexed, AbortArrives, TabOf
<1> QED BY <1>6, <1>7, <1>8, <1>9, <1>10 DEF Inv

-------------------------------------------------------------------------------
(* Attaching, and the end of a shell.                                      *)

\* A stream that attaches becomes the one which believes to be attached.
LEMMA AttachKeeps ==
    ASSUME Inv, NEW r \in Request, NEW t \in Request, Attach(r, t),
           stream[r].pc \in {"sent", "starting"},
           Greeting(t)' = Greeting(t),
           guest'[t] \in {"running"} \cup Ends,
           \A u \in Request : guest[u] \in {"running"} \cup Ends => guest'[u] = guest[u]
    PROVE  /\ stream' \in [Request -> Stream]
           /\ page' \in [Page -> PageState]
           /\ listener' \in [Request -> Request \cup {None}]
           /\ stream'[r].pc = "open" /\ stream'[r].term = t
           /\ \A q \in Request \ {r} : /\ stream'[q].pc = stream[q].pc
                                       /\ stream'[q].term = stream[q].term
                                       /\ stream[q].pc # "open" => stream'[q] = stream[q]
           /\ \A q \in Request : stream'[q].page = stream[q].page
           /\ \A u \in Request : Owned(u)'
           /\ \A q \in Request : Believed(q)'
<1> DEFINE o == listener[t]
           cut == Append(Greeting(t), "detached")
<1>1. /\ stream \in [Request -> Stream]
      /\ page \in [Page -> PageState]
      /\ listener \in [Request -> Request \cup {None}]
  BY DEF Inv, TypeOK
<1>2. /\ Greeting(t) \in Told /\ cut \in Told
      /\ Last(cut) = "detached"
  BY GreetingTyped, SuccessorTold
<1>3. /\ o # r
      /\ o # None => /\ o \in Request
                     /\ stream[o].pc = "open"
                     /\ stream[o].term = t
                     /\ stream[o].told = Greeting(t)
  BY <1>1, Unheard DEF Inv, Owned
<1>4. stream' = [Detached(t) EXCEPT ![r].pc = "open", ![r].term = t,
                                    ![r].told = Greeting(t)]
  BY DEF Attach
<1>5. listener' = [listener EXCEPT ![t] = r]
  BY DEF Attach
<1>6. Detached(t) = IF o = None THEN stream ELSE [stream EXCEPT ![o].told = cut]
  BY <1>1, <1>3 DEF Detached
<1> HIDE DEF o, cut
<1>7. /\ Detached(t) \in [Request -> Stream]
      /\ Detached(t)[r] = stream[r]
      /\ \A q \in Request \ {o} : Detached(t)[q] = stream[q]
      /\ o # None => Detached(t)[o] = [stream[o] EXCEPT !.told = cut]
  BY <1>1, <1>2, <1>3, <1>6 DEF Stream
<1>8. /\ stream' \in [Request -> Stream]
      /\ stream'[r].pc = "open" /\ stream'[r].term = t
      /\ stream'[r].told = Greeting(t)
      /\ stream'[r].page = stream[r].page
      /\ \A q \in Request \ {r} : stream'[q] = Detached(t)[q]
  <2>1. Detached(t) \in [Request -> Stream] /\ Detached(t)[r] = stream[r]
    BY <1>7
  <2> DEFINE d == Detached(t)
             g == Greeting(t)
             s == [stream[r] EXCEPT !.pc = "open", !.term = t, !.told = g]
  <2>2. s \in Stream
    BY <1>1, <1>2 DEF Stream, PC
  <2>3. s.pc = "open" /\ s.term = t /\ s.told = g /\ s.page = stream[r].page
    BY <1>1 DEF Stream
  <2>4. d \in [Request -> Stream] /\ d[r] = stream[r]
    BY <2>1
  <2>5. stream' = [d EXCEPT ![r].pc = "open", ![r].term = t, ![r].told = g]
    BY <1>4
  <2> HIDE DEF d, g
  <2>6. stream' = [d EXCEPT ![r] = s]
    BY <2>4, <2>5
  <2> HIDE DEF s
  <2>7. /\ stream' \in [Request -> Stream]
        /\ stream'[r] = s
        /\ \A q \in Request \ {r} : stream'[q] = d[q]
    BY <2>2, <2>4, <2>6
  <2> QED BY <2>3, <2>7 DEF d, g
<1>9. /\ \A q \in Request \ {r, o} : stream'[q] = stream[q]
      /\ o # None => stream'[o] = [stream[o] EXCEPT !.told = cut]
  BY <1>3, <1>7, <1>8
<1>10. o # None => /\ stream'[o].pc = "open"
                   /\ stream'[o].term = t
                   /\ stream'[o].told = cut
                   /\ stream'[o].page = stream[o].page
  BY <1>1, <1>3, <1>9 DEF Stream
<1>11. page' \in [Page -> PageState]
  BY <1>1, ZenonT(40) DEF Attach, PageState, Status
<1>12. listener' \in [Request -> Request \cup {None}]
  BY <1>1, <1>5
<1>13. \A u \in Request : Owned(u)'
  <2> SUFFICES ASSUME NEW u \in Request, listener'[u] # None
               PROVE  /\ stream'[listener'[u]].pc = "open"
                      /\ stream'[listener'[u]].term = u
                      /\ stream'[listener'[u]].told = Greeting(u)'
                      /\ guest'[u] \in {"running"} \cup Ends
    BY DEF Owned
  <2>1. CASE u = t
    BY <1>1, <1>5, <1>8, <2>1
  <2>2. CASE u # t
    <3>1. listener'[u] = listener[u] /\ listener[u] # None /\ listener[u] \in Request
      BY <1>1, <1>5, <2>2
    <3>2. /\ stream[listener[u]].pc = "open"
          /\ stream[listener[u]].term = u
          /\ stream[listener[u]].told = Greeting(u)
          /\ guest[u] \in {"running"} \cup Ends
      BY <3>1 DEF Inv, Owned
    <3>3. listener[u] # r /\ listener[u] # o
      BY <1>3, <2>2, <3>1, <3>2
    <3>4. guest'[u] = guest[u]
      BY <3>2
    <3>5. Greeting(u)' = Greeting(u)
      BY <3>4 DEF Greeting
    <3> QED BY <1>9, <3>1, <3>2, <3>3, <3>4, <3>5
  <2> QED BY <2>1, <2>2
<1>14. \A q \in Request : Believed(q)'
  <2> SUFFICES ASSUME NEW q \in Request, Attached(q)'
               PROVE  listener'[stream'[q].term] = q
    BY DEF Believed
  <2>1. CASE q = r
    BY <1>1, <1>5, <1>8, <2>1
  <2>2. CASE q # r
    <3>1. stream'[q].pc = "open" /\ Last(stream'[q].told) # "detached"
      BY DEF Attached, Last
    <3>2. q # o
      BY <1>2, <1>3, <1>10, <3>1, NoneAssumption
    <3>3. stream'[q] = stream[q]
      BY <1>9, <2>2, <3>2
    <3>4. Attached(q)
      BY <3>3 DEF Attached
    <3>5. stream[q].term \in Request /\ listener[stream[q].term] = q
      BY <3>4 DEF Inv, Shaped, Believed, Attached
    <3>6. stream[q].term # t
      BY <3>2, <3>5 DEF o
    <3> QED BY <1>1, <1>5, <3>3, <3>5, <3>6
  <2> QED BY <2>1, <2>2
<1>15. \A q \in Request \ {r} :
          /\ stream'[q].pc = stream[q].pc
          /\ stream'[q].term = stream[q].term
          /\ stream'[q].page = stream[q].page
          /\ stream[q].pc # "open" => stream'[q] = stream[q]
  BY <1>3, <1>9, <1>10, NoneAssumption
<1> QED BY <1>8, <1>11, <1>12, <1>13, <1>14, <1>15

LEMMA ReattachKeeps ==
    ASSUME Inv, NEW r \in Request, Reattach(r)
    PROVE  Inv'
<1>1. TabOf(r) \in Tab /\ entries[TabOf(r)] # None
  BY ShowsAssumption DEF Inv, Shaped, TabOf, Reattach
<1>2. PICK t \in Request : t = entries[TabOf(r)] /\ guest[t] \in {"running"} \cup Ends
  BY <1>1, EntryMade
<1>3. /\ stream[r].pc = "sent"
      /\ Attach(r, t)
      /\ stale' = stale \ {t}
      /\ UNCHANGED <<opened, closes, entries, byId, guest, closing, disposed>>
  BY <1>2 DEF Reattach
<1>4. Greeting(t)' = Greeting(t)
  BY <1>3 DEF Greeting
<1>5. /\ stream' \in [Request -> Stream]
      /\ page' \in [Page -> PageState]
      /\ listener' \in [Request -> Request \cup {None}]
      /\ stream'[r].pc = "open" /\ stream'[r].term = t
      /\ \A q \in Request \ {r} : /\ stream'[q].pc = stream[q].pc
                                  /\ stream'[q].term = stream[q].term
                                  /\ stream[q].pc # "open" => stream'[q] = stream[q]
      /\ \A q \in Request : stream'[q].page = stream[q].page
      /\ \A u \in Request : Owned(u)'
      /\ \A q \in Request : Believed(q)'
  BY <1>2, <1>3, <1>4, AttachKeeps
<1>6. TypeOK'
  BY <1>3, <1>5 DEF Inv, TypeOK
<1>7. \A q \in Request : Shaped(q)'
  BY <1>3, <1>5 DEF Inv, Shaped
<1>8. \A u \in Request : Phased(u)'
  BY <1>3, <1>5 DEF Inv, Phased
<1>9. Indexed'
  BY <1>3, <1>5 DEF Inv, TypeOK, Indexed, TabOf
<1> QED BY <1>5, <1>6, <1>7, <1>8, <1>9 DEF Inv

LEMMA StartedKeeps ==
    ASSUME Inv, NEW r \in Request, Started(r)
    PROVE  Inv'
<1>1. /\ stream[r].pc = "starting"
      /\ guest' = [guest EXCEPT ![r] = "running"]
      /\ entries' = [entries EXCEPT ![TabOf(r)] = r]
      /\ byId' = byId \cup {r}
      /\ Attach(r, r)
      /\ UNCHANGED <<opened, closes, stale, closing, disposed>>
  BY DEF Started
<1>2. guest[r] = "starting" /\ guest \in [Request -> {"none", "starting", "running"} \cup Ends]
  BY <1>1 DEF Inv, TypeOK, Phased
<1>3. /\ guest' \in [Request -> {"none", "starting", "running"} \cup Ends]
      /\ guest'[r] = "running"
      /\ \A u \in Request \ {r} : guest'[u] = guest[u]
  BY <1>1, <1>2
<1>4. \A u \in Request : guest[u] \in {"running"} \cup Ends => guest'[u] = guest[u]
  BY <1>2, <1>3 DEF Ends
<1>5. Greeting(r)' = Greeting(r)
  BY <1>2, <1>3 DEF Greeting, Ends
<1>6. /\ stream' \in [Request -> Stream]
      /\ page' \in [Page -> PageState]
      /\ listener' \in [Request -> Request \cup {None}]
      /\ stream'[r].pc = "open" /\ stream'[r].term = r
      /\ \A q \in Request \ {r} : /\ stream'[q].pc = stream[q].pc
                                  /\ stream'[q].term = stream[q].term
                                  /\ stream[q].pc # "open" => stream'[q] = stream[q]
      /\ \A q \in Request : stream'[q].page = stream[q].page
      /\ \A u \in Request : Owned(u)'
      /\ \A q \in Request : Believed(q)'
  BY <1>1, <1>3, <1>4, <1>5, AttachKeeps
<1>7. TabOf(r) \in Tab /\ stream[r].page \in Page
  BY <1>1, ShowsAssumption DEF Inv, Shaped, TabOf
<1>8. TypeOK'
  BY <1>1, <1>3, <1>6, <1>7 DEF Inv, TypeOK
<1>9. \A q \in Request : Shaped(q)'
  BY <1>1, <1>6 DEF Inv, Shaped
<1>10. \A u \in Request : Phased(u)'
  BY <1>1, <1>3, <1>6 DEF Inv, Phased, Ends
<1>11. Indexed'
  <2> SUFFICES ASSUME NEW k \in Tab, entries'[k] # None
               PROVE  entries'[k] \in byId' /\ Shows[stream'[entries'[k]].page] = k
    BY DEF Indexed, TabOf
  <2>1. CASE k = TabOf(r)
    <3>1. entries'[k] = r
      BY <1>1, <2>1 DEF Inv, TypeOK
    <3> QED BY <1>1, <1>6, <2>1, <3>1 DEF TabOf
  <2>2. CASE k # TabOf(r)
    <3>1. entries'[k] = entries[k]
      BY <1>1, <2>2 DEF Inv, TypeOK
    <3>2. entries[k] \in Request /\ entries[k] \in byId /\ TabOf(entries[k]) = k
      BY <3>1, EntryMade
    <3> QED BY <1>1, <1>6, <3>1, <3>2 DEF TabOf
  <2> QED BY <2>1, <2>2
<1> QED BY <1>6, <1>8, <1>9, <1>10, <1>11 DEF Inv

\* The end of a shell reaches the stream attached to it, which was told no end yet.
LEMMA PtyEndsKeeps ==
    ASSUME Inv, NEW t \in Request, NEW how \in Ends, PtyEnds(t, how)
    PROVE  Inv'
<1> DEFINE o == listener[t]
<1>1. /\ guest[t] = "running"
      /\ guest' = [guest EXCEPT ![t] = how]
      /\ Report(t, how)
      /\ UNCHANGED <<opened, closes, host, closing>>
  BY DEF PtyEnds
<1>2. /\ stream \in [Request -> Stream]
      /\ page \in [Page -> PageState]
      /\ listener \in [Request -> Request \cup {None}]
      /\ guest \in [Request -> {"none", "starting", "running"} \cup Ends]
  BY DEF Inv, TypeOK
<1>3. /\ guest' \in [Request -> {"none", "starting", "running"} \cup Ends]
      /\ guest'[t] = how
      /\ \A u \in Request \ {t} : guest'[u] = guest[u]
  BY <1>1, <1>2
<1>4. Greeting(t) = <<"ready">> /\ Greeting(t)' = <<"ready", how>>
  BY <1>1, <1>3 DEF Greeting, Ends
<1>5. o # None => /\ o \in Request
                  /\ stream[o].pc = "open"
                  /\ stream[o].term = t
                  /\ stream[o].told = <<"ready">>
  BY <1>2, <1>4 DEF Inv, Owned
<1>6. /\ stream' \in [Request -> Stream]
      /\ \A q \in Request : q # o => stream'[q] = stream[q]
      /\ o # None => stream'[o] = [stream[o] EXCEPT !.told = <<"ready", how>>]
  <2>1. CASE o = None
    BY <1>1, <1>2, <2>1 DEF Report
  <2>2. CASE o # None
    <3> DEFINE n == <<"ready", how>>
    <3>1. stream' = [stream EXCEPT ![o].told = Append(@, how)]
      BY <1>1, <2>2 DEF Report
    <3>2. Append(stream[o].told, how) = n /\ n \in Told
      BY <1>5, <2>2, EndAppended
    <3> HIDE DEF n
    <3>3. stream' = [stream EXCEPT ![o] = [stream[o] EXCEPT !.told = n]]
      BY <1>2, <1>5, <2>2, <3>1, <3>2
    <3>4. [stream[o] EXCEPT !.told = n] \in Stream
      BY <1>2, <1>5, <2>2, <3>2 DEF Stream
    <3> QED BY <1>2, <1>5, <2>2, <3>3, <3>4 DEF n
  <2> QED BY <2>1, <2>2
<1>7. /\ o # None => /\ stream'[o].pc = "open"
                     /\ stream'[o].term = t
                     /\ stream'[o].told = <<"ready", how>>
                     /\ stream'[o].page = stream[o].page
      /\ \A q \in Request : /\ stream'[q].pc = stream[q].pc
                            /\ stream'[q].term = stream[q].term
                            /\ stream'[q].page = stream[q].page
                            /\ stream[q].pc # "open" => stream'[q] = stream[q]
  <2>1. o # None => /\ stream'[o].pc = "open"
                    /\ stream'[o].term = t
                    /\ stream'[o].told = <<"ready", how>>
                    /\ stream'[o].page = stream[o].page
    BY <1>2, <1>5, <1>6 DEF Stream
  <2>2. ASSUME NEW q \in Request
        PROVE  /\ stream'[q].pc = stream[q].pc
               /\ stream'[q].term = stream[q].term
               /\ stream'[q].page = stream[q].page
               /\ stream[q].pc # "open" => stream'[q] = stream[q]
    <3>1. CASE q = o
      BY <1>5, <2>1, <3>1, NoneAssumption
    <3>2. CASE q # o
      BY <1>6, <3>2
    <3> QED BY <3>1, <3>2
  <2> QED BY <2>1, <2>2
<1>8. page' \in [Page -> PageState]
  <2>1. CASE o = None
    BY <1>1, <1>2, <2>1 DEF Report
  <2>2. CASE o # None
    <3> DEFINE ended(w) == [page[w] EXCEPT !.known = IF how = "exit" THEN None ELSE @,
                                           !.status = "ended"]
    <3>1. \A w \in Page : ended(w) \in PageState /\ page[w] \in PageState
      BY <1>2 DEF PageState, Status
    <3>2. page' = [w \in Page |-> IF page[w].stream = o THEN ended(w) ELSE page[w]]
      BY <1>1, <2>2 DEF Report
    <3> HIDE DEF ended
    <3> QED BY <3>1, <3>2
  <2> QED BY <2>1, <2>2
<1>9. TypeOK'
  BY <1>1, <1>3, <1>6, <1>8 DEF Inv, TypeOK, host
<1>10. \A q \in Request : Shaped(q)'
  BY <1>1, <1>7 DEF Inv, Shaped
<1>11. \A u \in Request : Phased(u)'
  BY <1>1, <1>3, <1>7 DEF Inv, Phased, host, Ends
<1>12. \A u \in Request : Owned(u)'
  <2> SUFFICES ASSUME NEW u \in Request, listener[u] # None
               PROVE  /\ stream'[listener[u]].pc = "open"
                      /\ stream'[listener[u]].term = u
                      /\ stream'[listener[u]].told = Greeting(u)'
                      /\ guest'[u] \in {"running"} \cup Ends
    BY <1>1 DEF Owned, host
  <2>1. CASE u = t
    BY <1>3, <1>4, <1>7, <2>1
  <2>2. CASE u # t
    <3>1. /\ listener[u] \in Request
          /\ stream[listener[u]].pc = "open"
          /\ stream[listener[u]].term = u
          /\ stream[listener[u]].told = Greeting(u)
          /\ guest[u] \in {"running"} \cup Ends
      BY <1>2 DEF Inv, Owned
    <3>2. listener[u] # o
      BY <1>5, <2>2, <3>1, NoneAssumption
    <3>3. guest'[u] = guest[u]
      BY <1>3, <2>2
    <3>4. Greeting(u)' = Greeting(u)
      BY <3>3 DEF Greeting
    <3> QED BY <1>6, <3>1, <3>2, <3>3, <3>4
  <2> QED BY <2>1, <2>2
<1>13. \A q \in Request : Believed(q)'
  <2> SUFFICES ASSUME NEW q \in Request, Attached(q)'
               PROVE  listener'[stream'[q].term] = q
    BY DEF Believed
  <2>1. listener' = listener
    BY <1>1 DEF host
  <2>2. CASE q = o
    BY <1>7, <2>1, <2>2, NoneAssumption
  <2>3. CASE q # o
    <3>1. stream'[q] = stream[q]
      BY <1>6, <2>3
    <3>2. Attached(q)
      BY <3>1 DEF Attached
    <3> QED BY <2>1, <3>1, <3>2 DEF Inv, Believed
  <2> QED BY <2>2, <2>3
<1>14. Indexed'
  BY <1>1, <1>7 DEF Inv, TypeOK, Indexed, TabOf, host
<1> QED BY <1>9, <1>10, <1>11, <1>12, <1>13, <1>14 DEF Inv

-------------------------------------------------------------------------------
(* The theorems.                                                           *)

LEMMA InitInv == Init => Inv
<1> SUFFICES ASSUME Init
             PROVE  Inv
  OBVIOUS
<1>1. TypeOK
  <2>1. Blank \in PageState /\ Unused \in Stream
    BY DEF Blank, PageState, Status, Unused, Stream, Told, PC
  <2>2. page \in [Page -> PageState] /\ stream \in [Request -> Stream]
    BY <2>1 DEF Init
  <2>3. opened \in 0..MaxRequests
    BY RequestsAssumption DEF Init
  <2> QED BY <2>2, <2>3 DEF Init, TypeOK
<1>2. \A r \in Request : Shaped(r)
  BY RequestsAssumption DEF Init, Shaped, Unused, Request
<1>3. \A t \in Request : Phased(t) /\ Owned(t)
  BY DEF Init, Phased, Owned, Unused
<1>4. \A r \in Request : Believed(r)
  BY DEF Init, Believed, Attached, Unused
<1>5. Indexed
  BY DEF Init, Indexed
<1> QED BY <1>1, <1>2, <1>3, <1>4, <1>5 DEF Inv

LEMMA NextInv == Inv /\ [Next]_vars => Inv'
<1> SUFFICES ASSUME Inv, [Next]_vars
             PROVE  Inv'
  OBVIOUS
<1>1. ASSUME NEW w \in Page, Browser(w)
      PROVE  Inv'
  BY <1>1, ConnectKeeps, LeaveKeeps, StreamFailsKeeps, UseKeeps DEF Browser
<1>2. ASSUME NEW r \in Request, Handle(r)
      PROVE  Inv'
  BY <1>2, ReattachKeeps, ResolveKeeps, LookupFailsKeeps, StartKeeps, StartedKeeps,
     StartFailsKeeps, AbortArrivesKeeps DEF Handle
<1>3. ASSUME NEW t \in Request, Close(t) \/ Age(t)
      PROVE  Inv'
  BY <1>3, CloseKeeps, AgeKeeps
<1>4. ASSUME NEW t \in Request, NEW how \in Ends, PtyEnds(t, how)
      PROVE  Inv'
  BY <1>4, PtyEndsKeeps
<1>5. CASE Reap \/ Dispose
  BY <1>5, ReapKeeps, DisposeKeeps
<1>6. CASE UNCHANGED vars
  <2>1. UNCHANGED <<stream, listener, guest, opened>> /\ byId' = byId
    BY <1>6 DEF vars
  <2>2. TypeOK' /\ Indexed'
    BY <1>6 DEF Inv, TypeOK, Indexed, vars, TabOf
  <2> QED BY <2>1, <2>2, HostOnly DEF Inv
<1> QED BY <1>1, <1>2, <1>3, <1>4, <1>5, <1>6 DEF Next

LEMMA InvHolds == Spec => []Inv
BY InitInv, NextInv, PTL DEF Spec

\* Every variable keeps its type: in particular a stream of any page is told of one
\* end at most, and of nothing after its successor.
THEOREM TypeCorrect == Spec => []TypeOK
<1>1. Inv => TypeOK
  BY DEF Inv
<1> QED BY <1>1, InvHolds, PTL

\* Whatever pages and streams there are, a shell has one owner at most.
THEOREM OneOwnerHolds == Spec => []OneOwner
<1>1. Inv => OneOwner
  BY DEF Inv, Believed, OneOwner
<1> QED BY <1>1, InvHolds, PTL

\* A stream that believes to be attached to a shell which has ended knows its end.
THEOREM EndToldHolds == Spec => []EndTold
<1>1. ASSUME Inv, NEW r \in Request, Attached(r), guest[stream[r].term] \in Ends
      PROVE  Last(stream[r].told) = guest[stream[r].term]
  <2>1. stream[r].term \in Request /\ listener[stream[r].term] = r
    BY <1>1 DEF Inv, Shaped, Believed, Attached
  <2>2. Owned(stream[r].term)
    BY <1>1, <2>1 DEF Inv
  <2>3. stream[r].told = Greeting(stream[r].term)
    BY <2>1, <2>2, NoneAssumption DEF Owned
  <2> QED BY <1>1, <2>3, GreetingTyped
<1>2. Inv => EndTold
  BY <1>1 DEF EndTold
<1> QED BY <1>2, InvHolds, PTL

\* What is retained for a tab is a shell of the tab that its controls reach.
THEOREM IndexedHolds == Spec => []Indexed
<1>1. Inv => Indexed
  BY DEF Inv
<1> QED BY <1>1, InvHolds, PTL

===============================================================================
