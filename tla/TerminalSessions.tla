--------------------------- MODULE TerminalSessions ---------------------------
(***************************************************************************)
(* The plugin's browser terminals: the terminal pages                      *)
(* (client/podman-terminal.tsx, client/terminal-transport.ts), the host's   *)
(* registry of shells (terminal-route.ts, terminal-sessions.ts) and the     *)
(* guest ptys behind them (guest-terminal.ts).                              *)
(*                                                                         *)
(* The host runs on one thread: a handler is cut where it awaits.  Requests *)
(* of a page travel on their own and arrive in any order.                   *)
(***************************************************************************)
EXTENDS Integers, Sequences, FiniteSets

CONSTANTS
    Tab,            \* (session, tab) pairs
    Page,           \* mounted terminal pages, of one browser window or several
    Shows,          \* [Page -> Tab]
    None,           \* no stream, no terminal
    MaxRequests     \* bound on the streams that pages open

ASSUME ShowsAssumption == Shows \in [Page -> Tab]

ASSUME RequestsAssumption == MaxRequests \in Nat

\* The n-th stream opened; the shell it starts, if it does, bears its number.
Request == 1..MaxRequests

ASSUME NoneAssumption == None \notin Request

VARIABLES
    page,       \* page[w]: what a page holds of its terminal
    opened,     \* streams opened so far
    stream,     \* stream[r]: an open request and what it has been told
    closes,     \* shells with a close request under way
    entries,    \* entries[k]: the shell retained for a tab, or None
    byId,       \* the shells a control request finds
    listener,   \* listener[t]: the stream attached to a shell, or None
    stale,      \* shells last used longer ago than the retention window
    guest,      \* guest[t]: the pty in the container
    closing,    \* shells that were asked to terminate
    disposed    \* the plugin was unloaded

vars == <<page, opened, stream, closes, entries, byId, listener, stale, guest,
          closing, disposed>>

host == <<entries, byId, listener, stale, disposed>>

-------------------------------------------------------------------------------
(* Pages, streams and shells.                                              *)

\* TerminalStatus as far as the Connect button tells it apart.
Status == {"idle", "busy", "ended"}

PageState == [stream : Request \cup {None}, known : Request \cup {None}, status : Status]

Blank == [stream |-> None, known |-> None, status |-> "idle"]

\* The frames that change what a page believes; output, snapshots and titles
\* are left out.
Ends == {"exit", "error"}

\* What a stream may have been told: it attaches once, hears of the end of its
\* shell at most once, and nothing after it was told of its successor.
Told ==
    {<<>>, <<"ready">>, <<"ready", "detached">>}
        \cup {<<"ready", e>> : e \in Ends}
        \cup {<<"ready", e, "detached">> : e \in Ends}

PC == {"unused", "sent", "looking", "starting", "open", "over"}

Stream ==
    [page : Page \cup {None},
     reopen : BOOLEAN,
     pc : PC,
     term : Request \cup {None},      \* the shell it starts or is attached to
     told : Told,                     \* frames written
     aborted : BOOLEAN]               \* its signal fired before it attached

Unused == [page |-> None, reopen |-> FALSE, pc |-> "unused", term |-> None,
           told |-> <<>>, aborted |-> FALSE]

TabOf(r) == Shows[stream[r].page]

Over(r) == [stream EXCEPT ![r] = [Unused EXCEPT !.page = stream[r].page, !.pc = "over"]]

Retained == {entries[k] : k \in Tab} \ {None}

Left(r) == page[stream[r].page].stream # r

-------------------------------------------------------------------------------
(* The page.                                                               *)

\* A first mount, a change of container or shell, or the Connect and Reconnect
\* buttons: the old stream is aborted, the shell known from it is closed, and
\* another stream is opened.
Connect(w, reopen) ==
    LET r == opened + 1 IN
    /\ opened < MaxRequests
    /\ reopen => page[w].status = "ended"
    /\ opened' = r
    /\ page' = [page EXCEPT ![w] = [stream |-> r, known |-> None, status |-> "busy"]]
    /\ stream' = [stream EXCEPT ![r].page = w, ![r].reopen = reopen, ![r].pc = "sent"]
    /\ closes' = closes \cup ({page[w].known} \ {None})
    /\ UNCHANGED <<host, guest, closing>>

\* The tab is closed or the page reloaded: the stream is aborted, the shell is
\* not closed.
Leave(w) ==
    /\ page[w] # Blank
    /\ page' = [page EXCEPT ![w] = Blank]
    /\ UNCHANGED <<opened, stream, closes, host, guest, closing>>

\* The stream was refused, or its connection broke; the page keeps what it knows.
StreamFails(w) ==
    /\ page[w].stream # None
    /\ page' = [page EXCEPT ![w].stream = None, ![w].status = "ended"]
    /\ UNCHANGED <<opened, stream, closes, host, guest, closing>>

-------------------------------------------------------------------------------
(* Opening and attaching.                                                  *)

\* Mutant: a shell that has ended is not reported to a later stream.
GreetingOnly(t) == <<"ready">>

\* What a stream that attaches is told of a shell.
Greeting(t) == IF guest[t] \in Ends THEN <<"ready", guest[t]>> ELSE <<"ready">>

\* Mutant: the stream before is told nothing.
DetachedQuietly(t) == stream

\* The stream before is told of its successor.
Detached(t) ==
    IF listener[t] = None THEN stream
    ELSE [stream EXCEPT ![listener[t]].told = Append(@, "detached")]

\* listen: the stream r takes over the shell t.  onFrame in the pages that still
\* have these streams open.
Attach(r, t) ==
    /\ stream' = [Detached(t) EXCEPT ![r].pc = "open", ![r].term = t,
                                     ![r].told = Greeting(t)]
    /\ listener' = [listener EXCEPT ![t] = r]
    /\ page' = [w \in Page |->
                  CASE page[w].stream = r ->
                         [page[w] EXCEPT
                            !.known = IF guest[t] = "exit" THEN None ELSE t,
                            !.status = IF guest[t] \in Ends THEN "ended" ELSE "busy"]
                    [] page[w].stream # None /\ page[w].stream = listener[t] ->
                         [page[w] EXCEPT !.status = "busy"]
                    [] OTHER -> page[w]]

\* prepare finds a retained shell, ended or not, whatever was asked for.
Reattach(r) ==
    LET t == entries[TabOf(r)] IN
    /\ stream[r].pc = "sent"
    /\ ~stream[r].reopen
    /\ ~disposed
    /\ t # None
    /\ Attach(r, t)
    /\ stale' = stale \ {t}
    /\ UNCHANGED <<opened, closes, entries, byId, guest, closing, disposed>>

\* drop: one entry leaves both indexes, its shell is left alone.
Dropped(k) ==
    /\ entries' = [entries EXCEPT ![k] = None]
    /\ byId' = byId \ {entries[k]}

\* prepare finds none, or drops it, and looks for the container and the shell.
Resolve(r) ==
    /\ stream[r].pc = "sent"
    /\ ~disposed
    /\ stream[r].reopen \/ entries[TabOf(r)] = None
    /\ Dropped(TabOf(r))
    /\ stale' = stale \ {entries[TabOf(r)]}
    /\ stream' = [stream EXCEPT ![r].pc = "looking", ![r].reopen = FALSE]
    /\ UNCHANGED <<page, opened, closes, listener, guest, closing, disposed>>

LookupFails(r) ==
    /\ stream[r].pc = "looking"
    /\ stream' = Over(r)
    /\ UNCHANGED <<page, opened, closes, host, guest, closing>>

\* openGuestTerminal.
Start(r) ==
    /\ stream[r].pc = "looking"
    /\ stream' = [stream EXCEPT ![r].pc = "starting", ![r].term = r]
    /\ guest' = [guest EXCEPT ![r] = "starting"]
    /\ UNCHANGED <<page, opened, closes, host, closing>>

\* The pty has started: the entry is published, over another one of its tab if
\* there is one by now, and the stream attaches, even when its signal has fired.
Started(r) ==
    /\ stream[r].pc = "starting"
    /\ guest' = [guest EXCEPT ![r] = "running"]
    /\ entries' = [entries EXCEPT ![TabOf(r)] = r]
    /\ byId' = byId \cup {r}
    /\ Attach(r, r)
    /\ UNCHANGED <<opened, closes, stale, closing, disposed>>

StartFails(r) ==
    /\ stream[r].pc = "starting"
    /\ guest' = [guest EXCEPT ![r] = "error"]
    /\ closing' = closing \cup {r}
    /\ stream' = Over(r)
    /\ UNCHANGED <<page, opened, closes, host>>

\* Mutant: a stream that was cut does not detach.
AbortForgotten(r) ==
    /\ stream[r].pc \in {"sent", "looking", "starting", "open"}
    /\ ~stream[r].aborted
    /\ Left(r)
    /\ IF stream[r].pc = "starting"
       THEN stream' = [stream EXCEPT ![r].aborted = TRUE]
       ELSE stream' = Over(r)
    /\ UNCHANGED <<page, opened, closes, host, guest, closing>>

\* The host learns that the page has gone: a request is cancelled where it waits
\* for the orchestrator, and a stream detaches; a pty that is starting goes on.
AbortArrives(r) ==
    /\ stream[r].pc \in {"sent", "looking", "starting", "open"}
    /\ ~stream[r].aborted
    /\ Left(r)
    /\ IF stream[r].pc = "starting"
       THEN stream' = [stream EXCEPT ![r].aborted = TRUE]
       ELSE stream' = Over(r)
    /\ listener' = [t \in Request |-> IF listener[t] = r THEN None ELSE listener[t]]
    /\ UNCHANGED <<page, opened, closes, entries, byId, stale, guest, closing, disposed>>

-------------------------------------------------------------------------------
(* Controls, the end of a shell, and the sweep.                            *)

\* Mutant: only the shell that was named is forgotten by its id.
CloseById(t) ==
    /\ t \in closes
    /\ closes' = closes \ {t}
    /\ IF t \in byId
       THEN byId' = byId \ {t} /\ closing' = closing \cup {t}
       ELSE UNCHANGED <<byId, closing>>
    /\ UNCHANGED <<page, opened, stream, entries, listener, stale, guest, disposed>>

\* A close drops the entry of the shell's tab, whichever shell that is, and
\* terminates the one it names.
Close(t) ==
    /\ t \in closes
    /\ closes' = closes \ {t}
    /\ IF t \in byId
       THEN /\ Dropped(TabOf(t))
            /\ stale' = stale \ {t, entries[TabOf(t)]}
            /\ closing' = closing \cup {t}
       ELSE UNCHANGED <<entries, byId, stale, closing>>
    /\ UNCHANGED <<page, opened, stream, listener, guest, disposed>>

\* Input, a resize or a rename, from any page that knows the shell.
Use(w) ==
    /\ page[w].known \in byId \cap stale
    /\ stale' = stale \ {page[w].known}
    /\ UNCHANGED <<page, opened, stream, closes, entries, byId, listener, guest,
                   closing, disposed>>

\* The end of t is written to the stream attached to it, if there is one.
Report(t, how) ==
    LET r == listener[t] IN
    IF r = None THEN UNCHANGED <<stream, page>>
    ELSE /\ stream' = [stream EXCEPT ![r].told = Append(@, how)]
         /\ page' = [w \in Page |->
                       IF page[w].stream = r
                       THEN [page[w] EXCEPT !.known = IF how = "exit" THEN None ELSE @,
                                            !.status = "ended"]
                       ELSE page[w]]

\* Mutant: an end is reported as often as it is seen.
PtyEndsAgain(t, how) ==
    /\ guest[t] \in {"running"} \cup Ends
    /\ guest' = [guest EXCEPT ![t] = how]
    /\ Report(t, how)
    /\ UNCHANGED <<opened, closes, host, closing>>

\* The process exits, of itself or because it was asked to terminate, or its
\* stream to the guest ends without an exit; settle and the done callback report
\* it once.
PtyEnds(t, how) ==
    /\ guest[t] = "running"
    /\ guest' = [guest EXCEPT ![t] = how]
    /\ Report(t, how)
    /\ UNCHANGED <<opened, closes, host, closing>>

\* The retention window passes.
Age(t) ==
    /\ t \in Retained \ stale
    /\ stale' = stale \cup {t}
    /\ UNCHANGED <<page, opened, stream, closes, entries, byId, listener, guest,
                   closing, disposed>>

Due == {t \in Retained : listener[t] = None /\ t \in stale}

Forgotten(T) ==
    /\ entries' = [k \in Tab |-> IF entries[k] \in T THEN None ELSE entries[k]]
    /\ byId' = byId \ T
    /\ stale' = stale \ T
    /\ closing' = closing \cup T

Reap ==
    /\ ~disposed
    /\ Due # {}
    /\ Forgotten(Due)
    /\ UNCHANGED <<page, opened, stream, closes, listener, guest, disposed>>

Dispose ==
    /\ ~disposed
    /\ disposed' = TRUE
    /\ Forgotten(Retained)
    /\ UNCHANGED <<page, opened, stream, closes, listener, guest>>

-------------------------------------------------------------------------------

Init ==
    /\ page = [w \in Page |-> Blank]
    /\ opened = 0
    /\ stream = [r \in Request |-> Unused]
    /\ closes = {}
    /\ entries = [k \in Tab |-> None]
    /\ byId = {}
    /\ listener = [t \in Request |-> None]
    /\ stale = {}
    /\ guest = [t \in Request |-> "none"]
    /\ closing = {}
    /\ disposed = FALSE

Browser(w) ==
    \/ \E reopen \in BOOLEAN : Connect(w, reopen)
    \/ Leave(w) \/ StreamFails(w) \/ Use(w)

Handle(r) ==
    \/ Reattach(r) \/ Resolve(r) \/ LookupFails(r) \/ Start(r)
    \/ Started(r) \/ StartFails(r) \/ AbortArrives(r)

Next ==
    \/ \E w \in Page : Browser(w)
    \/ \E r \in Request : Handle(r)
    \/ \E t \in Request : Close(t) \/ Age(t)
    \/ \E t \in Request, how \in Ends : PtyEnds(t, how)
    \/ Reap \/ Dispose

Spec == Init /\ [][Next]_vars

\* The host learns that a page has gone, time passes and the sweep's timer fires.
\* Nothing makes a page act.
FairSpec ==
    /\ Spec
    /\ \A r \in Request : WF_vars(AbortArrives(r)) /\ WF_vars(Age(r))
    /\ WF_vars(Reap)

-------------------------------------------------------------------------------
(* Properties.                                                             *)

\* Every variable keeps its type; in particular a stream is told a story that a
\* page can follow (Told).
TypeOK ==
    /\ page \in [Page -> PageState]
    /\ opened \in 0..MaxRequests
    /\ stream \in [Request -> Stream]
    /\ closes \subseteq Request
    /\ entries \in [Tab -> Request \cup {None}]
    /\ byId \subseteq Request
    /\ listener \in [Request -> Request \cup {None}]
    /\ stale \subseteq Request
    /\ guest \in [Request -> {"none", "starting", "running"} \cup Ends]
    /\ closing \subseteq Request
    /\ disposed \in BOOLEAN

Last(s) == s[Len(s)]

\* A stream that is open at the host and believes to be attached.
Attached(r) ==
    /\ stream[r].pc = "open"
    /\ stream[r].told # <<>>
    /\ Last(stream[r].told) # "detached"

\* terminal-sessions.ts: one browser stream is the terminal's input owner.  Of
\* several pages on a tab at most one believes to be attached to its shell.
OneOwner ==
    \A r, s \in Request :
        Attached(r) /\ Attached(s) /\ stream[r].term = stream[s].term => r = s

\* A stream that is attached to a shell which has ended was told how it ended,
\* whether it attached before or after.
EndTold ==
    \A r \in Request :
        Attached(r) /\ guest[stream[r].term] \in Ends =>
            Last(stream[r].told) = guest[stream[r].term]

\* What is retained for a tab is a shell of that tab which its controls reach.
Indexed ==
    \A k \in Tab :
        entries[k] # None => entries[k] \in byId /\ TabOf(entries[k]) = k

\* No page has or knows the shell t, and its listener is not one whose signal fired
\* before it attached, which nothing detaches.
Abandoned(t) ==
    /\ t \in Retained
    /\ \A w \in Page :
          /\ page[w].known # t
          /\ page[w].stream # None => stream[page[w].stream].term # t
    /\ listener[t] # None => ~stream[listener[t]].aborted

\* A shell that every page has left, whether it said so or broke off, is reaped
\* some time; only unloading the plugin, which closes it, stops the sweep.
Reaped == \A t \in Request : []<>(~Abandoned(t) \/ disposed)

Alive(t) == guest[t] = "running" /\ t \notin closing

\* terminal-sessions.ts: one guest pty per (session, tab), apart from those that
\* were asked to terminate.
OnePtyPerTab ==
    \A s, t \in Request : Alive(s) /\ Alive(t) /\ TabOf(s) = TabOf(t) => s = t

===============================================================================
