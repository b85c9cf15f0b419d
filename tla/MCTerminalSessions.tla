-------------------------- MODULE MCTerminalSessions --------------------------
(***************************************************************************)
(* Small instances of TerminalSessions.                                    *)
(***************************************************************************)
EXTENDS TerminalSessions

CONSTANTS k1

\* Every page shows the one tab.
MCShows == [w \in Page |-> k1]

===============================================================================
