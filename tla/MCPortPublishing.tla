--------------------------- MODULE MCPortPublishing ---------------------------
(***************************************************************************)
(* Small instances of PortPublishing.                                      *)
(***************************************************************************)
EXTENDS PortPublishing, TLC

CONSTANTS c1, c2

\* Each container is published on a host port of its own.
MCApart == [c \in Container |-> IF c = c1 THEN {1} ELSE {2}]

\* The gateway chooses.
MCAny == [c \in Container |-> {None}]

===============================================================================
