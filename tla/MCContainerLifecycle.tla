------------------------ MODULE MCContainerLifecycle ------------------------
(***************************************************************************)
(* Small instances of ContainerLifecycle.  One project directory lies above *)
(* the other; the first workspace's project is the outer one.              *)
(***************************************************************************)
EXTENDS ContainerLifecycle, TLC

CONSTANTS outer, inner, shown, second

\* Two workspaces with their default containers.
MCOneEach == [c \in Container |-> IF c = shown THEN "w1" ELSE "w2"]

\* One workspace: the default container and a named one.
MCBothInOne == [c \in Container |-> "w1"]

MCDefaultOf == [w \in Workspace |-> IF w = "w1" THEN shown ELSE second]
MCProjectOf == [w \in Workspace |-> IF w = "w1" THEN outer ELSE inner]
MCAbove == {<<outer, inner>>}

Mount(o, i) == [d \in Dir |-> IF d = outer THEN o ELSE i]

\* The pair is nested when the first container mounts the outer project
\* read-write, and apart when read-only.
MCNestedOrApart ==
    [c \in Container |-> IF c = shown THEN {Mount("ro", "none"), Mount("rw", "none")}
                                      ELSE {Mount("none", "rw")}]
MCApart ==
    [c \in Container |-> IF c = shown THEN {Mount("ro", "none")}
                                      ELSE {Mount("none", "rw")}]
MCOuterOnly ==
    [c \in Container |-> IF c = shown THEN {Mount("rw", "none")}
                                      ELSE {Mount("none", "none")}]

\* Which call is which does not matter; used in the safety runs alone.
MCSymmetry == Permutations(Request)

MCInitialToken == [c \in Container |-> IF c = shown THEN 1 ELSE 2]

=============================================================================
