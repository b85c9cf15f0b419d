---------------------------- MODULE ExclusiveUse ----------------------------
(***************************************************************************)
(* What a pool of identities promises: an identity has one user at a time, *)
(* and goes back before it is given to another one.                        *)
(***************************************************************************)
CONSTANTS Resources, Users

VARIABLE users   \* resource -> who uses it

UseInit == users = [r \in Resources |-> {}]

Take(r, u) == users[r] = {} /\ users' = [users EXCEPT ![r] = {u}]
Give(r, u) == users[r] = {u} /\ users' = [users EXCEPT ![r] = {}]

UseNext == \E r \in Resources, u \in Users : Take(r, u) \/ Give(r, u)

UseSpec == UseInit /\ [][UseNext]_users
=============================================================================
