----------------------------- MODULE ReadyBarrier -----------------------------
(***************************************************************************)
(* What mission preparation promises, without messages, revisions or       *)
(* time: members gather for a mission, each says whether it is ready, and  *)
(* the mission is committed to only when all of them are.  Once it is      *)
(* committed nobody's readiness changes any more; members may still come   *)
(* and go until it starts.                                                 *)
(***************************************************************************)
CONSTANT Peers

VARIABLES
    stage,     \* idle, gathering, committed or started
    members,   \* those the mission waits for
    ready      \* those that are ready

barrierVars == <<stage, members, ready>>

Init == stage = "idle" /\ members = {} /\ ready = {}

(* A mission is announced; nobody is ready for it yet.                      *)
Gather ==
    /\ stage' = "gathering"
    /\ \E m \in SUBSET Peers : members' = m
    /\ ready' = {}

Join(p) ==
    /\ stage \in {"gathering", "committed"}
    /\ members' = members \union {p}
    /\ ready' = ready \ {p}
    /\ UNCHANGED stage

Leave(p) ==
    /\ stage \in {"gathering", "committed"}
    /\ members' = members \ {p}
    /\ ready' = ready \ {p}
    /\ UNCHANGED stage

ChangeMind(p) ==
    /\ stage = "gathering"
    /\ p \in members
    /\ \/ ready' = ready \union {p}
       \/ ready' = ready \ {p}
    /\ UNCHANGED <<stage, members>>

Commit ==
    /\ stage = "gathering"
    /\ members # {} /\ ready = members
    /\ stage' = "committed"
    /\ UNCHANGED <<members, ready>>

(* The mission begins: the barrier has done its work.                       *)
Start ==
    /\ stage = "committed"
    /\ stage' = "started" /\ members' = {} /\ ready' = {}

Cancel == stage' = "idle" /\ members' = {} /\ ready' = {}

Next ==
    \/ Gather \/ Commit \/ Start \/ Cancel
    \/ \E p \in Peers : Join(p) \/ Leave(p) \/ ChangeMind(p)

Spec == Init /\ [][Next]_barrierVars
=============================================================================
