----------------------------- MODULE AccessCycle -----------------------------
(***************************************************************************)
(* What the session-verification table promises, without threads, clocks   *)
(* or races: every access cycle is opened once, for one user who has no    *)
(* other live cycle, may be verified while it is live, and is closed once, *)
(* with one result that never changes.                                     *)
(***************************************************************************)
CONSTANTS User, NoUser, Cycle,
          Result,    \* the (lifecycle, reason) pairs a cycle can end with
          TimedOut,  \* the one of them an expiry gives
          Open       \* the result of a cycle that has none yet

VARIABLES owner, stage, result

cycleVars == <<owner, stage, result>>

Live == {"pending", "verified"}

CycleInit ==
    /\ owner = [c \in Cycle |-> NoUser]
    /\ stage = [c \in Cycle |-> "none"]
    /\ result = [c \in Cycle |-> Open]

LiveOf(u) == {c \in Cycle : owner[c] = u /\ stage[c] \in Live}

OpenCycle(c, u) ==
    /\ stage[c] = "none"
    /\ LiveOf(u) = {}
    /\ owner' = [owner EXCEPT ![c] = u]
    /\ stage' = [stage EXCEPT ![c] = "pending"]
    /\ UNCHANGED result

VerifyCycle(c) ==
    /\ stage[c] = "pending"
    /\ stage' = [stage EXCEPT ![c] = "verified"]
    /\ UNCHANGED <<owner, result>>

CloseCycles(S, r) ==
    /\ \A c \in S : stage[c] \in Live
    /\ stage' = [c \in Cycle |-> IF c \in S THEN "closed" ELSE stage[c]]
    /\ result' = [c \in Cycle |-> IF c \in S THEN r ELSE result[c]]
    /\ UNCHANGED owner

\* A cycle is closed on its own with any result, or several at once by an expiry.
CycleNext ==
    \/ \E S \in SUBSET Cycle : CloseCycles(S, TimedOut)
    \/ \E c \in Cycle, r \in Result : CloseCycles({c}, r)
    \/ \E c \in Cycle, u \in User : OpenCycle(c, u)
    \/ \E c \in Cycle : VerifyCycle(c)

CycleSpec == CycleInit /\ [][CycleNext]_cycleVars
=============================================================================
