-------------------------- MODULE RecoveryEpisode --------------------------
(***************************************************************************)
(* What autonomous recovery promises of one provider, whoever relies on it *)
(* (docs/ATTENTION_AUTONOMOUS_RECOVERY.md): every root cause has at most   *)
(* one episode at a time; an episode has finitely many tries, which are    *)
(* never handed back; it asks the human only when none is left, or when    *)
(* the cause is genuinely human-only; and no episode is opened for the     *)
(* cause the human has just been asked about.                              *)
(***************************************************************************)
CONSTANTS
    Cause,      \* root causes
    HumanOnly,  \* the causes no machine can act on
    Try,        \* what an episode may try, each once
    NoCause     \* the cause of no verdict

VARIABLES
    episode,  \* per cause: is an episode active, and the tries it has left
    verdict   \* how the provider's latest episode ended, and for which cause

episodeVars == <<episode, verdict>>

NoEpisode == [active |-> FALSE, left |-> {}]

EpisodeInit ==
    /\ episode = [c \in Cause |-> NoEpisode]
    /\ verdict = [status |-> "none", cause |-> NoCause]

Asked == verdict.status = "escalated"

Open(c) ==
    /\ ~episode[c].active
    /\ verdict # [status |-> "escalated", cause |-> c]
    /\ episode' = [episode EXCEPT ![c] = [active |-> TRUE, left |-> Try]]
    /\ UNCHANGED verdict

Spend(c) ==
    /\ episode[c].active
    /\ \E left \in SUBSET episode[c].left :
          episode' = [episode EXCEPT ![c].left = left]
    /\ UNCHANGED verdict

\* Of two episodes that end at the same time either may count as the latest.
Finished(c, status) ==
    /\ episode[c].active
    /\ episode' = [episode EXCEPT ![c] = NoEpisode]
    /\ verdict' \in {[status |-> status, cause |-> c], verdict}

Succeed(c) == Finished(c, "succeeded")

AskHuman(c) ==
    /\ c \in HumanOnly \/ episode[c].left = {}
    /\ Finished(c, "escalated")

EpisodeNext == \E c \in Cause : Open(c) \/ Spend(c) \/ Succeed(c) \/ AskHuman(c)

EpisodeSpec == EpisodeInit /\ [][EpisodeNext]_episodeVars

-----------------------------------------------------------------------------
\* While the human is asked about a cause, no machine works on that cause: the two
\* never race for the same repair.
AskedAlone == Asked => ~episode[verdict.cause].active
=============================================================================
