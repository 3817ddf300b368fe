----------------------------- MODULE Attention -----------------------------
(***************************************************************************)
(* The attention raised for one provider of one user: what the compilers   *)
(* emit (src/mighty/attention_compiler.py, attention_engine.py), the       *)
(* overlays a user's commands leave (attention_commands.py,                *)
(* attention_store.py), and the attention-supervisor thread (src/app.py,   *)
(* _run_attention_supervisor_once), which sweeps the overlays              *)
(* (attention_supervisor.py) and then pushes the first item                *)
(* (attention_delivery.py).                                                *)
(*                                                                         *)
(* It is composed with what autonomous recovery promises, RecoveryEpisode: *)
(* its `verdict' is the gate, whatever the failures are at that moment.    *)
(* Recovery implements that promise.  The clock is abstract, as there.     *)
(***************************************************************************)
EXTENDS RecoveryEpisode, Integers, FiniteSets

CONSTANTS
    AuthCause,    \* root causes an auth truth reports
    TrustCause,   \* root causes of the trust signals an item is compiled for
    HumanNeeded,  \* the auth causes of a truth with needs_human
    MaxFault      \* sweeps and pushes that die, in one behaviour

ASSUME AttentionAssumption ==
    /\ Cause = AuthCause \cup TrustCause
    /\ HumanNeeded \subseteq AuthCause
    /\ HumanNeeded \cap TrustCause = {}
    /\ MaxFault \in Nat

VARIABLES
    failing,  \* the causes the projections report now
    overlay,  \* attention_overlay, by item
    receipt,  \* attention_delivery_receipt of the push channel, by item
    att,      \* the attention-supervisor thread
    cmd,      \* the item a user's command has found and is about to cover
    pushed,   \* pushes handed to the sender with success, by item
    faults

attentionVars == <<failing, overlay, receipt, att, cmd, pushed, faults>>
allVars       == <<episode, verdict, attentionVars>>

MaxDeliveryAttempts == 3

-----------------------------------------------------------------------------
(* Candidates *)

\* One attention_id for each class and provider, whatever the reason.
Item   == {"trust", "auth_blocker", "access_degraded"}
Blocker == {"trust", "auth_blocker"}
NoItem == "no_item"

\* At most one cause from each projection, and no trust signal that counts while
\* a human is needed.
FailingSet ==
    {S \in SUBSET Cause :
        \E a \in SUBSET (S \cap AuthCause) :
            /\ Cardinality(a) <= 1
            /\ S \ a \subseteq TrustCause
            /\ Cardinality(S \ a) <= 1
            /\ S \cap HumanNeeded # {} => S = a}

ItemsOf(S) ==
    {i \in Item :
        \/ i = "auth_blocker"    /\ S \cap HumanNeeded # {}
        \/ i = "access_degraded" /\ S \cap (AuthCause \ HumanNeeded) # {}
        \/ i = "trust"           /\ S \cap TrustCause # {}}

\* compile_attention_candidates: the gate is the provider's latest verdict.
Candidates == IF Asked THEN ItemsOf(failing) ELSE {}

Hidden(i) == overlay[i].status = "snoozed" /\ ~overlay[i].over

\* The first of the visible candidates, if a push may announce it: Runtime
\* trust before a human-needed sign-in, and no push for degraded access.
Primary ==
    CASE "trust" \in Candidates /\ ~Hidden("trust")               -> "trust"
      [] "auth_blocker" \in Candidates /\ ~Hidden("auth_blocker")
         /\ ("trust" \in Candidates => Hidden("trust"))           -> "auth_blocker"
      [] OTHER                                                    -> NoItem

-----------------------------------------------------------------------------
(* State *)

\* `over': the snooze's end, or the in-flight timeout, has passed.
Overlay   == [status : {"none", "snoozed", "in_flight"}, over : BOOLEAN]
NoOverlay == [status |-> "none", over |-> FALSE]

\* `due': the retry backoff has passed.
Receipt   == [status : {"none", "failed", "delivered"},
              attempts : 0 .. MaxDeliveryAttempts, due : BOOLEAN]
NoReceipt == [status |-> "none", attempts |-> 0, due |-> FALSE]

Att  == [pc : {"idle", "clear", "deliver", "send", "record"}, doomed : SUBSET Item,
         item : Item \cup {NoItem}, ok : BOOLEAN]
Rest == [pc |-> "idle", doomed |-> {}, item |-> NoItem, ok |-> FALSE]

AttentionInit ==
    /\ failing \in FailingSet
    /\ overlay = [i \in Item |-> NoOverlay]
    /\ receipt = [i \in Item |-> NoReceipt]
    /\ att = Rest
    /\ cmd = NoItem
    /\ pushed = [i \in Item |-> 0]
    /\ faults = 0

Init == EpisodeInit /\ AttentionInit

\* Recovery goes on, by its promise.
RecoveryStep == EpisodeNext /\ UNCHANGED attentionVars

FailingChanges ==
    /\ failing' \in FailingSet \ {failing}
    /\ UNCHANGED <<episodeVars, overlay, receipt, att, cmd, pushed, faults>>

-----------------------------------------------------------------------------
(* A user's command: it finds the item among the candidates, and then covers *)
(* it, whatever happened in between.                                         *)

FindItem(i) ==
    /\ cmd = NoItem
    /\ i \in Candidates
    /\ cmd' = i
    /\ UNCHANGED <<episodeVars, failing, overlay, receipt, att, pushed, faults>>

Cover(status) ==
    /\ cmd # NoItem
    /\ overlay' = [overlay EXCEPT ![cmd] = [status |-> status, over |-> FALSE]]
    /\ cmd' = NoItem
    /\ UNCHANGED <<episodeVars, failing, receipt, att, pushed, faults>>

Snooze   == Cover("snoozed")
StartCta == Cover("in_flight")

-----------------------------------------------------------------------------
(* The thread *)

\* (A variant that collects orphans alone.)
Orphans(live) == {i \in Item : overlay[i].status # "none" /\ i \notin live}

Obsolete(live) ==
    {i \in Item : /\ overlay[i].status # "none"
                  /\ \/ i \notin live
                     \/ overlay[i].status = "in_flight" /\ overlay[i].over}

Sweep(live) ==
    /\ att.pc = "idle"
    /\ att' = [Rest EXCEPT !.pc = "clear", !.doomed = Obsolete(live)]
    /\ UNCHANGED <<episodeVars, failing, overlay, receipt, cmd, pushed>>

\* The overlays and the candidates are read once ...
BeginSweep == Sweep(Candidates) /\ UNCHANGED faults

\* ... by loaders that swallow every exception: without rows, no candidates.
BlindSweep ==
    /\ faults < MaxFault
    /\ Sweep({})
    /\ faults' = faults + 1

\* ... and the overlays are deleted one by one, by their key alone.
ClearOverlay(i) ==
    /\ att.pc = "clear" /\ i \in att.doomed
    /\ overlay' = [overlay EXCEPT ![i] = NoOverlay]
    /\ att' = [att EXCEPT !.doomed = @ \ {i}]
    /\ UNCHANGED <<episodeVars, failing, receipt, cmd, pushed, faults>>

EndClearing ==
    /\ att.pc = "clear" /\ att.doomed = {}
    /\ att' = [att EXCEPT !.pc = "deliver"]
    /\ UNCHANGED <<episodeVars, failing, overlay, receipt, cmd, pushed, faults>>

\* (Variants: one failure more, a push that a success does not end, no retry.)
ExhaustedLate(i) == receipt[i].attempts > MaxDeliveryAttempts

DeliverableAgain(i) == i \in Blocker /\ receipt[i].attempts < MaxDeliveryAttempts

DeliverableFirst(i) == i \in Blocker /\ receipt[i].status = "none"

\* Delivered once, given up after three failures, or failed a moment ago.
Exhausted(i) == receipt[i].attempts >= MaxDeliveryAttempts

Deliverable(i) ==
    /\ i \in Blocker
    /\ \/ receipt[i].status = "none"
       \/ receipt[i].status = "failed" /\ receipt[i].due /\ ~Exhausted(i)

Choose ==
    /\ att.pc = "deliver"
    /\ att' = IF Deliverable(Primary)
              THEN [att EXCEPT !.pc = "send", !.item = Primary]
              ELSE Rest
    /\ UNCHANGED <<episodeVars, failing, overlay, receipt, cmd, pushed, faults>>

\* The sender reports success once the push is handed to its own thread.
Send(ok) ==
    /\ att.pc = "send"
    /\ pushed' = IF ok THEN [pushed EXCEPT ![att.item] = @ + 1] ELSE pushed
    /\ att' = [att EXCEPT !.pc = "record", !.ok = ok]
    /\ UNCHANGED <<episodeVars, failing, overlay, receipt, cmd, faults>>

RecordReceipt ==
    /\ att.pc = "record"
    /\ receipt' = [receipt EXCEPT ![att.item] =
                      [status   |-> IF att.ok THEN "delivered" ELSE "failed",
                       attempts |-> @.attempts + 1, due |-> FALSE]]
    /\ att' = Rest
    /\ UNCHANGED <<episodeVars, failing, overlay, cmd, pushed, faults>>

\* An exception or a restart: the push that was sent has no receipt.
ThreadDies ==
    /\ att.pc # "idle" /\ faults < MaxFault
    /\ att' = Rest
    /\ faults' = faults + 1
    /\ UNCHANGED <<episodeVars, failing, overlay, receipt, cmd, pushed>>

\* Time passes between two sweeps.
Elapse(i) ==
    /\ att.pc = "idle"
    /\ \/ /\ overlay[i].status # "none" /\ ~overlay[i].over
          /\ overlay' = [overlay EXCEPT ![i].over = TRUE]
          /\ UNCHANGED receipt
       \/ /\ receipt[i].status = "failed" /\ ~receipt[i].due
          /\ receipt' = [receipt EXCEPT ![i].due = TRUE]
          /\ UNCHANGED overlay
    /\ UNCHANGED <<episodeVars, failing, att, cmd, pushed, faults>>

ThreadStep ==
    \/ BeginSweep \/ EndClearing \/ Choose \/ RecordReceipt
    \/ \E i \in Item : ClearOverlay(i)
    \/ \E ok \in BOOLEAN : Send(ok)

Next ==
    \/ ThreadStep
    \/ RecoveryStep \/ FailingChanges
    \/ \E i \in Item : FindItem(i) \/ Elapse(i)
    \/ Snooze \/ StartCta
    \/ BlindSweep \/ ThreadDies

Spec == Init /\ [][Next]_allVars

\* The thread's heartbeat goes on, and time passes between its sweeps.
FairSpec == Spec /\ WF_allVars(ThreadStep) /\ \A i \in Item : SF_allVars(Elapse(i))

-----------------------------------------------------------------------------
(* Properties *)

TypeOK ==
    /\ failing \in FailingSet
    /\ overlay \in [Item -> Overlay]
    /\ receipt \in [Item -> Receipt]
    /\ att \in Att
    /\ cmd \in Item \cup {NoItem}
    /\ pushed \in [Item -> Nat]
    /\ faults \in 0 .. MaxFault

\* An item is pushed once, however often its failure, its episodes and its
\* overlays come and go: only a thread that dies between the push and its
\* receipt can repeat it.  A recurrence is the same item with the same receipt
\* (attention_delivery.py), so this also holds because a recurrence is not pushed.
PushedOnce == \A i \in Item : pushed[i] <= 1 + faults

\* Once the user no longer commands, no item stays marked as in progress: the
\* overlay times out or, its cause gone, is collected.
InFlightEnds ==
    <>[][FALSE]_cmd => <>[](\A i \in Item : overlay[i].status # "in_flight")

\* Once things stay as they are, the blocker in first place has been pushed or
\* has failed three times; the push may be one of an earlier occurrence.
BlockerDelivered ==
    <>[][FALSE]_<<failing, verdict, overlay, cmd>> =>
        <>[](Primary # NoItem =>
                receipt[Primary].status = "delivered" \/ Exhausted(Primary))
=============================================================================
