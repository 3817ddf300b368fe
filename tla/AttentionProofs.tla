-------------------------- MODULE AttentionProofs --------------------------
(***************************************************************************)
(* Proofs about Attention.                                                 *)
(***************************************************************************)
EXTENDS Attention, TLAPS

\* The item being pushed has an attempt left, and none has succeeded.
Sending ==
    att.pc \in {"send", "record"} =>
        /\ att.item \in Item
        /\ receipt[att.item].status # "delivered"
        /\ receipt[att.item].attempts < MaxDeliveryAttempts

Untried == \A i \in Item : receipt[i].status = "none" => receipt[i].attempts = 0

Typed == TypeOK /\ Sending /\ Untried

\* The push that is out: its receipt says so, or the thread is about to.
Out(i) ==
    receipt[i].status = "delivered" \/ (att.pc = "record" /\ att.item = i /\ att.ok)

\* Every push but the last cost a fault.
Counted == \A i \in Item : pushed[i] <= faults + IF Out(i) THEN 1 ELSE 0

Inv == Typed /\ Counted

-----------------------------------------------------------------------------

LEMMA RecordsTyped ==
    /\ NoOverlay \in Overlay
    /\ NoReceipt \in Receipt /\ NoReceipt.status = "none" /\ NoReceipt.attempts = 0
    /\ Rest \in Att /\ Rest.pc = "idle" /\ Rest.item = NoItem
BY DEF NoOverlay, Overlay, NoReceipt, Receipt, MaxDeliveryAttempts, Rest, Att

LEMMA InitInv == Init => Inv
BY RecordsTyped, AttentionAssumption
   DEF Init, AttentionInit, Inv, Typed, TypeOK, Sending, Untried, Counted, Out

\* A step that leaves receipts and pushes alone and begins no push.
LEMMA QuietStep ==
    ASSUME Inv, TypeOK', UNCHANGED <<receipt, pushed>>,
           faults' >= faults,
           \/ UNCHANGED att
           \/ att'.pc \notin {"send", "record"} /\ (att.pc # "record" \/ faults' > faults)
    PROVE  Inv'
<1>1. Sending' /\ Untried'
  BY DEF Inv, Typed, Sending, Untried
<1>2. faults \in Nat /\ faults' \in Nat /\ pushed \in [Item -> Nat]
  BY AttentionAssumption DEF Inv, Typed, TypeOK
<1>3. ASSUME NEW i \in Item PROVE pushed'[i] <= faults' + IF Out(i)' THEN 1 ELSE 0
  <2>1. pushed[i] <= faults + (IF Out(i) THEN 1 ELSE 0) /\ pushed[i] \in Nat
    BY <1>2 DEF Inv, Counted
  <2>2. CASE Out(i)'
    BY <1>2, <2>1, <2>2
  <2>3. CASE ~Out(i)' /\ ~Out(i)
    BY <1>2, <2>1, <2>3
  <2>4. CASE ~Out(i)' /\ Out(i)
    <3>1. faults' > faults
      BY <2>4 DEF Out
    <3> QED BY <1>2, <2>1, <2>4, <3>1
  <2> QED BY <2>2, <2>3, <2>4
<1> QED BY <1>1, <1>3 DEF Inv, Typed, Counted

LEMMA SendStep ==
    ASSUME Inv, NEW ok \in BOOLEAN, Send(ok)
    PROVE  Inv'
<1>1. /\ att.pc = "send" /\ att.item \in Item /\ att \in Att
      /\ receipt[att.item].status # "delivered"
      /\ att' = [att EXCEPT !.pc = "record", !.ok = ok]
      /\ UNCHANGED <<failing, overlay, receipt, cmd, faults>>
      /\ pushed' = IF ok THEN [pushed EXCEPT ![att.item] = @ + 1] ELSE pushed
  BY DEF Inv, Typed, TypeOK, Sending, Send
<1>2. att' \in Att /\ att'.pc = "record" /\ att'.ok = ok /\ att'.item = att.item
  BY <1>1 DEF Att
<1>3. pushed \in [Item -> Nat] /\ pushed' \in [Item -> Nat] /\ faults \in Nat
  BY <1>1, AttentionAssumption DEF Inv, Typed, TypeOK
<1>4. Typed'
  BY <1>1, <1>2, <1>3 DEF Inv, Typed, TypeOK, Sending, Untried
<1>5. ASSUME NEW i \in Item PROVE pushed'[i] <= faults' + IF Out(i)' THEN 1 ELSE 0
  <2>1. pushed[i] <= faults + IF Out(i) THEN 1 ELSE 0
    BY DEF Inv, Counted
  <2>2. CASE i = att.item
    <3>1. pushed[i] <= faults
      BY <1>1, <1>3, <2>1, <2>2 DEF Out
    <3>2. pushed'[i] = IF ok THEN pushed[i] + 1 ELSE pushed[i]
      BY <1>1, <1>3, <2>2
    <3>3. ok => Out(i)'
      BY <1>2, <2>2 DEF Out
    <3> QED BY <1>1, <1>3, <3>1, <3>2, <3>3
  <2>3. CASE i # att.item
    <3>1. pushed'[i] = pushed[i] /\ (Out(i) => Out(i)')
      BY <1>1, <1>3, <2>3 DEF Out
    <3> QED BY <1>1, <1>3, <2>1, <3>1
  <2> QED BY <2>2, <2>3
<1> QED BY <1>4, <1>5 DEF Inv, Counted

LEMMA RecordStep ==
    ASSUME Inv, RecordReceipt
    PROVE  Inv'
<1> DEFINE new == [status   |-> IF att.ok THEN "delivered" ELSE "failed",
                   attempts |-> receipt[att.item].attempts + 1, due |-> FALSE]
<1>1. /\ att.pc = "record" /\ att.item \in Item
      /\ receipt[att.item].attempts < MaxDeliveryAttempts
      /\ receipt[att.item].status # "delivered"
      /\ receipt \in [Item -> Receipt]
      /\ att' = Rest
      /\ UNCHANGED <<failing, overlay, cmd, pushed, faults>>
      /\ receipt' = [receipt EXCEPT ![att.item] = new]
  BY DEF Inv, Typed, TypeOK, Sending, RecordReceipt
<1>2. new \in Receipt /\ new.status # "none" /\ (att.ok => new.status = "delivered")
  BY <1>1 DEF Receipt, MaxDeliveryAttempts
<1> HIDE DEF new
<1>3. receipt' \in [Item -> Receipt]
  BY <1>1, <1>2
<1>4. Typed'
  BY <1>1, <1>2, <1>3, RecordsTyped DEF Inv, Typed, TypeOK, Sending, Untried
<1>5. \A i \in Item : Out(i) => Out(i)'
  BY <1>1, <1>2 DEF Out
<1>6. pushed \in [Item -> Nat] /\ faults \in Nat
  BY AttentionAssumption DEF Inv, Typed, TypeOK
<1>7. ASSUME NEW i \in Item PROVE pushed'[i] <= faults' + IF Out(i)' THEN 1 ELSE 0
  <2>1. pushed[i] <= faults + IF Out(i) THEN 1 ELSE 0
    BY DEF Inv, Counted
  <2>2. pushed'[i] = pushed[i] /\ faults' = faults /\ pushed[i] \in Nat /\ faults \in Nat
    BY <1>1, <1>6
  <2>3. CASE Out(i)'
    <3>1. pushed[i] <= faults + 1
      BY <2>1, <2>2
    <3> QED BY <2>2, <2>3, <3>1
  <2>4. CASE ~Out(i)'
    <3>1. pushed[i] <= faults
      BY <1>5, <2>1, <2>2, <2>4
    <3> QED BY <2>2, <2>4, <3>1
  <2> QED BY <2>3, <2>4
<1> QED BY <1>4, <1>7 DEF Inv, Counted

LEMMA ChooseStep ==
    ASSUME Inv, Choose
    PROVE  Inv'
<1>1. /\ att.pc = "deliver" /\ att \in Att
      /\ UNCHANGED <<failing, overlay, receipt, cmd, pushed, faults>>
      /\ att' = IF Deliverable(Primary)
                THEN [att EXCEPT !.pc = "send", !.item = Primary] ELSE Rest
  BY DEF Inv, Typed, TypeOK, Choose
<1>2. CASE ~Deliverable(Primary)
  <2>1. TypeOK' /\ att'.pc = "idle"
    BY <1>1, <1>2, RecordsTyped DEF Inv, Typed, TypeOK
  <2> QED BY <1>1, <2>1, QuietStep, AttentionAssumption DEF Inv, Typed, TypeOK
<1>3. CASE Deliverable(Primary)
  <2>1. /\ Primary \in Item /\ receipt[Primary].status # "delivered"
        /\ receipt[Primary].attempts < MaxDeliveryAttempts
    BY <1>3 DEF Deliverable, Exhausted, Blocker, Item, Inv, Typed, TypeOK, Untried,
       Receipt, MaxDeliveryAttempts
  <2> DEFINE item == Primary
  <2> HIDE DEF item
  <2>2. att' = [att EXCEPT !.pc = "send", !.item = item]
    BY <1>1, <1>3 DEF item
  <2>3. item \in Item /\ receipt[item].status # "delivered"
        /\ receipt[item].attempts < MaxDeliveryAttempts
    BY <2>1 DEF item
  <2>4. att' \in Att /\ att'.pc = "send" /\ att'.item = item
    BY <1>1, <2>2, <2>3 DEF Att
  <2>5. Typed'
    BY <1>1, <2>3, <2>4 DEF Inv, Typed, TypeOK, Sending, Untried
  <2>6. \A i \in Item : Out(i)' = Out(i)
    BY <1>1, <2>4 DEF Out
  <2> QED BY <1>1, <2>5, <2>6 DEF Inv, Counted
<1> QED BY <1>2, <1>3

LEMMA ElapseStep ==
    ASSUME Inv, NEW i \in Item, Elapse(i)
    PROVE  Inv'
<1>1. /\ att.pc = "idle" /\ overlay \in [Item -> Overlay] /\ receipt \in [Item -> Receipt]
      /\ UNCHANGED <<failing, att, cmd, pushed, faults>>
  BY DEF Inv, Typed, TypeOK, Elapse
<1>2. CASE overlay' = [overlay EXCEPT ![i].over = TRUE] /\ UNCHANGED receipt
  <2>1. overlay' \in [Item -> Overlay]
    BY <1>1, <1>2 DEF Overlay
  <2>2. TypeOK'
    BY <1>1, <1>2, <2>1 DEF Inv, Typed, TypeOK
  <2> QED BY <1>1, <1>2, <2>2, QuietStep, AttentionAssumption DEF Inv, Typed, TypeOK
<1>3. CASE receipt' = [receipt EXCEPT ![i].due = TRUE] /\ UNCHANGED overlay
  <2>1. receipt' \in [Item -> Receipt]
    BY <1>1, <1>3 DEF Receipt
  <2>2. \A j \in Item : /\ receipt'[j].status = receipt[j].status
                        /\ receipt'[j].attempts = receipt[j].attempts
    BY <1>1, <1>3 DEF Receipt
  <2>3. Typed'
    BY <1>1, <1>3, <2>1, <2>2 DEF Inv, Typed, TypeOK, Sending, Untried
  <2>4. \A j \in Item : Out(j)' = Out(j)
    BY <1>1, <2>2 DEF Out
  <2> QED BY <1>1, <2>3, <2>4 DEF Inv, Counted
<1> QED BY <1>2, <1>3 DEF Elapse

LEMMA InvStep == Inv /\ [Next]_allVars => Inv'
<1> SUFFICES ASSUME Inv, [Next]_allVars PROVE Inv'
  OBVIOUS
<1>1. TypeOK /\ faults \in Nat
  BY AttentionAssumption DEF Inv, Typed, TypeOK
<1>2. ASSUME UNCHANGED attentionVars PROVE Inv'
  BY <1>1, <1>2, QuietStep DEF attentionVars, TypeOK
<1>3. CASE FailingChanges \/ (\E i \in Item : FindItem(i)) \/ Snooze \/ StartCta
  <2>1. /\ UNCHANGED <<receipt, att, pushed, faults>>
        /\ failing' \in FailingSet /\ cmd' \in Item \cup {NoItem}
    BY <1>1, <1>3 DEF FailingChanges, FindItem, Snooze, StartCta, Cover, TypeOK
  <2>2. overlay' \in [Item -> Overlay]
    <3>1. ASSUME NEW status \in {"snoozed", "in_flight"}, Cover(status)
          PROVE  overlay' \in [Item -> Overlay]
      <4>1. [status |-> status, over |-> FALSE] \in Overlay
        BY DEF Overlay
      <4>2. overlay' = [overlay EXCEPT ![cmd] = [status |-> status, over |-> FALSE]]
        BY <3>1 DEF Cover
      <4> QED BY <1>1, <4>1, <4>2 DEF TypeOK
    <3>2. CASE FailingChanges \/ \E i \in Item : FindItem(i)
      BY <1>1, <3>2 DEF FailingChanges, FindItem, TypeOK
    <3> QED BY <1>3, <3>1, <3>2 DEF Snooze, StartCta
  <2>3. TypeOK'
    BY <1>1, <2>1, <2>2 DEF TypeOK
  <2> QED BY <1>1, <2>1, <2>3, QuietStep
<1>4. ASSUME NEW live, Sweep(live), faults' \in faults .. MaxFault PROVE Inv'
  <2>1. /\ att.pc = "idle" /\ att' = [Rest EXCEPT !.pc = "clear", !.doomed = Obsolete(live)]
        /\ UNCHANGED <<failing, overlay, receipt, cmd, pushed>>
        /\ Obsolete(live) \subseteq Item
    BY <1>4 DEF Sweep, Obsolete
  <2>2. att' \in Att /\ att'.pc = "clear"
    BY <2>1, RecordsTyped DEF Att
  <2>3. TypeOK'
    BY <1>1, <1>4, <2>1, <2>2 DEF TypeOK
  <2> QED BY <1>1, <1>4, <2>1, <2>2, <2>3, QuietStep
<1>5. CASE BeginSweep \/ BlindSweep
  BY <1>1, <1>4, <1>5, AttentionAssumption DEF BeginSweep, BlindSweep, TypeOK
<1>6. ASSUME NEW i \in Item, ClearOverlay(i) PROVE Inv'
  <2>1. /\ att.pc = "clear" /\ att' = [att EXCEPT !.doomed = @ \ {i}] /\ att \in Att
        /\ overlay' = [overlay EXCEPT ![i] = NoOverlay]
        /\ UNCHANGED <<failing, receipt, cmd, pushed, faults>>
    BY <1>1, <1>6 DEF ClearOverlay, TypeOK
  <2>2. att' \in Att /\ att'.pc = "clear"
    BY <2>1 DEF Att
  <2>3. TypeOK'
    BY <1>1, <2>1, <2>2, RecordsTyped DEF TypeOK
  <2> QED BY <1>1, <2>1, <2>2, <2>3, QuietStep
<1>7. CASE EndClearing
  <2>1. /\ att.pc = "clear" /\ att' = [att EXCEPT !.pc = "deliver"] /\ att \in Att
        /\ UNCHANGED <<failing, overlay, receipt, cmd, pushed, faults>>
    BY <1>1, <1>7 DEF EndClearing, TypeOK
  <2>2. att' \in Att /\ att'.pc = "deliver"
    BY <2>1 DEF Att
  <2>3. TypeOK'
    BY <1>1, <2>1, <2>2 DEF TypeOK
  <2> QED BY <1>1, <2>1, <2>2, <2>3, QuietStep
<1>8. CASE ThreadDies
  <2>1. att' = Rest /\ faults' = faults + 1 /\ faults' \in 0 .. MaxFault
        /\ UNCHANGED <<failing, overlay, receipt, cmd, pushed>>
    BY <1>1, <1>8, AttentionAssumption DEF ThreadDies, TypeOK
  <2>2. TypeOK'
    BY <1>1, <2>1, RecordsTyped DEF TypeOK
  <2> QED BY <1>1, <2>1, <2>2, RecordsTyped, QuietStep
<1>9. CASE UNCHANGED allVars \/ RecoveryStep
  BY <1>2, <1>9 DEF allVars, RecoveryStep
<1> QED BY <1>3, <1>5, <1>6, <1>7, <1>8, <1>9, ChooseStep, SendStep, RecordStep, ElapseStep
        DEF Next, ThreadStep

\* The overlays, receipts and thread keep their types: no item is ever tried
\* more than MaxDeliveryAttempts times.
THEOREM TypeCorrect == Spec => []TypeOK
BY InitInv, InvStep, PTL DEF Spec, Inv, Typed

\* One push for each item, and one more for each time the thread died between
\* a push and its receipt, whatever recovery, the failures and the user do.
THEOREM PushedOnceHolds == Spec => []PushedOnce
<1>1. Inv => PushedOnce
  <2> SUFFICES ASSUME Inv, NEW i \in Item PROVE pushed[i] <= 1 + faults
    BY DEF PushedOnce
  <2>1. pushed[i] \in Nat /\ faults \in Nat
    BY AttentionAssumption DEF Inv, Typed, TypeOK
  <2>2. pushed[i] <= faults + IF Out(i) THEN 1 ELSE 0
    BY DEF Inv, Counted
  <2> QED BY <2>1, <2>2
<1> QED BY InitInv, InvStep, <1>1, PTL DEF Spec


-----------------------------------------------------------------------------
(* What the receipts of past pushes do to later failures. *)

\* A push that was recorded as delivered is the last of its item: the receipt stays as
\* it is and nothing is pushed again, also when the failure has ended, its case was
\* closed and the same item is raised anew (attention_delivery.py finds the receipt by
\* the attention_id, which a recurrence shares).
THEOREM DeliveredIsFinal ==
    Spec => [][\A i \in Item : receipt[i].status = "delivered" =>
                  receipt'[i] = receipt[i] /\ pushed'[i] = pushed[i]]_allVars
<1>1. ASSUME Inv, [Next]_allVars, NEW i \in Item, receipt[i].status = "delivered"
      PROVE  receipt'[i] = receipt[i] /\ pushed'[i] = pushed[i]
  <2>0. receipt \in [Item -> Receipt] /\ pushed \in [Item -> Nat]
    BY <1>1 DEF Inv, Typed, TypeOK
  <2>1. ASSUME NEW ok \in BOOLEAN, Send(ok) PROVE receipt'[i] = receipt[i] /\ pushed'[i] = pushed[i]
    BY <1>1, <2>0, <2>1 DEF Send, Inv, Typed, Sending
  <2>2. CASE RecordReceipt
    BY <1>1, <2>0, <2>2 DEF RecordReceipt, Inv, Typed, Sending
  <2>3. ASSUME NEW j \in Item, Elapse(j) PROVE receipt'[i] = receipt[i] /\ pushed'[i] = pushed[i]
    <3>1. pushed' = pushed /\ (receipt' = receipt \/ j # i)
      BY <1>1, <2>3 DEF Elapse
    <3>2. \A k \in Item \ {j} : receipt'[k] = receipt[k]
      BY <2>0, <2>3 DEF Elapse
    <3> QED BY <3>1, <3>2
  <2>4. CASE /\ ~RecordReceipt /\ \A ok \in BOOLEAN : ~Send(ok)
             /\ \A j \in Item : ~Elapse(j)
    <3>1. receipt' = receipt /\ pushed' = pushed
      BY <1>1, <2>4 DEF Next, ThreadStep, BeginSweep, BlindSweep, Sweep, EndClearing, Choose,
         ClearOverlay, RecoveryStep, FailingChanges, FindItem, Snooze, StartCta, Cover,
         ThreadDies, allVars, attentionVars
    <3> QED BY <3>1
  <2> QED BY <2>1, <2>2, <2>3, <2>4
<1>2. Inv /\ [Next]_allVars =>
        [\A i \in Item : receipt[i].status = "delivered" =>
            receipt'[i] = receipt[i] /\ pushed'[i] = pushed[i]]_allVars
  BY <1>1
<1> QED BY InitInv, InvStep, <1>2, PTL DEF Spec
=============================================================================
