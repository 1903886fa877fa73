-------------------------- MODULE NewsDriftProofs --------------------------
(***************************************************************************)
(* What the ledger of the news drift sleeve guarantees for any stories,    *)
(* events, horizons, limits and any number of kills: signals, proposals    *)
(* and labels are written once each, and a kill costs the one event or     *)
(* signal that the worker had in its hands.                                *)
(***************************************************************************)
EXTENDS NewsDrift, FiniteSetTheorems, SequenceTheorems, TLAPS

\* The worker is a record, and no time it remembers lies in the future.
CycleShape ==
    /\ cycle = [step |-> cycle.step, at |-> cycle.at, todo |-> cycle.todo,
                item |-> cycle.item, batch |-> cycle.batch, heard |-> cycle.heard,
                fresh |-> cycle.fresh]
    /\ cycle.at <= clock /\ cycle.heard <= clock

NoLabel(i) == ~\E l \in labels : l.proposal = i[1] /\ l.horizon = i[2]

\* What is still to be done has not been done: no label that is to be resolved is
\* on record, no signal that is to be screened has a proposal, and the events to be
\* persisted belong to the stories that the model was sent.
TodoIsOpen ==
    /\ cycle.step = "labels" =>
          \A i \in cycle.todo : i \in ProposalIds \X Horizons /\ NoLabel(i)
    /\ cycle.step \in {"retry", "screen", "propose"} => cycle.todo \subseteq Unproposed
    /\ cycle.step \in {"ingest", "record"} =>
          \A e \in cycle.todo : e \in Events /\ StoryOf[e] \in cycle.batch

\* What the worker has in its hands between two commits: an event that is pending,
\* and then has no signal, or a signal that has no proposal.
HandIsOpen ==
    /\ cycle.step = "record" =>
          \E e \in Events : cycle.item = <<e>> /\ ledger[e] = "pending"
    /\ cycle.step = "propose" =>
          \E s \in Unproposed \ cycle.todo, k \in {"retry", "screen"} : cycle.item = <<s, k>>

\* The signals that this cycle has recorded and not yet screened.
FreshIsOpen ==
    /\ cycle.fresh \subseteq Unproposed
    /\ cycle.step \notin {"ingest", "record"} => cycle.fresh = {}

\* The signal and the mark on its event are one commit.
SignalsAreMarked == \A s \in SignalIds : ledger[signals[s].event] = "emitted"

\* The stories at hand were not withheld when the cycle began.
BatchIsDue ==
    cycle.step \in {"analyze", "ingest", "record"} =>
        /\ cycle.batch \subseteq Stories
        /\ \A s \in cycle.batch : ~Withheld(s, cycle.at)
        /\ cycle.step # "analyze" => cycle.at <= cycle.heard

IInv ==
    /\ TypeOK /\ CycleShape /\ TodoIsOpen /\ HandIsOpen /\ FreshIsOpen
    /\ SignalsAreMarked /\ BatchIsDue /\ IdempotentLedger

-----------------------------------------------------------------------------
(* Sequences *)

\* Append extends a sequence by one element and keeps the others.
LEMMA Appended ==
    ASSUME NEW S, NEW seq \in Seq(S), NEW x \in S
    PROVE  /\ Append(seq, x) \in Seq(S)
           /\ DOMAIN seq = 1..Len(seq) /\ Len(seq) \in Nat
           /\ DOMAIN Append(seq, x) = 1..Len(seq) + 1
           /\ \A i \in DOMAIN seq : Append(seq, x)[i] = seq[i]
           /\ Append(seq, x)[Len(seq) + 1] = x
OBVIOUS

\* What TypeOK says of the identifiers.
LEMMA Identifiers ==
    ASSUME TypeOK
    PROVE  /\ SignalIds = 1..Len(signals) /\ Len(signals) \in Nat
           /\ ProposalIds = 1..Len(proposals) /\ Len(proposals) \in Nat
           /\ \A s \in SignalIds : signals[s] \in Signal
           /\ \A p \in ProposalIds :
                 proposals[p].signal \in SignalIds /\ proposals[p].at \in 0..LastTime
<1>1. SignalIds = 1..Len(signals) /\ Len(signals) \in Nat
      /\ \A s \in SignalIds : signals[s] \in Signal
  BY DEF TypeOK, SignalIds
<1> DEFINE P == [signal : SignalIds, at : 0..LastTime]
<1>2. ProposalIds = 1..Len(proposals) /\ Len(proposals) \in Nat
      /\ \A p \in ProposalIds : proposals[p] \in P
  <2>1. proposals \in Seq(P) BY DEF TypeOK
  <2> HIDE DEF P
  <2> QED BY <2>1 DEF ProposalIds
<1> QED BY <1>1, <1>2

\* A proposal stays, with its signal, when one is appended.
LEMMA LabelsGrow ==
    ASSUME NEW old, NEW new, old \subseteq new
    PROVE  [proposal : old, horizon : Horizons, value : {"valued", "unavailable"},
            at : 0..LastTime] \subseteq
           [proposal : new, horizon : Horizons, value : {"valued", "unavailable"},
            at : 0..LastTime]
OBVIOUS

LEMMA InitIInv == Init => IInv
<1> SUFFICES ASSUME Init PROVE IInv
    OBVIOUS
<1> USE ConstantsAssumption DEF Init, Idle
<1>1. SignalIds = {} /\ ProposalIds = {} /\ Unproposed = {}
  BY DEF SignalIds, ProposalIds, Unproposed
<1>2. TypeOK
  <2>1. signals \in Seq(Signal) /\ proposals \in Seq([signal : SignalIds, at : 0..LastTime])
    OBVIOUS
  <2> QED BY <1>1, <2>1 DEF TypeOK
<1>3. CycleShape /\ TodoIsOpen /\ HandIsOpen /\ FreshIsOpen /\ BatchIsDue
  BY <1>1 DEF CycleShape, TodoIsOpen, HandIsOpen, FreshIsOpen, BatchIsDue
<1>4. SignalsAreMarked /\ IdempotentLedger
  BY <1>1 DEF SignalsAreMarked, IdempotentLedger
<1> QED BY <1>2, <1>3, <1>4 DEF IInv

-----------------------------------------------------------------------------
(* Steps that write nothing into the ledger *)

\* The sets that the ledger defines do not change with it.
LEMMA SameLedger ==
    ASSUME UNCHANGED database
    PROVE  /\ SignalIds' = SignalIds /\ ProposalIds' = ProposalIds
           /\ Unproposed' = Unproposed /\ Label' = Label
           /\ \A i : NoLabel(i)' <=> NoLabel(i)
BY DEF database, SignalIds, ProposalIds, Unproposed, Label, NoLabel

\* The worker moves on, and nothing else does but the clock of its search and
\* the number of kills.
Quiet == UNCHANGED <<clock, database, sent>>

\* What is left to show when only the worker moves.
LEMMA QuietStep ==
    ASSUME IInv, Quiet, CycleShape', TodoIsOpen', HandIsOpen', FreshIsOpen', BatchIsDue',
           cycle'.step \in {"idle", "labels", "gate", "retry", "claim", "search", "analyze",
                            "ingest", "record", "screen", "propose"},
           cycle'.at \in 0..LastTime, cycle'.heard \in 0..LastTime,
           cycle'.batch \subseteq Stories,
           searched' \in 0..LastTime + 1, kills' \in 0..MaxCrashes
    PROVE  IInv'
<1> USE DEF Quiet
<1>1. SignalIds' = SignalIds /\ ProposalIds' = ProposalIds /\ Unproposed' = Unproposed
      /\ Label' = Label
  BY SameLedger
<1>2. TypeOK'
  <2>1. cycle'.fresh \subseteq SignalIds BY <1>1 DEF FreshIsOpen, Unproposed
  <2> QED BY <1>1, <2>1 DEF IInv, TypeOK, database
<1>3. SignalsAreMarked' /\ IdempotentLedger'
  BY <1>1 DEF IInv, SignalsAreMarked, IdempotentLedger, database
<1> QED BY <1>2, <1>3 DEF IInv

\* StartCycle, the steps between the stages, and those that drop the work at hand.
LEMMA MovingStep ==
    ASSUME IInv,
           \/ StartCycle \/ LabelsEnd \/ Premarket \/ Retry \/ RetryEnds \/ ScreenFails
           \/ SearchCooldown \/ ClaimSearch \/ DiscoveryFails \/ Complete \/ Kill
           \/ \E i : DeferLabel(i)
           \/ \E e \in Events : IngestKnown(e)
    PROVE  IInv'
<1> USE ConstantsAssumption DEF Idle
<1>0. TypeOK /\ CycleShape /\ TodoIsOpen /\ HandIsOpen /\ FreshIsOpen /\ BatchIsDue
  BY DEF IInv
<1>s. ASSUME Quiet
      PROVE  /\ Unproposed' = Unproposed /\ ProposalIds' = ProposalIds
             /\ clock' = clock /\ ledger' = ledger /\ sent' = sent
             /\ \A i : NoLabel(i)' <=> NoLabel(i)
  BY <1>s, SameLedger DEF Quiet, database
<1>i. ASSUME cycle' = Idle, Quiet, searched' = searched, kills' \in 0..MaxCrashes PROVE IInv'
  <2>1. CycleShape' BY <1>0, <1>i, <1>s DEF CycleShape, TypeOK
  <2>2. TodoIsOpen' /\ HandIsOpen' /\ FreshIsOpen' /\ BatchIsDue'
    BY <1>i DEF TodoIsOpen, HandIsOpen, FreshIsOpen, BatchIsDue
  <2> QED BY <1>0, <1>i, <2>1, <2>2, QuietStep DEF TypeOK
<1>1. CASE StartCycle
  <2>1. Quiet /\ UNCHANGED <<searched, kills>>
        /\ cycle' = [Idle EXCEPT !.step = "labels", !.at = clock, !.todo = Due(clock)]
    BY <1>1 DEF StartCycle, Quiet, cooldowns
  <2>2. \A i \in Due(clock) : i \in ProposalIds \X Horizons /\ NoLabel(i) BY DEF Due, NoLabel
  <2>3. CycleShape'
    <3>1. clock' = clock /\ clock \in Nat BY <1>0, <1>s, <2>1 DEF TypeOK
    <3>2. cycle'.at = clock /\ cycle'.heard = 0 BY <2>1
    <3>3. clock <= clock /\ 0 <= clock BY <3>1
    <3> QED BY <2>1, <3>1, <3>2, <3>3 DEF CycleShape
  <2>4. TodoIsOpen' BY <1>s, <2>1, <2>2 DEF TodoIsOpen
  <2>5. HandIsOpen' /\ FreshIsOpen' /\ BatchIsDue'
    BY <2>1 DEF HandIsOpen, FreshIsOpen, BatchIsDue
  <2> QED BY <1>0, <2>1, <2>3, <2>4, <2>5, QuietStep DEF TypeOK
<1>2. ASSUME NEW step \in {"gate", "claim", "retry", "search"}, NEW todo,
             Goto(step, todo), Quiet, searched' \in 0..LastTime + 1, kills' = kills,
             cycle.step \in {"labels", "gate", "retry", "claim"},
             step = "retry" => todo \subseteq Unproposed
      PROVE  IInv'
  <2>1. cycle' = [cycle EXCEPT !.step = step, !.todo = todo] BY <1>2 DEF Goto
  <2>2. CycleShape' BY <1>0, <1>2, <1>s, <2>1 DEF CycleShape
  <2>3. cycle'.step = step /\ cycle'.todo = todo /\ cycle'.fresh = cycle.fresh
        /\ cycle'.at = cycle.at /\ cycle'.heard = cycle.heard /\ cycle'.batch = cycle.batch
    BY <1>0, <2>1 DEF CycleShape
  <2>4. TodoIsOpen' /\ HandIsOpen' /\ BatchIsDue'
    BY <1>2, <1>s, <2>3 DEF TodoIsOpen, HandIsOpen, BatchIsDue
  <2>5. FreshIsOpen' BY <1>0, <1>2, <1>s, <2>3 DEF FreshIsOpen
  <2> QED BY <1>0, <1>2, <2>2, <2>3, <2>4, <2>5, QuietStep DEF TypeOK
<1>3. ASSUME LabelsEnd \/ Premarket \/ Retry \/ RetryEnds PROVE IInv'
  <2>1. Quiet /\ UNCHANGED <<searched, kills>>
    BY <1>3 DEF LabelsEnd, Premarket, Retry, RetryEnds, Quiet, cooldowns
  <2>2. searched' \in 0..LastTime + 1 /\ kills' \in 0..MaxCrashes BY <1>0, <2>1 DEF TypeOK
  <2>3. CASE LabelsEnd BY <2>1, <2>2, <2>3, <1>i, <1>2 DEF LabelsEnd, End
  <2>4. CASE Premarket BY <2>1, <2>2, <2>4, <1>2 DEF Premarket
  <2>5. CASE Retry
    <3>1. PICK listed \in SUBSET Unproposed : Goto("retry", listed \cap Retryable)
      BY <2>5 DEF Retry
    <3>2. listed \cap Retryable \subseteq Unproposed OBVIOUS
    <3>3. cycle.step = "gate" BY <2>5 DEF Retry
    <3> HIDE DEF Retryable
    <3> QED BY <2>1, <2>2, <3>1, <3>2, <3>3, <1>2
  <2>6. CASE RetryEnds BY <2>1, <2>2, <2>6, <1>2 DEF RetryEnds
  <2> QED BY <1>3, <2>3, <2>4, <2>5, <2>6
<1>4. CASE ClaimSearch
  <2>1. Quiet /\ kills' = kills /\ searched' = cycle.at + 1 /\ Goto("search", {})
        /\ cycle.step = "claim"
    BY <1>4 DEF ClaimSearch, Quiet
  <2>2. searched' \in 0..LastTime + 1 BY <1>0, <2>1 DEF TypeOK
  <2> QED BY <1>2, <2>1, <2>2
<1>5. ASSUME ScreenFails \/ SearchCooldown \/ DiscoveryFails \/ Complete \/ Kill PROVE IInv'
  <2>1. Quiet /\ searched' = searched /\ cycle' = Idle
    BY <1>5 DEF ScreenFails, SearchCooldown, DiscoveryFails, Complete, Kill, End, Quiet, cooldowns
  <2>2. kills' \in 0..MaxCrashes
    <3>1. CASE Kill BY <1>0, <3>1 DEF Kill, TypeOK
    <3>2. CASE ~Kill
      BY <1>0, <1>5, <3>2
      DEF ScreenFails, SearchCooldown, DiscoveryFails, Complete, TypeOK
    <3> QED BY <3>1, <3>2
  <2> QED BY <2>1, <2>2, <1>i
<1>6. ASSUME (\E i : DeferLabel(i)) \/ (\E e \in Events : IngestKnown(e)) PROVE IInv'
  <2>1. PICK i : Done(i) BY <1>6 DEF DeferLabel, IngestKnown
  <2>2. Quiet /\ UNCHANGED <<searched, kills>> /\ cycle.step \in {"labels", "ingest"}
    BY <1>6 DEF DeferLabel, IngestKnown, Quiet, cooldowns
  <2>3. CycleShape' BY <1>0, <1>s, <2>1, <2>2 DEF CycleShape, Done
  <2>4. /\ cycle'.step = cycle.step /\ cycle'.todo \subseteq cycle.todo
        /\ cycle'.fresh = cycle.fresh /\ cycle'.at = cycle.at /\ cycle'.heard = cycle.heard
        /\ cycle'.batch = cycle.batch
    BY <1>0, <2>1 DEF CycleShape, Done
  <2>5. TodoIsOpen' /\ HandIsOpen' BY <1>0, <1>s, <2>2, <2>4 DEF TodoIsOpen, HandIsOpen
  <2>6. FreshIsOpen' /\ BatchIsDue'
    BY <1>0, <1>s, <2>2, <2>4 DEF FreshIsOpen, BatchIsDue, Withheld
  <2> QED BY <1>0, <2>2, <2>3, <2>4, <2>5, <2>6, QuietStep DEF TypeOK
<1> QED BY <1>1, <1>3, <1>4, <1>5, <1>6

\* The search chooses stories that are not withheld, and the model names events of
\* those that it was sent.
LEMMA ResearchStep ==
    ASSUME IInv,
           \/ \E found \in SUBSET Stories : Search(found)
           \/ \E named \in SUBSET Events : Analyze(named)
    PROVE  IInv'
<1> USE ConstantsAssumption DEF Idle
<1>0. TypeOK /\ CycleShape /\ TodoIsOpen /\ HandIsOpen /\ FreshIsOpen /\ BatchIsDue
  BY DEF IInv
<1>q. Quiet /\ UNCHANGED <<searched, kills>> BY DEF Search, Analyze, Quiet, cooldowns
<1>s. /\ Unproposed' = Unproposed /\ clock' = clock /\ sent' = sent /\ kills' = kills
      /\ searched' = searched
  BY <1>q, SameLedger DEF Quiet
<1>1. ASSUME NEW found \in SUBSET Stories, Search(found) PROVE IInv'
  <2> DEFINE unseen == {s \in found : ~Withheld(s, cycle.at)}
  <2>1. CASE unseen = {}
    <3>1. cycle' = Idle BY <1>1, <2>1 DEF Search, End
    <3>2. CycleShape' BY <1>0, <1>s, <3>1 DEF CycleShape, TypeOK
    <3>3. TodoIsOpen' /\ HandIsOpen' /\ FreshIsOpen' /\ BatchIsDue'
      BY <3>1 DEF TodoIsOpen, HandIsOpen, FreshIsOpen, BatchIsDue
    <3> QED BY <1>0, <1>q, <1>s, <3>1, <3>2, <3>3, QuietStep DEF TypeOK
  <2>2. CASE unseen # {}
    <3>1. PICK batch \in SUBSET unseen :
             cycle' = [cycle EXCEPT !.step = "analyze", !.batch = batch]
      BY <1>1, <2>2 DEF Search
    <3>2. CycleShape' BY <1>0, <1>s, <3>1 DEF CycleShape
    <3>3. /\ cycle'.step = "analyze" /\ cycle'.batch = batch /\ cycle'.fresh = cycle.fresh
          /\ cycle'.at = cycle.at /\ cycle'.heard = cycle.heard
      BY <1>0, <3>1 DEF CycleShape
    <3>4. batch \subseteq Stories /\ \A s \in batch : ~Withheld(s, cycle.at) OBVIOUS
    <3> HIDE DEF unseen
    <3>5. BatchIsDue' BY <1>s, <3>3, <3>4 DEF BatchIsDue, Withheld
    <3>6. TodoIsOpen' /\ HandIsOpen' BY <3>3 DEF TodoIsOpen, HandIsOpen
    <3>7. FreshIsOpen' BY <1>0, <1>1, <1>s, <3>3 DEF FreshIsOpen, Search
    <3> QED BY <1>0, <1>q, <1>s, <3>2, <3>3, <3>4, <3>5, <3>6, <3>7, QuietStep DEF TypeOK
  <2> QED BY <2>1, <2>2
<1>2. ASSUME NEW named \in SUBSET Events, Analyze(named) PROVE IInv'
  <2>1. /\ cycle' = [cycle EXCEPT !.step = "ingest", !.todo = named, !.heard = clock]
        /\ cycle.step = "analyze" /\ \A e \in named : StoryOf[e] \in cycle.batch
    BY <1>2 DEF Analyze
  <2>2. CycleShape'
    <3>1. clock \in Nat BY <1>0 DEF TypeOK
    <3>2. clock <= clock BY <3>1
    <3> QED BY <1>0, <1>s, <2>1, <3>2 DEF CycleShape
  <2>3. /\ cycle'.step = "ingest" /\ cycle'.batch = cycle.batch /\ cycle'.fresh = cycle.fresh
        /\ cycle'.at = cycle.at /\ cycle'.heard = clock /\ cycle'.todo = named
    BY <1>0, <2>1 DEF CycleShape
  <2>4. BatchIsDue' BY <1>0, <1>s, <2>1, <2>3 DEF BatchIsDue, Withheld, CycleShape
  <2>5. TodoIsOpen' /\ HandIsOpen' BY <2>1, <2>3 DEF TodoIsOpen, HandIsOpen
  <2>6. FreshIsOpen' BY <1>0, <1>s, <2>1, <2>3 DEF FreshIsOpen
  <2> QED BY <1>0, <1>q, <1>s, <2>2, <2>3, <2>4, <2>5, <2>6, QuietStep DEF TypeOK
<1> QED BY <1>1, <1>2

-----------------------------------------------------------------------------
(* Steps that write the ledger, the cooldowns or the clock *)

\* A label is recorded for an item that has none.
LEMMA RecordLabelStep ==
    ASSUME IInv, NEW item, NEW quoted, RecordLabel(item, quoted)
    PROVE  IInv'
<1> USE ConstantsAssumption
<1>0. TypeOK /\ CycleShape /\ TodoIsOpen /\ HandIsOpen /\ FreshIsOpen /\ BatchIsDue
      /\ SignalsAreMarked /\ IdempotentLedger
  BY DEF IInv
<1>1. item \in ProposalIds \X Horizons /\ NoLabel(item) /\ cycle.step = "labels"
  BY <1>0 DEF RecordLabel, TodoIsOpen
<1>2. PICK value \in {"valued", "unavailable"}, at \in 0..LastTime :
         labels' = labels \cup {[proposal |-> item[1], horizon |-> item[2],
                                 value |-> value, at |-> at]}
  <2> DEFINE target == proposals[item[1]].at + item[2]
             value == IF quoted = target THEN "valued" ELSE "unavailable"
             at == IF quoted = target THEN quoted ELSE cycle.at
  <2>1. /\ labels' = labels \cup {[proposal |-> item[1], horizon |-> item[2],
                                   value |-> value, at |-> at]}
        /\ quoted <= cycle.at
    BY DEF RecordLabel
  <2>2. proposals[item[1]].at \in Nat /\ item[2] \in Nat
    <3>1. item[1] \in ProposalIds /\ item[2] \in Horizons BY <1>1
    <3>2. proposals[item[1]].at \in 0..LastTime BY <1>0, <3>1, Identifiers
    <3>3. \A x \in 0..LastTime : x \in Nat OBVIOUS
    <3>4. proposals[item[1]].at \in Nat BY ONLY <3>2, <3>3
    <3>5. item[2] \in Nat BY ONLY <3>1, ConstantsAssumption
    <3> QED BY ONLY <3>4, <3>5
  <2>3. target \in Nat BY <2>2
  <2>4. at \in 0..LastTime
    <3> HIDE DEF target
    <3> QED BY <1>0, <2>1, <2>3 DEF TypeOK
  <2> HIDE DEF at, value, target
  <2>5. value \in {"valued", "unavailable"} BY DEF value
  <2> QED BY <2>1, <2>4, <2>5
<1>3. /\ UNCHANGED <<clock, ledger, signals, proposals, searched, sent, kills>>
      /\ cycle' = [cycle EXCEPT !.todo = @ \ {item}]
  BY DEF RecordLabel, Done, cooldowns
<1>4. SignalIds' = SignalIds /\ ProposalIds' = ProposalIds /\ Unproposed' = Unproposed
  BY <1>3 DEF SignalIds, ProposalIds, Unproposed
<1>5. /\ cycle'.step = "labels" /\ cycle'.todo = cycle.todo \ {item}
      /\ cycle'.fresh = cycle.fresh /\ cycle'.at = cycle.at /\ cycle'.heard = cycle.heard
      /\ cycle'.batch = cycle.batch
  BY <1>0, <1>1, <1>3 DEF CycleShape
<1>6. TypeOK'
  <2>1. labels' \subseteq Label BY <1>0, <1>1, <1>2 DEF Label, TypeOK
  <2>2. Label' = Label BY <1>4 DEF Label
  <2> QED BY <1>0, <1>3, <1>4, <1>5, <2>1, <2>2 DEF TypeOK
<1>7. CycleShape' BY <1>0, <1>3 DEF CycleShape
<1>8. TodoIsOpen'
  <2> SUFFICES ASSUME NEW i \in cycle'.todo
               PROVE  i \in ProposalIds \X Horizons /\ NoLabel(i)'
    BY <1>4, <1>5 DEF TodoIsOpen
  <2>1. i \in ProposalIds \X Horizons /\ NoLabel(i) /\ i # item
    BY <1>0, <1>1, <1>5 DEF TodoIsOpen
  <2>2. ~(i[1] = item[1] /\ i[2] = item[2]) BY <1>1, <2>1
  <2> QED BY <1>2, <2>1, <2>2 DEF NoLabel
<1>9. HandIsOpen' /\ FreshIsOpen' /\ BatchIsDue'
  BY <1>0, <1>1, <1>4, <1>5 DEF HandIsOpen, FreshIsOpen, BatchIsDue
<1>10. SignalsAreMarked' BY <1>0, <1>3, <1>4 DEF SignalsAreMarked
<1>11. IdempotentLedger'
  BY <1>0, <1>1, <1>2, <1>3, <1>4 DEF IdempotentLedger, NoLabel
<1> QED BY <1>6, <1>7, <1>8, <1>9, <1>10, <1>11 DEF IInv

\* An observation changes no field of a signal that the ledger is read by.
LEMMA ObserveStep ==
    ASSUME IInv, NEW s \in SignalIds, NEW verdict \in {"transient", "rejected", "passed"},
           Observe(s, verdict)
    PROVE  IInv' /\ Lost' \subseteq Lost
<1> USE ConstantsAssumption
<1>0. TypeOK /\ CycleShape /\ TodoIsOpen /\ HandIsOpen /\ FreshIsOpen /\ BatchIsDue
      /\ SignalsAreMarked /\ IdempotentLedger
  BY DEF IInv
<1>1. /\ UNCHANGED <<clock, ledger, proposals, labels, searched, sent, kills>>
      /\ signals' = [signals EXCEPT ![s] = [@ EXCEPT !.verdict = verdict, !.checked = clock]]
      /\ cycle.step \in {"retry", "screen"} /\ s \in cycle.todo
  BY DEF Observe, Observed, cooldowns
<1>2. /\ signals' \in Seq(Signal) /\ Len(signals') = Len(signals)
      /\ SignalIds' = SignalIds
      /\ \A r \in SignalIds : signals'[r].event = signals[r].event
      /\ \A r \in SignalIds \ {s} : signals'[r] = signals[r]
      /\ signals'[s].verdict = verdict
  <2>1. SignalIds = 1..Len(signals) /\ signals[s] \in Signal BY <1>0, Identifiers
  <2>2. [signals[s] EXCEPT !.verdict = verdict, !.checked = clock] \in Signal
    BY <1>0, <2>1 DEF Signal, Transient, TypeOK
  <2>3. [signals[s] EXCEPT !.verdict = verdict, !.checked = clock].event = signals[s].event
        /\ [signals[s] EXCEPT !.verdict = verdict, !.checked = clock].verdict = verdict
    BY <2>1 DEF Signal
  <2> DEFINE new == [signals[s] EXCEPT !.verdict = verdict, !.checked = clock]
  <2>4. signals' = [signals EXCEPT ![s] = new] /\ new \in Signal /\ signals \in Seq(Signal)
    BY <1>0, <1>1, <2>2 DEF TypeOK
  <2> HIDE DEF new
  <2>5. /\ signals' \in Seq(Signal) /\ Len(signals') = Len(signals)
        /\ \A r \in 1..Len(signals) : signals'[r] = IF r = s THEN new ELSE signals[r]
    BY <2>1, <2>4, ExceptSeq
  <2>6. SignalIds' = SignalIds BY <2>1, <2>5 DEF SignalIds
  <2> QED BY <2>1, <2>3, <2>5, <2>6 DEF new
<1>3. ProposalIds' = ProposalIds /\ Unproposed' = Unproposed
  BY <1>1, <1>2 DEF ProposalIds, Unproposed
<1>4. /\ cycle'.todo = cycle.todo \ {s} /\ cycle'.fresh = cycle.fresh
      /\ cycle'.at = cycle.at /\ cycle'.heard = cycle.heard /\ cycle'.batch = cycle.batch
      /\ \/ cycle'.step = cycle.step
         \/ cycle'.step = "propose" /\ cycle'.item = <<s, cycle.step>>
      /\ verdict = "passed" => cycle'.step = "propose" /\ cycle'.item[1] = s
      /\ CycleShape'
  <2>1. CASE verdict = "passed"
    <3> DEFINE hand == <<s, cycle.step>>
    <3>1. hand[1] = s OBVIOUS
    <3>2. cycle' = [cycle EXCEPT !.step = "propose", !.item = hand, !.todo = @ \ {s}]
      BY <2>1 DEF Observe
    <3>3. hand = <<s, cycle.step>> OBVIOUS
    <3> HIDE DEF hand
    <3>4. /\ cycle'.todo = cycle.todo \ {s} /\ cycle'.fresh = cycle.fresh
          /\ cycle'.at = cycle.at /\ cycle'.heard = cycle.heard /\ cycle'.batch = cycle.batch
          /\ cycle'.step = "propose" /\ cycle'.item = hand /\ CycleShape'
      BY <1>0, <1>1, <3>2 DEF CycleShape
    <3> QED BY <3>1, <3>3, <3>4
  <2>2. CASE verdict # "passed"
    <3>1. cycle' = [cycle EXCEPT !.todo = @ \ {s}] BY <2>2 DEF Observe, Done
    <3> QED BY <1>0, <1>1, <2>2, <3>1 DEF CycleShape
  <2> QED BY <2>1, <2>2
<1>5. TypeOK'
  <2>1. Label' = Label BY <1>3 DEF Label
  <2>2. cycle'.step \in {"retry", "screen", "propose"} BY <1>1, <1>4
  <2> QED BY <1>0, <1>1, <1>2, <1>3, <1>4, <2>1, <2>2 DEF TypeOK
<1>6. TodoIsOpen' BY <1>0, <1>1, <1>3, <1>4 DEF TodoIsOpen
<1>7. HandIsOpen'
  <2>1. s \in Unproposed \ cycle'.todo BY <1>0, <1>1, <1>4 DEF TodoIsOpen
  <2> QED BY <1>1, <1>3, <1>4, <2>1 DEF HandIsOpen
<1>8. FreshIsOpen' /\ BatchIsDue' BY <1>0, <1>1, <1>3, <1>4 DEF FreshIsOpen, BatchIsDue
<1>9. SignalsAreMarked' BY <1>0, <1>1, <1>2 DEF SignalsAreMarked
<1>10. IdempotentLedger' BY <1>0, <1>1, <1>2, <1>3 DEF IdempotentLedger
<1>11. Lost' \subseteq Lost
  <2>1. \A e \in Events : ledger'[e] = ledger[e] BY <1>1
  <2> QED BY <1>1, <1>2, <1>3, <1>4, <2>1 DEF Lost, Unproposed
<1> QED BY <1>4, <1>5, <1>6, <1>7, <1>8, <1>9, <1>10, <1>11 DEF IInv

\* A proposal is made for the signal at hand, which has none.
LEMMA ProposeStep == ASSUME IInv, Propose PROVE IInv' /\ Lost' \subseteq Lost
<1> USE ConstantsAssumption
<1>0. TypeOK /\ CycleShape /\ TodoIsOpen /\ HandIsOpen /\ FreshIsOpen /\ BatchIsDue
      /\ SignalsAreMarked /\ IdempotentLedger
  BY DEF IInv
<1>1. PICK s \in Unproposed \ cycle.todo, k \in {"retry", "screen"} : cycle.item = <<s, k>>
  BY <1>0 DEF Propose, HandIsOpen
<1>2. /\ UNCHANGED <<clock, ledger, signals, labels, searched, sent, kills>>
      /\ proposals' = Append(proposals, [signal |-> s, at |-> clock])
      /\ cycle' = [cycle EXCEPT !.step = k, !.item = <<>>]
      /\ cycle.step = "propose"
  BY <1>1 DEF Propose, cooldowns
<1>3. /\ SignalIds' = SignalIds /\ proposals' \in Seq([signal : SignalIds, at : 0..LastTime])
      /\ ProposalIds' = 1..Len(proposals) + 1 /\ ProposalIds = 1..Len(proposals)
      /\ Len(proposals) \in Nat
      /\ \A p \in ProposalIds : proposals'[p] = proposals[p]
      /\ proposals'[Len(proposals) + 1].signal = s
  <2> DEFINE P == [signal : SignalIds, at : 0..LastTime]
             new == [signal |-> s, at |-> clock]
  <2>1. new \in P /\ new.signal = s BY <1>0 DEF TypeOK, Unproposed
  <2>2. proposals \in Seq(P) /\ proposals' = Append(proposals, new) BY <1>0, <1>2 DEF TypeOK
  <2>3. SignalIds' = SignalIds BY <1>2 DEF SignalIds
  <2> HIDE DEF P, new
  <2>4. /\ proposals' \in Seq(P) /\ DOMAIN proposals = 1..Len(proposals)
        /\ Len(proposals) \in Nat /\ DOMAIN proposals' = 1..Len(proposals) + 1
        /\ \A i \in DOMAIN proposals : proposals'[i] = proposals[i]
        /\ proposals'[Len(proposals) + 1] = new
    BY <2>1, <2>2, Appended
  <2> QED BY <2>1, <2>3, <2>4 DEF P, ProposalIds
<1>4. Unproposed' = Unproposed \ {s}
  <2>0. ProposalIds' = 1..Len(proposals) + 1 /\ ProposalIds = 1..Len(proposals)
        /\ Len(proposals) \in Nat
    BY <1>3
  <2>1. \A p \in ProposalIds' : p \in ProposalIds \/ p = Len(proposals) + 1 BY <2>0
  <2>2. ProposalIds \subseteq ProposalIds' /\ Len(proposals) + 1 \in ProposalIds' BY <1>3
  <2>3. \A r \in SignalIds :
           (\A p \in ProposalIds' : proposals'[p].signal # r) <=>
           (\A p \in ProposalIds : proposals[p].signal # r) /\ r # s
    BY <1>3, <2>1, <2>2
  <2> QED BY <1>3, <2>3 DEF Unproposed
<1>5. /\ cycle'.step = k /\ cycle'.todo = cycle.todo /\ cycle'.fresh = cycle.fresh
      /\ cycle'.at = cycle.at /\ cycle'.heard = cycle.heard /\ cycle'.batch = cycle.batch
      /\ CycleShape'
  BY <1>0, <1>2 DEF CycleShape
<1>6. TypeOK'
  <2>1. Label \subseteq Label' BY <1>3, LabelsGrow DEF Label
  <2> QED BY <1>0, <1>2, <1>3, <1>5, <2>1 DEF TypeOK
<1>7. TodoIsOpen' /\ HandIsOpen' /\ FreshIsOpen' /\ BatchIsDue'
  BY <1>0, <1>1, <1>2, <1>4, <1>5 DEF TodoIsOpen, HandIsOpen, FreshIsOpen, BatchIsDue
<1>8. SignalsAreMarked' BY <1>0, <1>2, <1>3 DEF SignalsAreMarked
<1>9. IdempotentLedger'
  <2>1. \A p \in ProposalIds : proposals[p].signal # s BY <1>1 DEF Unproposed
  <2>2. \A p, q \in ProposalIds' : proposals'[p].signal = proposals'[q].signal => p = q
    <3> SUFFICES ASSUME NEW p \in ProposalIds', NEW q \in ProposalIds',
                        proposals'[p].signal = proposals'[q].signal
                 PROVE  p = q
      OBVIOUS
    <3>1. \A r \in ProposalIds' : r \in ProposalIds \/ r = Len(proposals) + 1 BY <1>3
    <3> QED BY <1>0, <1>3, <2>1, <3>1 DEF IdempotentLedger
  <2> QED BY <1>0, <1>2, <1>3, <2>2 DEF IdempotentLedger
<1>10. Lost' \subseteq Lost BY <1>1, <1>2, <1>4, <1>5 DEF Lost
<1> QED BY <1>5, <1>6, <1>7, <1>8, <1>9, <1>10 DEF IInv

\* A new event is pending, and in the hands of the worker.
LEMMA IngestNewStep ==
    ASSUME IInv, NEW e \in Events, IngestNew(e)
    PROVE  IInv' /\ Lost' \subseteq Lost
<1>0. TypeOK /\ CycleShape /\ TodoIsOpen /\ HandIsOpen /\ FreshIsOpen /\ BatchIsDue
      /\ SignalsAreMarked /\ IdempotentLedger
  BY DEF IInv
<1>1. /\ UNCHANGED <<clock, signals, proposals, labels, searched, sent, kills>>
      /\ ledger' = [ledger EXCEPT ![e] = "pending"] /\ ledger[e] = "absent"
      /\ cycle' = [cycle EXCEPT !.step = "record", !.item = <<e>>, !.todo = @ \ {e}]
      /\ cycle.step = "ingest"
  BY DEF IngestNew, cooldowns
<1>2. SignalIds' = SignalIds /\ ProposalIds' = ProposalIds /\ Unproposed' = Unproposed
      /\ Label' = Label
  BY <1>1 DEF SignalIds, ProposalIds, Unproposed, Label
<1>3. /\ cycle'.step = "record" /\ cycle'.todo = cycle.todo \ {e} /\ cycle'.item = <<e>>
      /\ cycle'.fresh = cycle.fresh /\ cycle'.at = cycle.at /\ cycle'.heard = cycle.heard
      /\ cycle'.batch = cycle.batch
  BY <1>0, <1>1 DEF CycleShape
<1>4. CycleShape' BY <1>0, <1>1 DEF CycleShape
<1>5. TypeOK' /\ ledger'[e] = "pending" BY <1>0, <1>1, <1>2, <1>3 DEF TypeOK
<1>6. TodoIsOpen' /\ HandIsOpen' /\ FreshIsOpen'
  BY <1>0, <1>1, <1>2, <1>3, <1>5 DEF TodoIsOpen, HandIsOpen, FreshIsOpen
<1>7. BatchIsDue' BY <1>0, <1>1, <1>3 DEF BatchIsDue, Withheld
<1>8. SignalsAreMarked'
  <2>1. \A s \in SignalIds : signals[s].event \in Events BY <1>0, Identifiers DEF Signal
  <2> QED BY <1>0, <1>1, <1>2, <2>1 DEF SignalsAreMarked, TypeOK
<1>9. IdempotentLedger' BY <1>0, <1>1, <1>2 DEF IdempotentLedger
<1>10. Lost' \subseteq Lost
  <2>1. ledger' = [f \in Events |-> IF f = e THEN "pending" ELSE ledger[f]]
    BY <1>0, <1>1 DEF TypeOK
  <2> QED BY <1>1, <1>2, <1>3, <2>1 DEF Lost
<1> QED BY <1>4, <1>5, <1>6, <1>7, <1>8, <1>9, <1>10 DEF IInv

\* The signal of the event at hand, which has none, and its mark.
LEMMA RecordSignalStep == ASSUME IInv, RecordSignal PROVE IInv' /\ Lost' \subseteq Lost
<1> USE ConstantsAssumption
<1>0. TypeOK /\ CycleShape /\ TodoIsOpen /\ HandIsOpen /\ FreshIsOpen /\ BatchIsDue
      /\ SignalsAreMarked /\ IdempotentLedger
  BY DEF IInv
<1>1. PICK e \in Events : cycle.item = <<e>> /\ ledger[e] = "pending"
  BY <1>0 DEF RecordSignal, HandIsOpen
<1> DEFINE new == [event |-> e, at |-> cycle.heard, verdict |-> "none",
                   checked |-> cycle.heard]
           n == Len(signals) + 1
<1>2. /\ UNCHANGED <<clock, proposals, labels, searched, sent, kills>>
      /\ signals' = Append(signals, new)
      /\ ledger' = [ledger EXCEPT ![e] = "emitted"]
      /\ cycle' = [cycle EXCEPT !.step = "ingest", !.item = <<>>, !.fresh = @ \cup {n}]
      /\ cycle.step = "record"
  BY <1>1 DEF RecordSignal, cooldowns
<1>3. new \in Signal /\ new.event = e /\ new.verdict = "none"
  BY <1>0, <1>1 DEF TypeOK, Signal, Transient
<1> HIDE DEF new
<1>4. /\ signals' \in Seq(Signal) /\ SignalIds = 1..Len(signals) /\ Len(signals) \in Nat
      /\ SignalIds' = 1..n /\ \A s \in SignalIds : signals'[s] = signals[s]
      /\ signals'[n] = new
  BY <1>0, <1>2, <1>3, Appended DEF TypeOK, SignalIds
<1>5. \A s \in SignalIds' : s \in SignalIds \/ s = n
  <2>1. Len(signals) \in Nat /\ SignalIds = 1..Len(signals) /\ SignalIds' = 1..n BY <1>4
  <2> QED BY <2>1
<1>6. SignalIds \subseteq SignalIds' /\ n \in SignalIds' /\ n \notin SignalIds
  <2>1. Len(signals) \in Nat /\ SignalIds = 1..Len(signals) /\ SignalIds' = 1..n BY <1>4
  <2> QED BY <2>1
<1> HIDE DEF n
<1>7. ProposalIds' = ProposalIds /\ Label' = Label BY <1>2 DEF ProposalIds, Label
<1>8. Unproposed' = Unproposed \cup {n}
  <2>1. \A p \in ProposalIds : proposals[p].signal # n BY <1>0, <1>6, Identifiers
  <2> QED BY <1>2, <1>5, <1>6, <1>7, <2>1 DEF Unproposed
<1>9. /\ cycle'.step = "ingest" /\ cycle'.todo = cycle.todo
      /\ cycle'.fresh = cycle.fresh \cup {n} /\ cycle'.at = cycle.at
      /\ cycle'.heard = cycle.heard /\ cycle'.batch = cycle.batch
  BY <1>0, <1>2 DEF CycleShape
<1>10. CycleShape' BY <1>0, <1>2 DEF CycleShape
<1>11. TypeOK'
  <2>1. proposals' \in Seq([signal : SignalIds', at : 0..LastTime])
    <3>1. [signal : SignalIds, at : 0..LastTime] \subseteq [signal : SignalIds', at : 0..LastTime]
      BY <1>6
    <3>2. proposals \in Seq([signal : SignalIds, at : 0..LastTime]) BY <1>0 DEF TypeOK
    <3> QED BY <1>2, <3>1, <3>2, SeqMonotonic
  <2>2. cycle'.fresh \subseteq SignalIds' BY <1>0, <1>6, <1>9 DEF TypeOK
  <2> QED BY <1>0, <1>1, <1>2, <1>4, <1>7, <1>9, <2>1, <2>2 DEF TypeOK
<1>12. TodoIsOpen' /\ HandIsOpen' /\ FreshIsOpen'
  BY <1>0, <1>2, <1>8, <1>9 DEF TodoIsOpen, HandIsOpen, FreshIsOpen
<1>13. BatchIsDue' BY <1>0, <1>2, <1>9 DEF BatchIsDue, Withheld
<1>14. ledger' = [r \in Events |-> IF r = e THEN "emitted" ELSE ledger[r]]
  BY <1>0, <1>1, <1>2 DEF TypeOK
<1>15. \A s \in SignalIds : signals[s].event \in Events \ {e}
  BY <1>0, <1>1, Identifiers DEF Signal, SignalsAreMarked
<1>16. SignalsAreMarked'
  BY <1>0, <1>3, <1>4, <1>5, <1>14, <1>15 DEF SignalsAreMarked
<1>17. IdempotentLedger'
  <2>1. \A s, r \in SignalIds' : signals'[s].event = signals'[r].event => s = r
    <3> SUFFICES ASSUME NEW s \in SignalIds', NEW r \in SignalIds',
                        signals'[s].event = signals'[r].event
                 PROVE  s = r
      OBVIOUS
    <3>1. CASE s \in SignalIds /\ r \in SignalIds
      BY <1>0, <1>4, <3>1 DEF IdempotentLedger
    <3>2. CASE s = n /\ r = n BY <3>2
    <3>3. CASE (s = n /\ r \in SignalIds) \/ (r = n /\ s \in SignalIds)
      BY <1>3, <1>4, <1>15, <3>3
    <3> QED BY <1>5, <3>1, <3>2, <3>3
  <2> QED BY <1>0, <1>2, <1>7, <2>1 DEF IdempotentLedger
<1>18. Lost' \subseteq Lost
  <2>1. \A s \in Unproposed : s \in SignalIds BY DEF Unproposed
  <2>2. \A f \in Events :
           ledger'[f] = "pending" => f # e /\ ledger[f] = "pending" /\ cycle.item[1] # f
    BY <1>1, <1>14
  <2>3. \A s \in Unproposed' :
           signals'[s].verdict = "passed" => s \in Unproposed /\ signals[s].verdict = "passed"
    BY <1>3, <1>4, <1>8, <2>1
  <2>4. cycle.step = "record" /\ cycle'.step = "ingest" BY <1>2, <1>9
  <2> QED BY ONLY <2>2, <2>3, <2>4 DEF Lost
<1> QED BY <1>10, <1>11, <1>12, <1>13, <1>16, <1>17, <1>18 DEF IInv

\* The cooldowns are written once every event is on record; what was recorded is
\* screened next.
LEMMA MarkSentStep == ASSUME IInv, MarkSent PROVE IInv'
<1> USE ConstantsAssumption DEF Idle
<1>0. TypeOK /\ CycleShape /\ TodoIsOpen /\ HandIsOpen /\ FreshIsOpen /\ BatchIsDue
      /\ SignalsAreMarked /\ IdempotentLedger
  BY DEF IInv
<1>1. /\ UNCHANGED <<clock, ledger, signals, proposals, labels, searched, kills>>
      /\ sent' = [s \in Stories |-> IF s \in cycle.batch THEN cycle.heard + 1 ELSE sent[s]]
      /\ cycle' = [Idle EXCEPT !.step = "screen", !.at = cycle.at, !.todo = cycle.fresh]
  BY DEF MarkSent, database
<1>2. SignalIds' = SignalIds /\ ProposalIds' = ProposalIds /\ Unproposed' = Unproposed
      /\ Label' = Label
  BY <1>1 DEF SignalIds, ProposalIds, Unproposed, Label
<1>3. CycleShape'
  <2>1. cycle'.heard = 0 /\ cycle'.at = cycle.at BY <1>1
  <2>2. cycle.at <= clock /\ 0 <= clock /\ clock' = clock
    BY <1>0, <1>1 DEF TypeOK, CycleShape
  <2>3. cycle'.at <= clock' /\ cycle'.heard <= clock' BY <2>1, <2>2
  <2> QED BY <1>1, <2>3 DEF CycleShape
<1>4. TypeOK'
  <2>1. sent' \in [Stories -> 0..LastTime + 1]
    <3>1. cycle.heard + 1 \in 0..LastTime + 1 BY <1>0 DEF TypeOK
    <3>2. \A s \in Stories : sent[s] \in 0..LastTime + 1 BY <1>0 DEF TypeOK
    <3> QED BY <1>1, <3>1, <3>2
  <2> QED BY <1>0, <1>1, <1>2, <2>1 DEF TypeOK
<1>5. TodoIsOpen' /\ HandIsOpen' /\ FreshIsOpen' /\ BatchIsDue'
  BY <1>0, <1>1, <1>2 DEF TodoIsOpen, HandIsOpen, FreshIsOpen, BatchIsDue
<1>6. SignalsAreMarked' /\ IdempotentLedger'
  BY <1>0, <1>1, <1>2 DEF SignalsAreMarked, IdempotentLedger
<1> QED BY <1>3, <1>4, <1>5, <1>6 DEF IInv

LEMMA TickStep == ASSUME IInv, Tick PROVE IInv'
<1> USE ConstantsAssumption
<1>0. TypeOK /\ CycleShape /\ TodoIsOpen /\ HandIsOpen /\ FreshIsOpen /\ BatchIsDue
      /\ SignalsAreMarked /\ IdempotentLedger
  BY DEF IInv
<1>1. /\ UNCHANGED <<ledger, signals, proposals, labels, searched, sent, cycle, kills>>
      /\ clock' = clock + 1 /\ clock < LastTime
  BY DEF Tick, database, cooldowns
<1>2. SignalIds' = SignalIds /\ ProposalIds' = ProposalIds /\ Unproposed' = Unproposed
      /\ Label' = Label /\ \A i : NoLabel(i)' <=> NoLabel(i)
  BY <1>1 DEF SignalIds, ProposalIds, Unproposed, Label, NoLabel
<1>3. TypeOK' BY <1>0, <1>1, <1>2 DEF TypeOK
<1>4. CycleShape' BY <1>0, <1>1 DEF CycleShape, TypeOK
<1>5. TodoIsOpen' /\ HandIsOpen' /\ FreshIsOpen'
  BY <1>0, <1>1, <1>2 DEF TodoIsOpen, HandIsOpen, FreshIsOpen
<1>6. BatchIsDue' BY <1>0, <1>1 DEF BatchIsDue, Withheld
<1>7. SignalsAreMarked' /\ IdempotentLedger'
  BY <1>0, <1>1, <1>2 DEF SignalsAreMarked, IdempotentLedger
<1> QED BY <1>3, <1>4, <1>5, <1>6, <1>7 DEF IInv

LEMMA StutterStep == ASSUME IInv, UNCHANGED vars PROVE IInv'
<1>1. UNCHANGED <<clock, database, cooldowns, cycle, kills>>
  BY DEF vars, database, cooldowns
<1>2. SignalIds' = SignalIds /\ ProposalIds' = ProposalIds /\ Unproposed' = Unproposed
      /\ Label' = Label /\ \A i : NoLabel(i)' <=> NoLabel(i)
  BY <1>1, SameLedger
<1> QED
  BY <1>1, <1>2 DEF IInv, TypeOK, CycleShape, TodoIsOpen, HandIsOpen, FreshIsOpen,
     BatchIsDue, Withheld, SignalsAreMarked, IdempotentLedger, database, cooldowns

\* The inductive invariant is preserved by every step.
LEMMA StepIInv == IInv /\ [Next]_vars => IInv'
<1> SUFFICES ASSUME IInv, [Next]_vars PROVE IInv'
    OBVIOUS
<1>1. CASE ResolveLabels BY <1>1, RecordLabelStep, MovingStep DEF ResolveLabels
<1>2. CASE Screen
  <2>1. ASSUME NEW s \in SignalIds, Screened(s) PROVE IInv'
    BY <2>1, ObserveStep DEF Screened
  <2> QED BY <1>2, <2>1, ProposeStep, MovingStep DEF Screen
<1>3. CASE Discover
  BY <1>3, MovingStep, ResearchStep, IngestNewStep, RecordSignalStep, MarkSentStep DEF Discover
<1>4. CASE UNCHANGED vars BY <1>4, StutterStep
<1> QED BY <1>1, <1>2, <1>3, <1>4, MovingStep, TickStep DEF Next, CycleStep

\* The inductive invariant of the sleeve: nothing that is to be done is on record
\* already, whatever the worker has reached and wherever others were killed.
THEOREM IInvHolds == Spec => []IInv
BY InitIInv, StepIInv, PTL DEF Spec

\* Every variable of the sleeve keeps its type.
THEOREM TypeCorrect == Spec => []TypeOK
<1>1. IInv => TypeOK BY DEF IInv
<1> QED BY <1>1, IInvHolds, PTL

\* One signal per event, one proposal per signal, and one label per proposal and
\* horizon, for any number of resends, retries and kills.
THEOREM IdempotentLedgerHolds == Spec => []IdempotentLedger
<1>1. IInv => IdempotentLedger BY DEF IInv
<1> QED BY <1>1, IInvHolds, PTL

-----------------------------------------------------------------------------
(* What the kills cost *)

\* A step between commits that is not a kill loses nothing.
LEMMA NothingLost ==
    ASSUME UNCHANGED <<ledger, signals, proposals>>, cycle.step \notin {"record", "propose"}
    PROVE  Lost' \subseteq Lost
BY DEF Lost, Unproposed, SignalIds, ProposalIds

\* A kill costs what the worker had in its hands.
LEMMA KillCosts == ASSUME Kill PROVE Lost' \subseteq Lost \cup {cycle.item[1]}
<1>1. UNCHANGED <<ledger, signals, proposals>> BY DEF Kill, database
<1>2. Unproposed' = Unproposed BY <1>1 DEF Unproposed, SignalIds, ProposalIds
<1> QED BY <1>1, <1>2 DEF Lost

LEMMA StepLost == IInv /\ [Next]_vars => Lost' \subseteq Lost \/ Kill
<1> SUFFICES ASSUME IInv, [Next]_vars, ~Kill PROVE Lost' \subseteq Lost
    OBVIOUS
<1> USE NothingLost DEF database
<1>1. CASE ResolveLabels
  BY <1>1 DEF ResolveLabels, DeferLabel, RecordLabel, LabelsEnd
<1>2. CASE Screen
  <2>1. ASSUME NEW s \in SignalIds, Screened(s) PROVE Lost' \subseteq Lost
    BY <2>1, ObserveStep DEF Screened
  <2>2. CASE ScreenFails BY <2>2 DEF ScreenFails
  <2> QED BY <1>2, <2>1, <2>2, ProposeStep DEF Screen
<1>3. CASE Discover
  <2>1. CASE ClaimSearch \/ SearchCooldown \/ DiscoveryFails \/ MarkSent
    BY <2>1 DEF ClaimSearch, SearchCooldown, DiscoveryFails, MarkSent
  <2>2. CASE \E found \in SUBSET Stories : Search(found) BY <2>2 DEF Search
  <2>3. CASE \E named \in SUBSET Events : Analyze(named) BY <2>3 DEF Analyze
  <2>4. CASE \E e \in Events : IngestKnown(e) BY <2>4 DEF IngestKnown
  <2> QED BY <1>3, <2>1, <2>2, <2>3, <2>4, IngestNewStep, RecordSignalStep DEF Discover
<1>4. CASE StartCycle \/ Premarket \/ Retry \/ RetryEnds \/ Complete
  BY <1>4 DEF StartCycle, Premarket, Retry, RetryEnds, Complete
<1>5. CASE Tick BY <1>5 DEF Tick
<1>6. CASE UNCHANGED vars BY <1>6 DEF vars, Lost, Unproposed, SignalIds, ProposalIds
<1> QED BY <1>1, <1>2, <1>3, <1>4, <1>5, <1>6 DEF Next, CycleStep

\* There are finitely many events, and finitely many signals.
LostInv == IsFiniteSet(Lost) /\ Cardinality(Lost) <= kills

LEMMA InitLost == Init => LostInv
<1> SUFFICES ASSUME Init PROVE LostInv
    OBVIOUS
<1>1. Lost = {} BY DEF Init, Lost, Unproposed, SignalIds
<1> QED BY <1>1, FS_EmptySet DEF LostInv, Init

LEMMA StepLostInv == IInv /\ LostInv /\ [Next]_vars => LostInv'
<1> SUFFICES ASSUME IInv, LostInv, [Next]_vars PROVE LostInv'
    OBVIOUS
<1>1. kills \in Nat BY ConstantsAssumption DEF IInv, TypeOK
<1>2. CASE Kill
  <2>1. /\ IsFiniteSet(Lost \cup {cycle.item[1]})
        /\ Cardinality(Lost \cup {cycle.item[1]}) <= Cardinality(Lost) + 1
    BY FS_AddElement, FS_CardinalityType DEF LostInv
  <2>2. /\ IsFiniteSet(Lost')
        /\ Cardinality(Lost') <= Cardinality(Lost \cup {cycle.item[1]})
    BY <1>2, <2>1, KillCosts, FS_Subset
  <2>3. Cardinality(Lost) \in Nat /\ Cardinality(Lost') \in Nat
        /\ Cardinality(Lost \cup {cycle.item[1]}) \in Nat
    BY <2>1, <2>2, FS_CardinalityType DEF LostInv
  <2>4. kills' = kills + 1 BY <1>2 DEF Kill
  <2> QED BY <1>1, <2>1, <2>2, <2>3, <2>4 DEF LostInv
<1>3. CASE Lost' \subseteq Lost
  <2>1. IsFiniteSet(Lost') /\ Cardinality(Lost') <= Cardinality(Lost)
    BY <1>3, FS_Subset DEF LostInv
  <2>2. Cardinality(Lost) \in Nat /\ Cardinality(Lost') \in Nat
    BY <2>1, FS_CardinalityType DEF LostInv
  <2>3. kills <= kills'
    <3>1. CASE Kill BY <1>1, <3>1 DEF Kill
    <3>2. CASE ~Kill
      <4>1. kills' = kills
        BY <3>2 DEF Next, CycleStep, ResolveLabels, Screen, Screened, Discover, StartCycle,
           DeferLabel, RecordLabel, LabelsEnd, Premarket, Retry, RetryEnds, Complete,
           ScreenFails, Observe, Propose, ClaimSearch, SearchCooldown, DiscoveryFails, Search,
           Analyze, IngestKnown, IngestNew, RecordSignal, MarkSent, Tick, vars
      <4> QED BY <1>1, <4>1
    <3> QED BY <3>1, <3>2
  <2>4. kills' \in Nat BY StepIInv, ConstantsAssumption DEF IInv, TypeOK
  <2> QED BY <1>1, <2>1, <2>2, <2>3, <2>4 DEF LostInv
<1> QED BY <1>2, <1>3, StepLost

\* The events without their signal and the passed signals without their proposal
\* are at most as many as the kills, and no event that is about to be persisted
\* belongs to a story that is withheld from the model.
THEOREM LossBoundedByKillsHolds == Spec => []LossBoundedByKills
<1>1. IInv /\ LostInv => LossBoundedByKills
  <2> SUFFICES ASSUME IInv, LostInv, NEW e \in Events, cycle.step = "ingest", e \in cycle.todo
               PROVE  ~Withheld(StoryOf[e], cycle.heard)
    BY DEF LossBoundedByKills, LostInv
  <2>1. StoryOf[e] \in Stories /\ ~Withheld(StoryOf[e], cycle.at) /\ cycle.at <= cycle.heard
    BY DEF IInv, TodoIsOpen, BatchIsDue
  <2>2. cycle.at \in Nat /\ cycle.heard \in Nat /\ sent[StoryOf[e]] \in Nat
    BY <2>1, ConstantsAssumption DEF IInv, TypeOK
  <2> QED BY <2>1, <2>2, ConstantsAssumption DEF Withheld
<1> QED BY <1>1, InitLost, StepLostInv, IInvHolds, PTL DEF Spec
=============================================================================
