-------------------------- MODULE SignalWatchProofs --------------------------
(***************************************************************************)
(* Theorems about SignalWatch, for any number of watchers, interfaces and  *)
(* signals, any channel capacities and any faults of the bus.              *)
(***************************************************************************)
EXTENDS SignalWatch, SequenceTheorems, FiniteSetTheorems, TLAPS

-------------------------------------------------------------------------------
(***************************************************************************)
(* Type correctness.  One conjunct per group of variables.                 *)
(***************************************************************************)
ControlTyped ==
    /\ stage \in [Watcher -> Stage]
    /\ todo \in [Watcher -> SUBSET Iface]
    /\ cancelled \in [Watcher -> BOOLEAN]
    /\ ev \in [Watcher -> Signal \cup {NoSignal}]
    /\ \A w \in Watcher : stage[w] = "sending" => ev[w] \in Signal

RawTyped ==
    /\ raw \in [Watcher -> Seq(Signal)]
    /\ deferred \in [Watcher -> SUBSET Signal]
    /\ emitted \in Seq(Signal)
    /\ \A w \in Watcher : Len(raw[w]) <= RawCap

OutTyped ==
    /\ out \in [Watcher -> Seq(Signal)]
    /\ seen \in [Watcher -> Seq(Signal)]
    /\ \A w \in Watcher : Len(out[w]) <= OutCap

LinkTyped ==
    /\ hungUp \in [Watcher -> BOOLEAN]
    /\ registered \in [Watcher -> BOOLEAN]
    /\ open \in BOOLEAN
    /\ rules \in [Iface -> Nat]
    /\ overflowed \in [Watcher -> BOOLEAN]

LEMMA TypeParts == TypeOK <=> ControlTyped /\ RawTyped /\ OutTyped /\ LinkTyped
BY DEF TypeOK, ControlTyped, RawTyped, OutTyped, LinkTyped

LEMMA TypePartsNext == TypeOK' <=> ControlTyped' /\ RawTyped' /\ OutTyped' /\ LinkTyped'
BY DEF TypeOK, ControlTyped, RawTyped, OutTyped, LinkTyped

LEMMA InitTyped == Init => TypeOK
<1> SUFFICES ASSUME Init PROVE TypeOK
    OBVIOUS
<1> USE WatchAssumption
<1>1. ControlTyped
    BY DEF Init, ControlTyped, Stage
<1>2. RawTyped
    BY DEF Init, RawTyped
<1>3. OutTyped
    BY DEF Init, OutTyped
<1>4. LinkTyped
    BY DEF Init, LinkTyped
<1> QED  BY <1>1, <1>2, <1>3, <1>4, TypeParts

LEMMA StepControlTyped ==
    ASSUME TypeOK, NEW w \in Watcher, Step(w)
    PROVE  ControlTyped'
<1>1. ControlTyped /\ RawTyped
    BY TypeParts
<1>2. raw[w] # <<>> => Head(raw[w]) \in Signal
    BY <1>1, HeadTailProperties DEF RawTyped
<1>3. CASE Receive(w)
    BY <1>1, <1>2, <1>3 DEF Receive, ControlTyped, Stage
<1>4. CASE WatchSignals(w) \/ AddMatch(w) \/ AddMatchFails(w) \/ Register(w)
    BY <1>1, <1>4 DEF WatchSignals, AddMatch, AddMatchFails, Register, ControlTyped, Stage
<1>5. CASE Send(w) \/ Stop(w) \/ RawClosed(w)
    BY <1>1, <1>5 DEF Send, Stop, RawClosed, ControlTyped, Stage
<1>6. CASE Unregister(w) \/ RemoveMatch(w) \/ CloseOut(w)
    BY <1>1, <1>6 DEF Unregister, RemoveMatch, CloseOut, ControlTyped, Stage
<1>7. CASE Cancel(w) \/ Consume(w) \/ DeferredSend(w)
    BY <1>1, <1>7 DEF Cancel, Consume, DeferredSend, goroutineVars, ControlTyped
<1> QED  BY <1>3, <1>4, <1>5, <1>6, <1>7 DEF Step

LEMMA StepRawTyped ==
    ASSUME TypeOK, NEW w \in Watcher, Step(w)
    PROVE  RawTyped'
<1> USE WatchAssumption
<1>1. RawTyped
    BY TypeParts
<1>2. CASE Receive(w)
    <2>1. /\ Tail(raw[w]) \in Seq(Signal)
          /\ Len(Tail(raw[w])) <= RawCap
        BY <1>1, <1>2, HeadTailProperties, LenProperties DEF Receive, RawTyped
    <2> QED  BY <1>1, <1>2, <2>1 DEF Receive, RawTyped, libraryVars
<1>3. CASE DeferredSend(w)
    <2>1. PICK s \in deferred[w] : raw' = [raw EXCEPT ![w] = Append(@, s)]
        BY <1>3 DEF DeferredSend
    <2>2. /\ Append(raw[w], s) \in Seq(Signal)
          /\ Len(Append(raw[w], s)) <= RawCap
        BY <1>1, <1>3, <2>1, AppendProperties, LenProperties DEF DeferredSend, HasRoom, RawTyped
    <2> QED  BY <1>1, <1>3, <2>1, <2>2 DEF DeferredSend, RawTyped
<1>4. CASE Unregister(w)
    BY <1>1, <1>4 DEF Unregister, RawTyped
<1>5. CASE ~Receive(w) /\ ~DeferredSend(w) /\ ~Unregister(w)
    <2>1. UNCHANGED <<raw, deferred, emitted>>
        BY <1>5 DEF Step, WatchSignals, AddMatch, AddMatchFails, Register, Send, Stop, RawClosed,
            RemoveMatch, CloseOut, Cancel, Consume, libraryVars
    <2> QED  BY <1>1, <2>1 DEF RawTyped
<1> QED  BY <1>2, <1>3, <1>4, <1>5

LEMMA StepOutTyped ==
    ASSUME TypeOK, NEW w \in Watcher, Step(w)
    PROVE  OutTyped'
<1> USE WatchAssumption
<1>1. OutTyped /\ ControlTyped
    BY TypeParts
<1>2. CASE Send(w)
    <2>1. /\ Append(out[w], ev[w]) \in Seq(Signal)
          /\ Len(Append(out[w], ev[w])) <= OutCap
        BY <1>1, <1>2, AppendProperties, LenProperties DEF Send, OutTyped, ControlTyped
    <2> QED  BY <1>1, <1>2, <2>1 DEF Send, OutTyped, historyVars
<1>3. CASE Consume(w)
    <2>1. /\ Tail(out[w]) \in Seq(Signal)
          /\ Len(Tail(out[w])) <= OutCap
          /\ Append(seen[w], Head(out[w])) \in Seq(Signal)
        BY <1>1, <1>3, HeadTailProperties, LenProperties, AppendProperties DEF Consume, OutTyped
    <2> QED  BY <1>1, <1>3, <2>1 DEF Consume, OutTyped
<1>4. CASE ~Send(w) /\ ~Consume(w)
    <2>1. UNCHANGED <<out, seen>>
        BY <1>4 DEF Step, WatchSignals, AddMatch, AddMatchFails, Register, Receive, Stop, RawClosed,
            Unregister, RemoveMatch, CloseOut, Cancel, DeferredSend, historyVars
    <2> QED  BY <1>1, <2>1 DEF OutTyped
<1> QED  BY <1>2, <1>3, <1>4

LEMMA StepLinkTyped ==
    ASSUME TypeOK, NEW w \in Watcher, Step(w)
    PROVE  LinkTyped'
<1>1. LinkTyped
    BY TypeParts
<1>2. CASE AddMatch(w) \/ RemoveMatch(w)
    BY <1>1, <1>2 DEF AddMatch, RemoveMatch, LinkTyped, libraryVars, historyVars
<1>3. CASE Register(w) \/ Unregister(w)
    BY <1>1, <1>3 DEF Register, Unregister, LinkTyped, historyVars
<1>4. CASE ~(AddMatch(w) \/ RemoveMatch(w) \/ Register(w) \/ Unregister(w))
    <2>1. UNCHANGED <<hungUp, registered, open, rules, overflowed>>
        BY <1>4 DEF Step, WatchSignals, AddMatchFails, Receive, Send, Stop, RawClosed,
            CloseOut, Cancel, Consume, DeferredSend, libraryVars, historyVars
    <2> QED  BY <1>1, <2>1 DEF LinkTyped
<1> QED  BY <1>2, <1>3, <1>4

\* The signal that Dispatch makes.
NewSignal(i) == [n |-> Len(emitted) + 1, iface |-> i]

LEMMA NewSignalTyped ==
    ASSUME TypeOK, NEW i \in Iface \cup Foreign, Dispatch(i)
    PROVE  NewSignal(i) \in Signal
<1>1. Len(emitted) \in Nat /\ MaxSignals \in Nat /\ Len(emitted) < MaxSignals
    BY WatchAssumption, LenProperties DEF Dispatch, TypeOK
<1> QED  BY <1>1 DEF Signal, NewSignal

LEMMA DispatchTyped ==
    ASSUME TypeOK, NEW i \in Iface \cup Foreign, Dispatch(i)
    PROVE  TypeOK'
<1> USE WatchAssumption
<1> DEFINE s == NewSignal(i)
<1>1. ControlTyped /\ RawTyped /\ OutTyped /\ LinkTyped
    BY TypeParts
<1>2. s \in Signal
    BY NewSignalTyped
<1>3. /\ emitted' = Append(emitted, s)
      /\ raw' = [w \in Watcher |->
                   IF registered[w] /\ HasRoom(w) THEN Append(raw[w], s) ELSE raw[w]]
      /\ deferred' = [w \in Watcher |->
                        IF registered[w] /\ ~HasRoom(w) THEN deferred[w] \cup {s} ELSE deferred[w]]
    BY DEF Dispatch, NewSignal
<1>4. RawTyped'
    <2>1. ASSUME NEW w \in Watcher, HasRoom(w)
          PROVE  Append(raw[w], s) \in Seq(Signal) /\ Len(Append(raw[w], s)) <= RawCap
        BY <1>1, <1>2, <2>1, AppendProperties, LenProperties DEF RawTyped, HasRoom
    <2>2. emitted' \in Seq(Signal)
        BY <1>1, <1>2, <1>3, AppendProperties DEF RawTyped
    <2>3. raw' \in [Watcher -> Seq(Signal)] /\ \A w \in Watcher : Len(raw'[w]) <= RawCap
        BY <1>1, <1>3, <2>1 DEF RawTyped
    <2>4. deferred' \in [Watcher -> SUBSET Signal]
        BY <1>1, <1>2, <1>3 DEF RawTyped
    <2> QED  BY <2>2, <2>3, <2>4 DEF RawTyped
<1>5. ControlTyped' /\ OutTyped'
    BY <1>1 DEF Dispatch, ControlTyped, OutTyped, goroutineVars
<1>6. LinkTyped'
    BY <1>1 DEF Dispatch, LinkTyped
<1> QED  BY <1>4, <1>5, <1>6, TypePartsNext

LEMMA HangupTyped ==
    ASSUME TypeOK, Hangup
    PROVE  TypeOK'
<1>1. ControlTyped /\ RawTyped /\ OutTyped /\ LinkTyped
    BY TypeParts
<1>2. ControlTyped' /\ OutTyped'
    BY <1>1 DEF Hangup, ControlTyped, OutTyped, goroutineVars, historyVars
<1>3. RawTyped' /\ LinkTyped'
    BY <1>1 DEF Hangup, RawTyped, LinkTyped, historyVars
<1> QED  BY <1>2, <1>3, TypePartsNext

LEMMA NextTyped == TypeOK /\ [Next]_vars => TypeOK'
<1> SUFFICES ASSUME TypeOK, [Next]_vars PROVE TypeOK'
    OBVIOUS
<1>1. CASE Hangup
    BY <1>1, HangupTyped
<1>2. ASSUME NEW i \in Iface \cup Foreign, Dispatch(i) PROVE TypeOK'
    BY <1>2, DispatchTyped
<1>3. ASSUME NEW w \in Watcher, Step(w) PROVE TypeOK'
    BY <1>3, StepControlTyped, StepRawTyped, StepOutTyped, StepLinkTyped, TypePartsNext
<1>4. CASE UNCHANGED vars
    BY <1>4 DEF TypeOK, vars
<1> QED  BY <1>1, <1>2, <1>3, <1>4 DEF Next

\* The channels never exceed their capacities and carry signals only, and the goroutine
\* has one in hand whenever it sends (WatchSignals), for all capacities and faults.
THEOREM TypeCorrect == Spec => []TypeOK
BY InitTyped, NextTyped, PTL DEF Spec

-------------------------------------------------------------------------------
(***************************************************************************)
(* Match rules.  The bus counts rules and not their owners, so one watcher *)
(* could undo another's.  It does not because every watcher's own rules    *)
(* are counted: between its AddMatch of an interface and its RemoveMatch   *)
(* of it a watcher holds one rule there, and the bus has at least as many  *)
(* as there are holders.                                                   *)
(***************************************************************************)
Subscribed == {"running", "sending", "unregister"}

Holds(w, i) ==
    \/ stage[w] = "adding" /\ i \notin todo[w]
    \/ stage[w] \in Subscribed
    \/ stage[w] = "removing" /\ i \in todo[w]

Holders(i) == {w \in Watcher : Holds(w, i)}

RulesCounted ==
    /\ \A w \in Watcher : registered[w] => stage[w] \in Subscribed
    /\ \A i \in Iface : open => rules[i] >= Cardinality(Holders(i))

LEMMA HoldersFinite ==
    ASSUME NEW i
    PROVE  IsFiniteSet(Holders(i)) /\ Cardinality(Holders(i)) \in Nat
BY WatchAssumption, FS_Subset, FS_CardinalityType DEF Holders

LEMMA HoldersFiniteNext ==
    ASSUME NEW i
    PROVE  IsFiniteSet(Holders(i)') /\ Cardinality(Holders(i)') \in Nat
BY WatchAssumption, FS_Subset, FS_CardinalityType DEF Holders

LEMMA InitCounted == Init => RulesCounted
<1> SUFFICES ASSUME Init PROVE RulesCounted
    OBVIOUS
<1>1. ASSUME NEW i \in Iface PROVE rules[i] >= Cardinality(Holders(i))
    <2>1. Holders(i) = {}
        BY DEF Init, Holders, Holds, Subscribed
    <2> QED  BY <2>1, FS_EmptySet DEF Init
<1> QED  BY <1>1 DEF Init, RulesCounted

LEMMA StepCounted ==
    ASSUME TypeOK, RulesCounted, NEW w \in Watcher, Step(w)
    PROVE  RulesCounted'
<1>1. ControlTyped /\ LinkTyped
    BY TypeParts
<1>2. \A v \in Watcher : registered'[v] => stage'[v] \in Subscribed
    <2>1. CASE Register(w) \/ Unregister(w)
        BY <1>1, <2>1 DEF Register, Unregister, RulesCounted, Subscribed, ControlTyped, LinkTyped
    <2>2. CASE ~Register(w) /\ ~Unregister(w)
        <3>1. UNCHANGED registered
            BY <2>2 DEF Step, WatchSignals, AddMatch, AddMatchFails, Receive, Send, Stop, RawClosed,
                RemoveMatch, CloseOut, Cancel, Consume, DeferredSend, libraryVars
        <3>2. /\ \A v \in Watcher \ {w} : stage'[v] = stage[v]
              /\ stage[w] \in Subscribed => stage'[w] \in Subscribed
            BY <1>1, <2>2 DEF Step, WatchSignals, AddMatch, AddMatchFails, Receive, Send, Stop,
                RawClosed, RemoveMatch, CloseOut, Cancel, Consume, DeferredSend, goroutineVars,
                ControlTyped, Subscribed
        <3> QED  BY <3>1, <3>2 DEF RulesCounted
    <2> QED  BY <2>1, <2>2
<1>3. ASSUME NEW i \in Iface, open'
      PROVE  rules'[i] >= Cardinality(Holders(i)')
    <2>1. rules[i] >= Cardinality(Holders(i)) /\ rules[i] \in Nat
        BY <1>1, <1>3 DEF RulesCounted, LinkTyped, Step, WatchSignals, AddMatch, AddMatchFails,
            Register, Receive, Send, Stop, RawClosed, Unregister, RemoveMatch, CloseOut, Cancel,
            Consume, DeferredSend, libraryVars
    <2>2. CASE AddMatch(w)
        <3>1. PICK j \in todo[w] : /\ rules' = [rules EXCEPT ![j] = @ + 1]
                                   /\ todo' = [todo EXCEPT ![w] = @ \ {j}]
            BY <2>2 DEF AddMatch
        <3>2. CASE i = j
            <4>1. Holders(i)' \subseteq Holders(i) \cup {w}
                BY <1>1, <2>2, <3>1 DEF AddMatch, Holders, Holds, Subscribed, ControlTyped
            <4>2. Cardinality(Holders(i)') <= Cardinality(Holders(i)) + 1
                <5>1. /\ IsFiniteSet(Holders(i) \cup {w})
                      /\ Cardinality(Holders(i) \cup {w}) \in Nat
                      /\ Cardinality(Holders(i) \cup {w}) <= Cardinality(Holders(i)) + 1
                    <6>1. /\ IsFiniteSet(Holders(i) \cup {w})
                          /\ Cardinality(Holders(i) \cup {w}) =
                                IF w \in Holders(i) THEN Cardinality(Holders(i))
                                                    ELSE Cardinality(Holders(i)) + 1
                        BY HoldersFinite, FS_AddElement
                    <6> QED  BY <6>1, HoldersFinite
                <5>2. Cardinality(Holders(i)') <= Cardinality(Holders(i) \cup {w})
                    BY <4>1, <5>1, FS_Subset
                <5> QED  BY <5>1, <5>2, HoldersFinite, HoldersFiniteNext
            <4> QED  BY <1>1, <2>1, <3>1, <3>2, <4>2, HoldersFinite, HoldersFiniteNext DEF LinkTyped
        <3>3. CASE i # j
            <4>1. Holders(i)' = Holders(i) /\ rules'[i] = rules[i]
                BY <1>1, <2>2, <3>1, <3>3 DEF AddMatch, Holders, Holds, Subscribed, ControlTyped,
                    LinkTyped
            <4> QED  BY <2>1, <4>1
        <3> QED  BY <3>2, <3>3
    <2>3. CASE RemoveMatch(w)
        <3>1. PICK j \in todo[w] : /\ todo' = [todo EXCEPT ![w] = @ \ {j}]
                                   /\ \/ rules[j] > 0 /\ rules' = [rules EXCEPT ![j] = @ - 1]
                                      \/ UNCHANGED rules
            BY <2>3 DEF RemoveMatch
        <3>2. CASE i = j
            <4>1. w \in Holders(i) /\ Holders(i)' = Holders(i) \ {w}
                BY <1>1, <2>3, <3>1, <3>2 DEF RemoveMatch, Holders, Holds, Subscribed, ControlTyped
            <4>2. Cardinality(Holders(i)') = Cardinality(Holders(i)) - 1
                BY <4>1, HoldersFinite, FS_RemoveElement
            <4>3. rules'[i] >= rules[i] - 1
                BY <1>1, <2>1, <3>1, <3>2 DEF LinkTyped
            <4>4. rules'[i] \in Int
                BY <1>1, <2>1, <3>1, <3>2 DEF LinkTyped
            <4> QED  BY <2>1, <4>2, <4>3, <4>4, HoldersFinite
        <3>3. CASE i # j
            <4>1. Holders(i)' = Holders(i) /\ rules'[i] = rules[i]
                BY <1>1, <2>3, <3>1, <3>3 DEF RemoveMatch, Holders, Holds, Subscribed, ControlTyped,
                    LinkTyped
            <4> QED  BY <2>1, <4>1
        <3> QED  BY <3>2, <3>3
    <2>4. CASE ~AddMatch(w) /\ ~RemoveMatch(w)
        <3>1. UNCHANGED rules
            BY <2>4 DEF Step, WatchSignals, AddMatchFails, Register, Receive, Send, Stop, RawClosed,
                Unregister, CloseOut, Cancel, Consume, DeferredSend
        <3>2. Holders(i)' \subseteq Holders(i)
            <4>1. CASE WatchSignals(w) \/ AddMatchFails(w) \/ Register(w)
                BY <1>1, <4>1 DEF WatchSignals, AddMatchFails, Register, Holders, Holds, Subscribed,
                    ControlTyped
            <4>2. CASE Receive(w) \/ Send(w) \/ Stop(w) \/ RawClosed(w)
                BY <1>1, <4>2 DEF Receive, Send, Stop, RawClosed, Holders, Holds, Subscribed,
                    ControlTyped
            <4>3. CASE Unregister(w) \/ CloseOut(w)
                BY <1>1, <4>3 DEF Unregister, CloseOut, Holders, Holds, Subscribed, ControlTyped
            <4>4. CASE Cancel(w) \/ Consume(w) \/ DeferredSend(w)
                BY <4>4 DEF Cancel, Consume, DeferredSend, goroutineVars, Holders, Holds
            <4> QED  BY <2>4, <4>1, <4>2, <4>3, <4>4 DEF Step
        <3> QED  BY <2>1, <3>1, <3>2, HoldersFinite, HoldersFiniteNext, FS_Subset
    <2> QED  BY <2>2, <2>3, <2>4
<1> QED  BY <1>2, <1>3 DEF RulesCounted

LEMMA NextCounted == TypeOK /\ RulesCounted /\ [Next]_vars => RulesCounted'
<1> SUFFICES ASSUME TypeOK, RulesCounted, [Next]_vars PROVE RulesCounted'
    OBVIOUS
<1>1. CASE Hangup
    BY <1>1 DEF Hangup, RulesCounted, goroutineVars
<1>2. ASSUME NEW i \in Iface \cup Foreign, Dispatch(i) PROVE RulesCounted'
    <2>1. UNCHANGED <<stage, todo, registered, open, rules>>
        BY <1>2 DEF Dispatch, goroutineVars
    <2>2. \A j : Holders(j)' = Holders(j)
        BY <2>1 DEF Holders, Holds
    <2> QED  BY <2>1, <2>2 DEF RulesCounted
<1>3. ASSUME NEW w \in Watcher, Step(w) PROVE RulesCounted'
    BY <1>3, StepCounted
<1>4. CASE UNCHANGED vars
    <2>1. UNCHANGED <<stage, todo, registered, open, rules>>
        BY <1>4 DEF vars
    <2>2. \A j : Holders(j)' = Holders(j)
        BY <2>1 DEF Holders, Holds
    <2> QED  BY <2>1, <2>2 DEF RulesCounted
<1> QED  BY <1>1, <1>2, <1>3, <1>4 DEF Next

LEMMA CountedCovers == TypeOK /\ RulesCounted => RulesCoverWatchers
<1> SUFFICES ASSUME TypeOK, RulesCounted, NEW i \in Iface, open
             PROVE  rules[i] >= Cardinality({w \in Watcher : registered[w]})
    BY DEF RulesCoverWatchers
<1> DEFINE R == {w \in Watcher : registered[w]}
<1>1. R \in SUBSET Holders(i)
    BY DEF RulesCounted, Holders, Holds
<1>2. Cardinality(R) <= Cardinality(Holders(i)) /\ Cardinality(R) \in Nat
    BY <1>1, HoldersFinite, FS_Subset, FS_CardinalityType
<1>3. rules[i] >= Cardinality(Holders(i)) /\ rules[i] \in Nat
    BY DEF RulesCounted, TypeOK
<1> QED  BY <1>2, <1>3, HoldersFinite

\* While the connection is up every registered watcher has a rule of its own on every
\* firewalld interface: a WatchSignals that fails halfway, and removeSignalMatches of
\* any other watcher, take nothing from it, for any number of watchers and interfaces.
THEOREM RulesCover == Spec => []RulesCoverWatchers
BY InitTyped, NextTyped, InitCounted, NextCounted, CountedCovers, PTL DEF Spec
-------------------------------------------------------------------------------
(***************************************************************************)
(* Teardown.  With a bus that refuses no AddMatch and no RemoveMatch the   *)
(* count is exact: the bus has one rule for every holder, so once nobody   *)
(* holds any the bus is clean.                                             *)
(***************************************************************************)
Compliant == Fault \cap {"add", "remove"} = {}

RulesExact ==
    /\ \A i \in Iface : rules[i] = IF open THEN Cardinality(Holders(i)) ELSE 0
    /\ open => \A w \in Watcher : stage[w] # "failed"

LEMMA InitExact == Init => RulesExact
<1> SUFFICES ASSUME Init PROVE RulesExact
    OBVIOUS
<1>1. ASSUME NEW i \in Iface PROVE Holders(i) = {}
    BY DEF Init, Holders, Holds, Subscribed
<1> QED  BY <1>1, FS_EmptySet DEF Init, RulesExact

\* Only AddMatch and RemoveMatch change who holds a rule.
LEMMA StepSameHolders ==
    ASSUME TypeOK, RulesExact, Compliant, open, NEW w \in Watcher, Step(w),
           ~AddMatch(w), ~RemoveMatch(w), NEW i \in Iface
    PROVE  Holders(i)' = Holders(i) /\ rules'[i] = rules[i]
<1>1. ControlTyped /\ LinkTyped
    BY TypeParts
<1>2. UNCHANGED rules
    BY DEF Step, WatchSignals, AddMatchFails, Register, Receive, Send, Stop, RawClosed,
        Unregister, CloseOut, Cancel, Consume, DeferredSend
<1>3. ~AddMatchFails(w)
    BY DEF AddMatchFails, Compliant
<1>4. CASE WatchSignals(w) \/ Register(w)
    BY <1>1, <1>2, <1>4 DEF WatchSignals, Register, Holders, Holds, Subscribed, ControlTyped
<1>5. CASE Receive(w) \/ Send(w) \/ Stop(w) \/ RawClosed(w)
    BY <1>1, <1>2, <1>5 DEF Receive, Send, Stop, RawClosed, Holders, Holds, Subscribed,
        ControlTyped
<1>6. CASE Unregister(w) \/ CloseOut(w)
    BY <1>1, <1>2, <1>6 DEF Unregister, CloseOut, Holders, Holds, Subscribed, ControlTyped
<1>7. CASE Cancel(w) \/ Consume(w) \/ DeferredSend(w)
    BY <1>2, <1>7 DEF Cancel, Consume, DeferredSend, goroutineVars, Holders, Holds
<1> QED  BY <1>3, <1>4, <1>5, <1>6, <1>7 DEF Step

LEMMA AddMatchExact ==
    ASSUME TypeOK, RulesExact, NEW w \in Watcher, AddMatch(w), NEW i \in Iface
    PROVE  rules'[i] = Cardinality(Holders(i)')
<1>1. ControlTyped /\ LinkTyped
    BY TypeParts
<1>2. rules[i] = Cardinality(Holders(i))
    BY DEF AddMatch, RulesExact
<1>3. PICK j \in todo[w] : /\ rules' = [rules EXCEPT ![j] = @ + 1]
                           /\ todo' = [todo EXCEPT ![w] = @ \ {j}]
    BY DEF AddMatch
<1>4. CASE i = j
    <2>1. w \notin Holders(i) /\ Holders(i)' = Holders(i) \cup {w}
        BY <1>1, <1>3, <1>4 DEF AddMatch, Holders, Holds, Subscribed, ControlTyped
    <2>2. Cardinality(Holders(i)') = Cardinality(Holders(i)) + 1
        BY <2>1, HoldersFinite, FS_AddElement
    <2>3. rules'[i] = rules[i] + 1
        BY <1>1, <1>3, <1>4 DEF LinkTyped
    <2> QED  BY <1>2, <2>2, <2>3
<1>5. CASE i # j
    <2>1. Holders(i)' = Holders(i) /\ rules'[i] = rules[i]
        BY <1>1, <1>3, <1>5 DEF AddMatch, Holders, Holds, Subscribed, ControlTyped, LinkTyped
    <2> QED  BY <1>2, <2>1
<1> QED  BY <1>4, <1>5

LEMMA RemoveMatchExact ==
    ASSUME TypeOK, RulesExact, Compliant, open, NEW w \in Watcher, RemoveMatch(w),
           NEW i \in Iface
    PROVE  rules'[i] = Cardinality(Holders(i)')
<1>1. ControlTyped /\ LinkTyped
    BY TypeParts
<1>2. \A k \in Iface : rules[k] = Cardinality(Holders(k))
    BY DEF RulesExact
<1>3. PICK j \in todo[w] : /\ todo' = [todo EXCEPT ![w] = @ \ {j}]
                           /\ \/ rules' = [rules EXCEPT ![j] = @ - 1]
                              \/ rules[j] = 0 /\ UNCHANGED rules
    BY DEF RemoveMatch, Compliant
<1>4. j \in Iface /\ w \in Holders(j)
    BY <1>1, <1>3 DEF RemoveMatch, Holders, Holds, ControlTyped
<1>5. Cardinality(Holders(j)) # 0
    BY <1>4, HoldersFinite, FS_EmptySet
<1>6. rules' = [rules EXCEPT ![j] = @ - 1]
    BY <1>2, <1>3, <1>4, <1>5
<1>7. CASE i = j
    <2>1. Holders(i)' = Holders(i) \ {w}
        BY <1>1, <1>3, <1>7 DEF RemoveMatch, Holders, Holds, Subscribed, ControlTyped
    <2>2. Cardinality(Holders(i)') = Cardinality(Holders(i)) - 1
        BY <1>4, <1>7, <2>1, HoldersFinite, FS_RemoveElement
    <2>3. rules'[i] = rules[i] - 1
        BY <1>1, <1>6, <1>7 DEF LinkTyped
    <2> QED  BY <1>2, <2>2, <2>3
<1>8. CASE i # j
    <2>1. Holders(i)' = Holders(i) /\ rules'[i] = rules[i]
        BY <1>1, <1>3, <1>6, <1>8 DEF RemoveMatch, Holders, Holds, Subscribed, ControlTyped,
            LinkTyped
    <2> QED  BY <1>2, <2>1
<1> QED  BY <1>7, <1>8

LEMMA StepExact ==
    ASSUME TypeOK, RulesExact, Compliant, NEW w \in Watcher, Step(w)
    PROVE  RulesExact'
<1>1. ControlTyped /\ LinkTyped
    BY TypeParts
<1>2. UNCHANGED open
    BY DEF Step, WatchSignals, AddMatch, AddMatchFails, Register, Receive, Send, Stop,
        RawClosed, Unregister, RemoveMatch, CloseOut, Cancel, Consume, DeferredSend, libraryVars
<1>3. CASE ~open
    <2>1. UNCHANGED rules
        <3>1. \A i \in Iface : rules[i] = 0
            BY <1>3 DEF RulesExact
        <3>2. ~AddMatch(w)
            BY <1>3 DEF AddMatch
        <3> QED  BY <1>3, <3>2 DEF Step, WatchSignals, AddMatchFails, Register, Receive, Send,
                 Stop, RawClosed, Unregister, RemoveMatch, CloseOut, Cancel, Consume, DeferredSend
    <2> QED  BY <1>2, <1>3, <2>1 DEF RulesExact
<1>4. CASE open
    <2>1. ASSUME NEW i \in Iface PROVE rules'[i] = Cardinality(Holders(i)')
        <3>1. CASE AddMatch(w)
            BY <3>1, AddMatchExact
        <3>2. CASE RemoveMatch(w)
            BY <1>4, <3>2, RemoveMatchExact
        <3>3. CASE ~AddMatch(w) /\ ~RemoveMatch(w)
            BY <1>4, <3>3, StepSameHolders DEF RulesExact
        <3> QED  BY <3>1, <3>2, <3>3
    <2>2. ASSUME NEW v \in Watcher PROVE stage'[v] # "failed"
        BY <1>1, <1>4 DEF Compliant, RulesExact, ControlTyped, Step, WatchSignals, AddMatch,
            AddMatchFails, Register, Receive, Send, Stop, RawClosed, Unregister, RemoveMatch,
            CloseOut, Cancel, Consume, DeferredSend, goroutineVars
    <2> QED  BY <1>2, <1>4, <2>1, <2>2 DEF RulesExact
<1> QED  BY <1>3, <1>4

LEMMA NextExact ==
    ASSUME TypeOK, RulesExact, Compliant, [Next]_vars
    PROVE  RulesExact'
<1>1. CASE Hangup
    BY <1>1 DEF Hangup, RulesExact
<1>2. ASSUME UNCHANGED <<stage, todo, open, rules>> PROVE RulesExact'
    <2>1. \A i : Holders(i)' = Holders(i)
        BY <1>2 DEF Holders, Holds
    <2> QED  BY <1>2, <2>1 DEF RulesExact
<1>3. ASSUME NEW i \in Iface \cup Foreign, Dispatch(i) PROVE RulesExact'
    BY <1>2, <1>3 DEF Dispatch, goroutineVars
<1>4. ASSUME NEW w \in Watcher, Step(w) PROVE RulesExact'
    BY <1>4, StepExact
<1>5. CASE UNCHANGED vars
    BY <1>2, <1>5 DEF vars
<1> QED  BY <1>1, <1>3, <1>4, <1>5 DEF Next

LEMMA ExactTornDown == RulesExact => TornDown
<1> SUFFICES ASSUME RulesExact, NEW i \in Iface,
                    \A w \in Watcher : stage[w] \in {"off", "closed", "failed"}
             PROVE  rules[i] = 0
    BY DEF TornDown
<1>1. Holders(i) = {}
    BY DEF Holders, Holds, Subscribed
<1> QED  BY <1>1, FS_EmptySet DEF RulesExact

\* When the bus refuses nothing, "the subscription and channel are torn down when ctx is
\* cancelled" (signals.go) holds, rules included, even if the connection goes away in
\* between.  An AddMatch that fails halfway through WatchSignals is what breaks it.
THEOREM TeardownComplete ==
    ASSUME Compliant
    PROVE  Spec => []TornDown
<1>1. TypeOK /\ RulesExact /\ [Next]_vars => RulesExact'
    BY NextExact
<1> QED  BY <1>1, InitTyped, NextTyped, InitExact, ExactTornDown, PTL DEF Spec
===============================================================================
