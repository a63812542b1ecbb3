--------------------------- MODULE ReloadWatchProofs ---------------------------
(***************************************************************************)
(* Theorems about ReloadWatch, for any number of subscriptions and relays, *)
(* any capacities, signals and faults.                                     *)
(***************************************************************************)
EXTENDS ReloadWatch, SignalOrderProofs

-------------------------------------------------------------------------------
(***************************************************************************)
(* A relay is an ordinary consumer of the subscription it reads.           *)
(***************************************************************************)
LEMMA StepWatches ==
    ASSUME [ReloadNext]_reloadVars
    PROVE  [Next]_vars
<1>1. ASSUME NEW w \in Watcher, Watch(w) PROVE Next
    BY <1>1 DEF Watch, Next
<1>2. ASSUME NEW w \in Watcher, Relay(w) PROVE Next \/ UNCHANGED vars
    BY <1>2 DEF Relay, StartRelay, RelayReceive, RelaySend, RelayStop, RelayEnd, TakeReload,
                Step, Next
<1> QED  BY <1>1, <1>2 DEF ReloadNext, reloadVars, Next

\* Every behaviour with relays is one of SignalWatch, so whatever is proved of that holds of
\* subscriptions that are read by a relay.
THEOREM RelayConsumes == ReloadSpec => Spec
<1>1. ReloadInit => Init
    BY DEF ReloadInit
<1> QED  BY <1>1, StepWatches, PTL DEF ReloadSpec, Spec

\* So subscriptions keep their order, their rules and the promise of EventStream while
\* some of them are read by relays and others by their callers (WatchReloaded is built on
\* WatchSignals and adds nothing to its teardown).
THEOREM OrderKeptWithRelays == ReloadSpec => []InOrderUntilOverflow
BY RelayConsumes, OrderKept, PTL

THEOREM RulesCoverWithRelays == ReloadSpec => []RulesCoverWatchers
BY RelayConsumes, RulesCover, PTL

THEOREM ImplementsWithRelays == ReloadSpec => ImplementsStream
BY RelayConsumes, Implements

THEOREM SeenOnceWithRelays == ReloadSpec => []EachSignalOnce
BY RelayConsumes, SeenOnce, PTL

THEOREM TeardownCompleteWithRelays ==
    ASSUME Compliant
    PROVE  ReloadSpec => []TornDown
BY RelayConsumes, TeardownComplete, PTL

-------------------------------------------------------------------------------
(***************************************************************************)
(* Type correctness.                                                       *)
(***************************************************************************)
LEMMA StepRelayTyped ==
    ASSUME RelayTypeOK, [ReloadNext]_reloadVars
    PROVE  RelayTypeOK'
<1> USE ReloadAssumption DEF RelayTypeOK
<1>1. ASSUME NEW w \in Watcher, StartRelay(w) PROVE RelayTypeOK'
    BY <1>1 DEF StartRelay
<1>2. ASSUME NEW w \in Watcher, RelayReceive(w) PROVE RelayTypeOK'
    BY <1>2 DEF RelayReceive
<1>3. ASSUME NEW w \in Watcher, RelaySend(w) PROVE RelayTypeOK'
    BY <1>3 DEF RelaySend
<1>4. ASSUME NEW w \in Watcher, RelayStop(w) \/ RelayEnd(w) PROVE RelayTypeOK'
    BY <1>4 DEF RelayStop, RelayEnd
<1>5. ASSUME NEW w \in Watcher, TakeReload(w) PROVE RelayTypeOK'
    BY <1>5 DEF TakeReload
<1>6. CASE UNCHANGED <<mode, relayVars>>
    BY <1>6 DEF relayVars
<1> QED
    BY <1>1, <1>2, <1>3, <1>4, <1>5, <1>6 DEF ReloadNext, reloadVars, Watch, Relay

\* The relay's channel keeps to its four slots.
THEOREM RelayTypeCorrect == ReloadSpec => []RelayTypeOK
<1>1. ReloadInit => RelayTypeOK
    BY ReloadAssumption DEF ReloadInit, RelayTypeOK
<1> QED  BY <1>1, StepRelayTyped, PTL DEF ReloadSpec

-------------------------------------------------------------------------------
(***************************************************************************)
(* Every reload is passed on once.                                         *)
(***************************************************************************)
Found(s) == {k \in DOMAIN s : Reloaded(s[k])}

LEMMA FoundFinite ==
    ASSUME NEW s \in Seq(Signal)
    PROVE  IsFiniteSet(Found(s)) /\ Cardinality(Found(s)) \in Nat
<1>1. IsFiniteSet(1 .. Len(s))
    BY FS_Interval
<1>2. Found(s) \subseteq 1 .. Len(s)
    BY DEF Found
<1> QED  BY <1>1, <1>2, FS_Subset, FS_CardinalityType

LEMMA FoundAppend ==
    ASSUME NEW s \in Seq(Signal), NEW x \in Signal
    PROVE  Cardinality(Found(Append(s, x))) =
             Cardinality(Found(s)) + IF Reloaded(x) THEN 1 ELSE 0
<1> DEFINE t == Append(s, x)
           n == Len(s) + 1
<1>1. DOMAIN s = 1 .. Len(s) /\ DOMAIN t = 1 .. n /\ Len(s) \in Nat
    OBVIOUS
<1>2. (\A k \in 1 .. Len(s) : t[k] = s[k]) /\ t[n] = x
    OBVIOUS
<1>3. Found(t) = IF Reloaded(x) THEN Found(s) \cup {n} ELSE Found(s)
    <2> HIDE DEF t
    <2>1. \A k \in 1 .. n : k = n \/ k \in 1 .. Len(s)
        BY <1>1
    <2>2. n \in 1 .. n /\ \A k \in 1 .. Len(s) : k \in 1 .. n
        BY <1>1
    <2> HIDE DEF n
    <2> QED  BY <1>1, <1>2, <2>1, <2>2 DEF Found
<1>4. n \notin Found(s)
    BY <1>1 DEF Found
<1> HIDE DEF t, n
<1>5. IsFiniteSet(Found(s)) /\ Cardinality(Found(s)) \in Nat
    BY FoundFinite
<1>6. Cardinality(Found(s) \cup {n}) = Cardinality(Found(s)) + 1
    BY <1>4, <1>5, FS_AddElement
<1> QED  BY <1>3, <1>5, <1>6 DEF t

Passed(w) == told[w] + reloads[w] + IF relay[w] = "sending" THEN 1 ELSE 0

Passing(w) ==
    mode[w] = "reloaded" =>
        \/ Passed(w) = Count(w)
        \/ relay[w] = "closed" /\ cancelled[w] /\ Passed(w) + 1 = Count(w)

LEMMA PassingIs == EachReloadOnce <=> \A w \in Watcher : Passing(w)
BY DEF EachReloadOnce, Passing, Passed

LEMMA PassingIsNext == EachReloadOnce' <=> \A w \in Watcher : Passing(w)'
BY DEF EachReloadOnce, Passing, Passed

LEMMA CountIs == \A w \in Watcher : Count(w) = Cardinality(Found(seen[w]))
BY DEF Count, Found

LEMMA CountIsNext == \A w \in Watcher : Count(w)' = Cardinality(Found(seen'[w]))
BY DEF Count, Found

LEMMA StepReloads ==
    ASSUME TypeOK, RelayTypeOK, EachReloadOnce, [ReloadNext]_reloadVars
    PROVE  EachReloadOnce'
<1> SUFFICES ASSUME NEW v \in Watcher, mode'[v] = "reloaded" PROVE Passing(v)'
    BY PassingIsNext DEF Passing
<1>0. /\ told[v] \in Nat /\ reloads[v] \in Nat /\ seen[v] \in Seq(Signal)
      /\ Count(v) \in Nat /\ mode' = mode /\ Passing(v) /\ mode[v] = "reloaded"
    <2>1. seen[v] \in Seq(Signal)
        BY DEF TypeOK
    <2>2. mode' = mode
        BY DEF ReloadNext, Watch, Relay, StartRelay, RelayReceive, RelaySend, RelayStop,
               RelayEnd, TakeReload, reloadVars
    <2>3. told[v] \in Nat /\ reloads[v] \in Nat
        BY ReloadAssumption DEF RelayTypeOK
    <2> QED  BY <2>1, <2>2, <2>3, FoundFinite, CountIs, PassingIs
<1>1. ASSUME seen'[v] = seen[v], Passed(v)' = Passed(v), relay'[v] = relay[v],
             cancelled[v] => cancelled'[v]
      PROVE  Passing(v)'
    BY <1>0, <1>1, CountIs, CountIsNext DEF Passing
<1>2. ASSUME NEW w \in Watcher, StartRelay(w) PROVE Passing(v)'
    <2>1. UNCHANGED <<seen, reloads, told, cancelled>>
        BY <1>2 DEF StartRelay, vars
    <2>2. relay[w] = "off" /\ relay' = [relay EXCEPT ![w] = "ranging"]
        BY <1>2 DEF StartRelay
    <2>3. Passed(v)' = Passed(v) /\ (relay[v] = "closed" => relay'[v] = "closed")
        BY <2>1, <2>2 DEF Passed, RelayTypeOK
    <2> QED  BY <2>1, <2>3, <1>0, CountIs, CountIsNext DEF Passing
<1>3. ASSUME NEW w \in Watcher, RelayReceive(w) PROVE Passing(v)'
    <2>1. /\ relay[w] = "ranging" /\ UNCHANGED <<reloads, told, cancelled>>
          /\ relay' = [relay EXCEPT ![w] = IF Reloaded(Head(out[w])) THEN "sending" ELSE "ranging"]
          /\ out[w] # <<>> /\ seen' = [seen EXCEPT ![w] = Append(@, Head(out[w]))]
        BY <1>3 DEF RelayReceive, Consume
    <2>2. CASE v # w
        <3>1. seen'[v] = seen[v] /\ relay'[v] = relay[v]
            BY <2>1, <2>2 DEF TypeOK, RelayTypeOK
        <3> QED  BY <2>1, <3>1, <1>1 DEF Passed
    <2>3. CASE v = w
        <3> DEFINE x == Head(out[v])
        <3>1. x \in Signal
            BY <2>1, <2>3 DEF TypeOK
        <3>2. seen'[v] = Append(seen[v], x)
            BY <2>1, <2>3 DEF TypeOK
        <3>3. Count(v)' = Count(v) + IF Reloaded(x) THEN 1 ELSE 0
            <4> HIDE DEF x
            <4> QED  BY <3>1, <3>2, <1>0, FoundAppend, CountIs, CountIsNext
        <3>4. Passed(v) = Count(v)
            BY <2>1, <2>3, <1>0 DEF Passing
        <3>5. relay'[v] = IF Reloaded(x) THEN "sending" ELSE "ranging"
            BY <2>1, <2>3 DEF RelayTypeOK
        <3>6. Passed(v)' = Passed(v) + IF Reloaded(x) THEN 1 ELSE 0
            BY <2>1, <2>3, <3>5, <1>0 DEF Passed
        <3> QED  BY <3>3, <3>4, <3>6 DEF Passing
    <2> QED  BY <2>2, <2>3
<1>4. ASSUME NEW w \in Watcher, RelaySend(w) PROVE Passing(v)'
    <2>1. /\ relay[w] = "sending" /\ UNCHANGED <<told, seen, cancelled>>
          /\ relay' = [relay EXCEPT ![w] = "ranging"]
          /\ reloads' = [reloads EXCEPT ![w] = @ + 1]
        BY <1>4 DEF RelaySend, vars
    <2>2. CASE v # w
        <3>1. reloads'[v] = reloads[v] /\ relay'[v] = relay[v]
            BY <2>1, <2>2 DEF RelayTypeOK
        <3> QED  BY <2>1, <3>1, <1>1 DEF Passed
    <2>3. CASE v = w
        <3>1. reloads'[v] = reloads[v] + 1 /\ relay'[v] = "ranging"
            BY <2>1, <2>3 DEF RelayTypeOK
        <3>2. Passed(v)' = told[v] + (reloads[v] + 1) + 0
            BY <2>1, <3>1 DEF Passed
        <3>3. Passed(v) = told[v] + reloads[v] + 1
            BY <2>1, <2>3 DEF Passed
        <3>4. Passed(v)' = Passed(v)
            BY <3>2, <3>3, <1>0
        <3> QED  BY <2>1, <2>3, <3>4, <1>0, CountIs, CountIsNext DEF Passing
    <2> QED  BY <2>2, <2>3
<1>5. ASSUME NEW w \in Watcher, RelayStop(w) PROVE Passing(v)'
    <2>1. /\ relay[w] = "sending" /\ cancelled[w] /\ UNCHANGED <<told, seen, reloads, cancelled>>
          /\ relay' = [relay EXCEPT ![w] = "closed"]
        BY <1>5 DEF RelayStop, vars
    <2>2. CASE v # w
        <3>1. relay'[v] = relay[v]
            BY <2>1, <2>2 DEF RelayTypeOK
        <3> QED  BY <2>1, <3>1, <1>1 DEF Passed
    <2>3. CASE v = w
        <3>1. relay'[v] = "closed"
            BY <2>1, <2>3 DEF RelayTypeOK
        <3>2. Passed(v)' + 1 = Passed(v)
            BY <2>1, <2>3, <3>1, <1>0 DEF Passed
        <3> QED  BY <2>1, <2>3, <3>1, <3>2, <1>0, CountIs, CountIsNext DEF Passing
    <2> QED  BY <2>2, <2>3
<1>6. ASSUME NEW w \in Watcher, RelayEnd(w) PROVE Passing(v)'
    <2>1. /\ relay[w] = "ranging" /\ UNCHANGED <<told, seen, reloads, cancelled>>
          /\ relay' = [relay EXCEPT ![w] = "closed"]
        BY <1>6 DEF RelayEnd, vars
    <2>2. Passed(v)' = Passed(v) /\ (relay[v] = "closed" => relay'[v] = "closed")
        BY <2>1 DEF Passed, RelayTypeOK
    <2> QED  BY <2>1, <2>2, <1>0, CountIs, CountIsNext DEF Passing
<1>7. ASSUME NEW w \in Watcher, TakeReload(w) PROVE Passing(v)'
    <2>1. /\ reloads[w] > 0 /\ UNCHANGED <<relay, seen, cancelled>>
          /\ reloads' = [reloads EXCEPT ![w] = @ - 1] /\ told' = [told EXCEPT ![w] = @ + 1]
        BY <1>7 DEF TakeReload, vars
    <2>2. told'[v] + reloads'[v] = told[v] + reloads[v]
        BY <2>1, <1>0 DEF RelayTypeOK
    <2>3. Passed(v)' = Passed(v)
        BY <2>1, <2>2 DEF Passed
    <2> QED  BY <2>1, <2>3, <1>1
<1>8. CASE UNCHANGED <<mode, relayVars>> /\ [Next]_vars /\ seen'[v] = seen[v]
    <2>1. UNCHANGED <<relay, reloads, told>>
        BY <1>8 DEF relayVars
    <2>2. cancelled[v] => cancelled'[v]
        BY <1>8 DEF Next, Step, Hangup, Dispatch, vars, WatchSignals, AddMatch, AddMatchFails,
           Register, Receive, Send, Stop, RawClosed, Unregister, RemoveMatch, CloseOut, Cancel,
           Consume, DeferredSend, TypeOK
    <2> QED  BY <2>1, <2>2, <1>8, <1>1 DEF Passed
<1>9. ASSUME NEW w \in Watcher, Watch(w) PROVE Passing(v)'
    <2>1. seen'[v] = seen[v]
        <3>1. CASE mode[w] = "reloaded"
            BY <3>1, <1>9 DEF Watch
        <3>2. CASE mode[w] # "reloaded"
            <4>1. v # w
                BY <3>2, <1>0
            <4>2. seen' = seen \/ seen' = [seen EXCEPT ![w] = Append(@, Head(out[w]))]
                BY <1>9 DEF Watch, Step, WatchSignals, AddMatch, AddMatchFails, Register,
                   Receive, Send, Stop, RawClosed, Unregister, RemoveMatch, CloseOut, Cancel,
                   Consume, DeferredSend, historyVars
            <4> QED  BY <4>1, <4>2 DEF TypeOK
        <3> QED  BY <3>1, <3>2
    <2> QED  BY <2>1, <1>9, <1>8 DEF Watch, Next
<1>10. ASSUME Hangup \/ (\E i \in Iface \cup Foreign : Dispatch(i)), UNCHANGED <<mode, relayVars>>
       PROVE  Passing(v)'
    <2>1. UNCHANGED seen
        BY <1>10 DEF Hangup, Dispatch, historyVars
    <2> QED  BY <2>1, <1>10, <1>8 DEF Next
<1>11. CASE UNCHANGED reloadVars
    <2>1. UNCHANGED seen /\ UNCHANGED <<mode, relayVars>> /\ UNCHANGED vars
        BY <1>11 DEF reloadVars, vars
    <2> QED  BY <2>1, <1>8
<1> QED
    BY <1>2, <1>3, <1>4, <1>5, <1>6, <1>7, <1>9, <1>10, <1>11 DEF ReloadNext, Relay

\* A relay's consumer is told of every Reloaded signal the subscription yields, once.
THEOREM ReloadsCounted == ReloadSpec => []EachReloadOnce
<1>1. ReloadInit => EachReloadOnce
    <2> SUFFICES ASSUME ReloadInit, NEW w \in Watcher PROVE Passing(w)
        BY PassingIs
    <2>1. Found(seen[w]) = {}
        BY DEF ReloadInit, Init, Found
    <2>2. Count(w) = 0
        BY <2>1, CountIs, FS_EmptySet
    <2> QED  BY <2>2 DEF ReloadInit, Passing, Passed
<1>2. ReloadSpec => []TypeOK
    BY RelayConsumes, TypeCorrect, PTL
<1> QED  BY <1>1, <1>2, RelayTypeCorrect, StepReloads, PTL DEF ReloadSpec
===============================================================================
