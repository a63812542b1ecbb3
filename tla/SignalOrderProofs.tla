--------------------------- MODULE SignalOrderProofs ---------------------------
(***************************************************************************)
(* As long as raw has never been full, signals keep their order on the way *)
(* from the bus to the consumer, for any number of watchers and any        *)
(* channel capacities.                                                     *)
(***************************************************************************)
EXTENDS SignalStreamProofs

-------------------------------------------------------------------------------
(***************************************************************************)
(* Sequences of signals in ascending order of their numbers.               *)
(***************************************************************************)
Ascending(s) == \A j, k \in DOMAIN s : j < k => s[j].n < s[k].n
Before(A, B) == \A a \in A, b \in B : a.n < b.n

LEMMA AscendingAppend ==
    ASSUME NEW s \in Seq(Signal), NEW e \in Signal, Ascending(s), Before(Range(s), {e})
    PROVE  Ascending(Append(s, e))
<1> DEFINE t == Append(s, e)
<1>1. /\ Len(s) \in Nat
      /\ DOMAIN s = 1 .. Len(s) /\ DOMAIN t = 1 .. Len(s) + 1
      /\ \A k \in 1 .. Len(s) : t[k] = s[k]
      /\ t[Len(s) + 1] = e
    BY AppendProperties, LenProperties
<1>2. \A k \in DOMAIN s : s[k].n < e.n
    BY DEF Range, Before
<1> QED  BY <1>1, <1>2 DEF Ascending

LEMMA AscendingTail ==
    ASSUME NEW s \in Seq(Signal), s # <<>>, Ascending(s)
    PROVE  Ascending(Tail(s)) /\ Before({Head(s)}, Range(Tail(s)))
<1> DEFINE t == Tail(s)
<1>1. /\ Len(s) \in Nat \ {0}
      /\ Head(s) = s[1]
      /\ DOMAIN s = 1 .. Len(s) /\ DOMAIN t = 1 .. Len(s) - 1
      /\ \A k \in 1 .. Len(s) - 1 : t[k] = s[k + 1]
    BY HeadTailProperties, LenProperties, EmptySeq
<1>2. \A k \in DOMAIN t : k \in Nat /\ k + 1 \in DOMAIN s /\ 1 < k + 1 /\ t[k] = s[k + 1]
    BY <1>1
<1>3. Ascending(t)
    BY <1>1, <1>2 DEF Ascending
<1>4. \A k \in DOMAIN t : s[1].n < t[k].n
    BY <1>1, <1>2 DEF Ascending
<1> QED  BY <1>1, <1>3, <1>4 DEF Range, Before

LEMMA AscendingConcat ==
    ASSUME NEW s \in Seq(Signal), NEW t \in Seq(Signal),
           Ascending(s), Ascending(t), Before(Range(s), Range(t))
    PROVE  /\ s \o t \in Seq(Signal)
           /\ Ascending(s \o t)
           /\ Range(s \o t) = Range(s) \cup Range(t)
<1> DEFINE c == s \o t
<1>1. /\ Len(s) \in Nat /\ Len(t) \in Nat
      /\ DOMAIN s = 1 .. Len(s) /\ DOMAIN t = 1 .. Len(t)
      /\ c \in Seq(Signal) /\ DOMAIN c = 1 .. Len(s) + Len(t)
      /\ \A k \in 1 .. Len(s) + Len(t) :
            c[k] = IF k <= Len(s) THEN s[k] ELSE t[k - Len(s)]
    BY ConcatProperties, LenProperties
<1>2. \A j \in DOMAIN s, k \in DOMAIN t : s[j].n < t[k].n
    BY DEF Range, Before
<1>3. ASSUME NEW j \in DOMAIN c, NEW k \in DOMAIN c, j < k PROVE c[j].n < c[k].n
    <2>1. CASE k <= Len(s)
        BY <1>1, <1>3, <2>1 DEF Ascending
    <2>2. CASE j <= Len(s) /\ ~(k <= Len(s))
        BY <1>1, <1>2, <1>3, <2>2
    <2>3. CASE ~(j <= Len(s))
        <3>1. /\ j - Len(s) \in DOMAIN t /\ k - Len(s) \in DOMAIN t
              /\ j - Len(s) < k - Len(s)
              /\ c[j] = t[j - Len(s)] /\ c[k] = t[k - Len(s)]
            BY <1>1, <1>3, <2>3
        <3> QED  BY <3>1 DEF Ascending
    <2> QED  BY <2>1, <2>2, <2>3
<1>4. \A k \in DOMAIN c : c[k] \in Range(s) \cup Range(t)
    BY <1>1 DEF Range
<1>5. \A k \in DOMAIN s : k \in DOMAIN c /\ c[k] = s[k]
    BY <1>1
<1>6. ASSUME NEW k \in DOMAIN t PROVE k + Len(s) \in DOMAIN c /\ c[k + Len(s)] = t[k]
    <2>1. /\ k \in Nat /\ k + Len(s) \in 1 .. Len(s) + Len(t)
          /\ ~(k + Len(s) <= Len(s)) /\ k + Len(s) - Len(s) = k
        BY <1>1
    <2> QED  BY <1>1, <2>1
<1>7. Range(c) = Range(s) \cup Range(t)
    <2>1. Range(c) \subseteq Range(s) \cup Range(t)
        BY <1>4 DEF Range
    <2>2. Range(s) \subseteq Range(c)
        BY <1>5 DEF Range
    <2>3. Range(t) \subseteq Range(c)
        BY <1>6 DEF Range
    <2> QED  BY <2>1, <2>2, <2>3
<1> QED  BY <1>1, <1>3, <1>7 DEF Ascending

-------------------------------------------------------------------------------
(***************************************************************************)
(* The inductive invariant.                                                *)
(***************************************************************************)
\* Every place a signal can be in is in order, and so are the places, nearest first; no
\* send is deferred, since raw had room for every signal.
Ordered(w) ==
    /\ deferred[w] = {}
    /\ Ascending(seen[w]) /\ Ascending(out[w]) /\ Ascending(raw[w])
    /\ Before(Range(seen[w]), Range(out[w]) \cup Hand(w) \cup Range(raw[w]))
    /\ Before(Range(out[w]), Hand(w) \cup Range(raw[w]))
    /\ Before(Hand(w), Range(raw[w]))
    /\ Range(seen[w]) \subseteq Range(emitted)

OrderInv == StreamInv /\ \A w \in Watcher : ~overflowed[w] => Ordered(w)

LEMMA InitOrder == Init => OrderInv
<1> SUFFICES ASSUME Init PROVE OrderInv
    OBVIOUS
<1>1. Ascending(<<>>) /\ Range(<<>>) = {}
    BY RangeEmpty DEF Ascending
<1>2. StreamInv
    BY InitStream
<1>3. ASSUME NEW w \in Watcher PROVE Ordered(w)
    <2>1. Hand(w) = {}
        BY DEF Init, Hand
    <2> QED  BY <1>1, <2>1 DEF Init, Ordered, Before
<1> QED  BY <1>2, <1>3 DEF OrderInv

LEMMA StepOrder ==
    ASSUME StreamInv, NEW w \in Watcher, Ordered(w), Step(w)
    PROVE  Ordered(w)'
<1>1. /\ TypeOK /\ FromBus(w) /\ emitted' = emitted
      /\ seen[w] \in Seq(Signal) /\ out[w] \in Seq(Signal) /\ raw[w] \in Seq(Signal)
    BY StepFrame DEF StreamInv, Placed, TypeOK
<1>2. CASE Receive(w)
    <2>1. /\ raw[w] # <<>> /\ raw'[w] = Tail(raw[w])
          /\ seen'[w] = seen[w]
        BY <1>1, <1>2 DEF Receive, TypeOK, historyVars
    <2>2. Ascending(raw'[w]) /\ Before({Head(raw[w])}, Range(raw'[w]))
        BY <1>1, <2>1, AscendingTail DEF Ordered
    <2> QED  BY <1>1, <1>2, <2>1, <2>2, ReceiveMoves DEF Ordered, Before
<1>3. CASE Send(w)
    <2>1. /\ out'[w] = Append(out[w], ev[w]) /\ ev[w] \in Signal
          /\ seen'[w] = seen[w]
        BY <1>1, <1>3 DEF Send, TypeOK, historyVars
    <2>2. Before(Range(out[w]), {ev[w]})
        BY <1>3, SendMoves DEF Ordered, Before
    <2>3. Ascending(out'[w])
        BY <1>1, <2>1, <2>2, AscendingAppend DEF Ordered
    <2> QED  BY <1>1, <1>3, <2>1, <2>3, SendMoves DEF Ordered, Before
<1>4. CASE Consume(w)
    <2>1. /\ out[w] # <<>> /\ out'[w] = Tail(out[w])
          /\ seen'[w] = Append(seen[w], Head(out[w]))
        BY <1>1, <1>4 DEF Consume, TypeOK
    <2>2. Head(out[w]) \in Signal /\ Head(out[w]) \in Range(out[w])
        BY <1>1, <2>1, RangeTail
    <2>3. Ascending(out'[w]) /\ Before({Head(out[w])}, Range(out'[w]))
        BY <1>1, <2>1, AscendingTail DEF Ordered
    <2>4. Before(Range(seen[w]), {Head(out[w])})
        BY <2>2 DEF Ordered, Before
    <2>5. Ascending(seen'[w]) /\ Range(seen'[w]) = Range(seen[w]) \cup {Head(out[w])}
        BY <1>1, <2>1, <2>2, <2>4, AscendingAppend, RangeAppend DEF Ordered
    <2>6. Head(out[w]) \in Range(emitted)
        BY <1>1, <2>2 DEF FromBus
    <2> QED  BY <1>1, <1>4, <2>2, <2>3, <2>5, <2>6, ConsumeMoves DEF Ordered, Before
<1>5. CASE DeferredSend(w)
    BY <1>5 DEF DeferredSend, Ordered
<1>6. CASE Idle(w)
    <2>1. seen' = seen
        BY <1>6 DEF Idle, WatchSignals, AddMatch, AddMatchFails, Register, RawClosed, RemoveMatch,
            CloseOut, Cancel, historyVars
    <2> QED  BY <1>1, <1>6, <2>1, IdleMoves DEF Ordered
<1>7. CASE Stop(w)
    <2>1. seen' = seen
        BY <1>7 DEF Stop, historyVars
    <2> QED  BY <1>1, <1>7, <2>1, StopMoves DEF Ordered, Before
<1>8. CASE Unregister(w)
    <2>1. seen' = seen
        BY <1>8 DEF Unregister, historyVars
    <2>2. Ascending(<<>>) /\ Range(<<>>) = {}
        BY RangeEmpty DEF Ascending
    <2> QED  BY <1>1, <1>8, <2>1, <2>2, UnregisterMoves DEF Ordered, Before
<1> QED  BY <1>2, <1>3, <1>4, <1>5, <1>6, <1>7, <1>8 DEF Step, Idle

LEMMA DispatchOrder ==
    ASSUME StreamInv, NEW i \in Iface \cup Foreign, Dispatch(i),
           NEW w \in Watcher, ~overflowed'[w], Ordered(w)
    PROVE  Ordered(w)'
<1> DEFINE s == NewSignal(i)
<1>1. /\ TypeOK /\ Numbered /\ FromBus(w) /\ Len(emitted) \in Nat
      /\ raw[w] \in Seq(Signal)
    BY LenProperties DEF StreamInv, Placed, TypeOK
<1>2. /\ s \in Signal /\ s.n = Len(emitted) + 1
      /\ Range(emitted') = Range(emitted) \cup {s}
      /\ Hand(w)' = Hand(w)
    BY DispatchMoves DEF NewSignal
<1>3. UNCHANGED <<seen, out>>
    BY DEF Dispatch
<1>4. ~registered[w] \/ HasRoom(w)
    BY DEF Dispatch
<1>5. \A x \in Range(emitted) : x.n < s.n
    BY <1>1, <1>2 DEF Numbered
<1>6. /\ deferred'[w] = deferred[w]
      /\ raw'[w] = raw[w] \/ raw'[w] = Append(raw[w], s)
    BY <1>4 DEF Dispatch, NewSignal
<1>7. Before(Range(seen[w]) \cup Range(out[w]) \cup Hand(w) \cup Range(raw[w]), {s})
    BY <1>1, <1>5 DEF Before, FromBus, Ordered
<1>8. CASE raw'[w] = raw[w]
    BY <1>2, <1>3, <1>6, <1>8 DEF Ordered
<1>9. CASE raw'[w] = Append(raw[w], s)
    <2>1. Ascending(raw'[w]) /\ Range(raw'[w]) = Range(raw[w]) \cup {s}
        BY <1>1, <1>2, <1>7, <1>9, AscendingAppend, RangeAppend DEF Ordered, Before
    <2> QED  BY <1>2, <1>3, <1>6, <1>7, <2>1 DEF Ordered, Before
<1> QED  BY <1>6, <1>8, <1>9

LEMMA OverflowedStays ==
    ASSUME TypeOK, Next, NEW w \in Watcher, overflowed[w]
    PROVE  overflowed'[w]
<1>1. CASE Hangup
    BY <1>1 DEF Hangup, historyVars
<1>2. ASSUME NEW i \in Iface \cup Foreign, Dispatch(i) PROVE overflowed'[w]
    BY <1>2 DEF Dispatch
<1>3. ASSUME NEW v \in Watcher, Step(v) PROVE overflowed'[w]
    BY <1>3 DEF Step, WatchSignals, AddMatch, AddMatchFails, Register, Receive, Send, Stop,
        RawClosed, Unregister, RemoveMatch, CloseOut, Cancel, Consume, DeferredSend, historyVars
<1> QED  BY <1>1, <1>2, <1>3 DEF Next

LEMMA NextOrder == OrderInv /\ [Next]_vars => OrderInv'
<1> SUFFICES ASSUME OrderInv, [Next]_vars PROVE OrderInv'
    OBVIOUS
<1>1. StreamInv /\ StreamInv' /\ TypeOK
    BY NextStream DEF OrderInv, StreamInv
<1>2. CASE UNCHANGED vars
    BY <1>1, <1>2 DEF OrderInv, Ordered, Hand, vars
<1>3. ASSUME Next, NEW w \in Watcher, ~overflowed'[w] PROVE Ordered(w)'
    <2>1. Ordered(w)
        BY <1>1, <1>3, OverflowedStays DEF OrderInv
    <2>2. CASE Hangup
        <3>1. UNCHANGED <<stage, ev, raw, out, emitted, seen>> /\ deferred'[w] = {}
            BY <2>2 DEF Hangup, goroutineVars, historyVars
        <3> QED  BY <2>1, <3>1 DEF Ordered, Hand
    <2>3. ASSUME NEW i \in Iface \cup Foreign, Dispatch(i) PROVE Ordered(w)'
        BY <1>1, <1>3, <2>1, <2>3, DispatchOrder
    <2>4. ASSUME NEW v \in Watcher, Step(v), v # w PROVE Ordered(w)'
        <3>1. SameFor(w) /\ emitted' = emitted
            BY <1>1, <2>4, StepFrame
        <3> QED  BY <2>1, <3>1 DEF SameFor, Ordered, Hand
    <2> QED  BY <1>1, <1>3, <2>1, <2>2, <2>3, <2>4, StepOrder DEF Next
<1> QED  BY <1>1, <1>2, <1>3 DEF OrderInv

LEMMA OrderedPipeline ==
    ASSUME TypeOK, NEW w \in Watcher, Ordered(w)
    PROVE  Ascending(Pipeline(w))
<1>1. /\ seen[w] \in Seq(Signal) /\ out[w] \in Seq(Signal) /\ raw[w] \in Seq(Signal)
      /\ stage[w] = "sending" => ev[w] \in Signal
    BY DEF TypeOK
<1>2. InHand(w) \in Seq(Signal) /\ Ascending(InHand(w))
    BY <1>1 DEF InHand, Ascending
<1>3. Range(InHand(w)) = Hand(w)
    BY HandIsInHand
<1> DEFINE a == seen[w] \o out[w]
           b == a \o InHand(w)
<1>4. a \in Seq(Signal) /\ Ascending(a) /\ Range(a) = Range(seen[w]) \cup Range(out[w])
    <2>1. Before(Range(seen[w]), Range(out[w]))
        BY DEF Ordered, Before
    <2> QED  BY <1>1, <2>1, AscendingConcat DEF Ordered
<1>5. b \in Seq(Signal) /\ Ascending(b) /\ Range(b) = Range(a) \cup Hand(w)
    <2>1. Before(Range(a), Range(InHand(w)))
        BY <1>3, <1>4 DEF Ordered, Before
    <2> HIDE DEF a
    <2> QED  BY <1>2, <1>3, <1>4, <2>1, AscendingConcat
<1>6. Before(Range(b), Range(raw[w]))
    BY <1>4, <1>5 DEF Ordered, Before
<1>7. Ascending(raw[w])
    BY DEF Ordered
<1>8. Ascending(b \o raw[w])
    <2> HIDE DEF b
    <2> QED  BY <1>1, <1>5, <1>6, <1>7, AscendingConcat
<1> QED  BY <1>8 DEF Pipeline

\* Until the first time raw is full, the consumer receives the signals in the order the
\* connection received them, however the goroutine, the consumer, the bus and other
\* watchers interleave (signals.go: the two buffered channels and the goroutine between
\* them; what loses the order is the bus library's deferred send).
THEOREM OrderKept == Spec => []InOrderUntilOverflow
<1>1. OrderInv => InOrderUntilOverflow
    <2>1. OrderInv => \A w \in Watcher : ~overflowed[w] => Ascending(Pipeline(w))
        BY OrderedPipeline DEF OrderInv, StreamInv
    <2> QED  BY <2>1 DEF InOrderUntilOverflow, Ascending
<1> QED  BY <1>1, InitOrder, NextOrder, PTL DEF Spec
===============================================================================
