-------------------------- MODULE SignalStreamProofs --------------------------
(***************************************************************************)
(* SignalWatch implements EventStream: the goroutine, its two channels and *)
(* the bus library's deferred sends are together one lossless buffer, for  *)
(* any number of watchers and any channel capacities.                      *)
(***************************************************************************)
EXTENDS SignalWatchProofs

-------------------------------------------------------------------------------
(***************************************************************************)
(* Sequences without repetition.                                           *)
(***************************************************************************)
Distinct(s) == \A j, k \in DOMAIN s : s[j] = s[k] => j = k

LEMMA RangeAppend ==
    ASSUME NEW S, NEW s \in Seq(S), NEW e \in S
    PROVE  /\ Range(Append(s, e)) = Range(s) \cup {e}
           /\ Distinct(s) /\ e \notin Range(s) => Distinct(Append(s, e))
<1> DEFINE t == Append(s, e)
<1>1. /\ Len(s) \in Nat
      /\ DOMAIN s = 1 .. Len(s) /\ DOMAIN t = 1 .. Len(s) + 1
      /\ \A k \in 1 .. Len(s) : t[k] = s[k]
      /\ t[Len(s) + 1] = e
    BY AppendProperties, LenProperties
<1>2. \A k \in DOMAIN t : k \in DOMAIN s \/ k = Len(s) + 1
    BY <1>1
<1>3. Range(t) = Range(s) \cup {e}
    BY <1>1, <1>2 DEF Range
<1>4. ASSUME Distinct(s), e \notin Range(s) PROVE Distinct(t)
    BY <1>1, <1>2, <1>4 DEF Range, Distinct
<1> QED  BY <1>3, <1>4

LEMMA RangeTail ==
    ASSUME NEW S, NEW s \in Seq(S), s # <<>>
    PROVE  /\ Head(s) \in S
           /\ Tail(s) \in Seq(S)
           /\ Range(s) = Range(Tail(s)) \cup {Head(s)}
           /\ Distinct(s) => Distinct(Tail(s)) /\ Head(s) \notin Range(Tail(s))
<1> DEFINE t == Tail(s)
<1>1. /\ Len(s) \in Nat \ {0}
      /\ Head(s) \in S /\ Head(s) = s[1]
      /\ t \in Seq(S)
      /\ DOMAIN s = 1 .. Len(s) /\ DOMAIN t = 1 .. Len(s) - 1
      /\ \A k \in 1 .. Len(s) - 1 : t[k] = s[k + 1]
    BY HeadTailProperties, LenProperties, EmptySeq
<1>2. \A k \in DOMAIN s : k = 1 \/ (k - 1 \in DOMAIN t /\ t[k - 1] = s[k])
    BY <1>1
<1>3. \A k \in DOMAIN t : k + 1 \in DOMAIN s /\ t[k] = s[k + 1]
    BY <1>1
<1>4. Range(s) = Range(t) \cup {Head(s)}
    <2>1. Range(s) \subseteq Range(t) \cup {Head(s)}
        BY <1>1, <1>2 DEF Range
    <2>2. Range(t) \cup {Head(s)} \subseteq Range(s)
        BY <1>1, <1>3 DEF Range
    <2> QED  BY <2>1, <2>2
<1>5. ASSUME Distinct(s) PROVE Distinct(t) /\ Head(s) \notin Range(t)
    <2>1. Distinct(t)
        BY <1>1, <1>3, <1>5 DEF Distinct
    <2>2. Head(s) \notin Range(t)
        BY <1>1, <1>3, <1>5 DEF Distinct, Range
    <2> QED  BY <2>1, <2>2
<1> QED  BY <1>1, <1>4, <1>5

LEMMA RangeEmpty == Range(<<>>) = {} /\ Distinct(<<>>)
BY DEF Range, Distinct

-------------------------------------------------------------------------------
(***************************************************************************)
(* The inductive invariant.                                                *)
(***************************************************************************)
\* The signal the goroutine has in hand, as a set.
Hand(w) == IF stage[w] = "sending" THEN {ev[w]} ELSE {}

\* Signals are numbered in the order of their emission, so that a new one is new.
Numbered == \A s \in Range(emitted) : s.n \in 1 .. Len(emitted)

\* Whatever is on its way was emitted, and what is past the filter is firewalld's.
FromBus(w) ==
    /\ Range(out[w]) \cup Hand(w) \cup Range(raw[w]) \cup deferred[w] \subseteq Range(emitted)
    /\ \A s \in Range(out[w]) \cup Hand(w) : s.iface \in Iface

\* And it is in one place only, once.
Once(w) ==
    /\ Distinct(out[w]) /\ Distinct(raw[w])
    /\ Range(out[w]) \cap Hand(w) = {}
    /\ (Range(out[w]) \cup Hand(w)) \cap Range(raw[w]) = {}
    /\ (Range(out[w]) \cup Hand(w) \cup Range(raw[w])) \cap deferred[w] = {}

Placed == \A w \in Watcher : FromBus(w) /\ Once(w)

\* Where a watcher stands, as far as its registration goes.  The goroutine stops reading
\* only when its ctx is done or raw is closed; before Register there is nothing to read.
Standing ==
    \A w \in Watcher :
        /\ registered[w] => open /\ stage[w] \in Subscribed
        /\ hungUp[w] => ~open
        /\ stage[w] = "unregister" => cancelled[w] \/ ~registered[w]
        /\ stage[w] \in {"off", "adding", "failed"} => raw[w] = <<>> /\ deferred[w] = {}

StreamInv == TypeOK /\ Numbered /\ Placed /\ Standing

LEMMA HandIsInHand == \A w \in Watcher : Range(InHand(w)) = Hand(w)
<1> SUFFICES ASSUME NEW w \in Watcher PROVE Range(InHand(w)) = Hand(w)
    OBVIOUS
<1>1. Range(<<ev[w]>>) = {ev[w]}
    BY DEF Range
<1> QED  BY <1>1, RangeEmpty DEF InHand, Hand

LEMMA InitStream == Init => StreamInv
<1> SUFFICES ASSUME Init PROVE StreamInv
    OBVIOUS
<1>1. TypeOK
    BY InitTyped
<1>2. Numbered /\ Placed /\ Standing
    BY RangeEmpty DEF Init, Numbered, Placed, FromBus, Once, Standing, Hand
<1> QED  BY <1>1, <1>2 DEF StreamInv

-------------------------------------------------------------------------------
(***************************************************************************)
(* A step of one watcher leaves the others alone.                          *)
(***************************************************************************)
SameFor(v) ==
    /\ stage'[v] = stage[v] /\ cancelled'[v] = cancelled[v] /\ ev'[v] = ev[v]
    /\ raw'[v] = raw[v] /\ out'[v] = out[v] /\ deferred'[v] = deferred[v]
    /\ hungUp'[v] = hungUp[v] /\ registered'[v] = registered[v] /\ seen'[v] = seen[v]

LEMMA StepFrame ==
    ASSUME TypeOK, NEW w \in Watcher, Step(w)
    PROVE  /\ UNCHANGED <<open, emitted>>
           /\ \A v \in Watcher \ {w} : SameFor(v)
<1>1. UNCHANGED <<open, emitted>>
    BY DEF Step, WatchSignals, AddMatch, AddMatchFails, Register, Receive, Send, Stop, RawClosed,
        Unregister, RemoveMatch, CloseOut, Cancel, Consume, DeferredSend, libraryVars
<1>2. \A v \in Watcher \ {w} : SameFor(v)
    <2>1. CASE WatchSignals(w) \/ AddMatch(w) \/ AddMatchFails(w) \/ Register(w)
        BY <2>1 DEF WatchSignals, AddMatch, AddMatchFails, Register, SameFor, TypeOK, libraryVars,
            historyVars
    <2>2. CASE Receive(w) \/ Send(w) \/ Stop(w) \/ RawClosed(w)
        BY <2>2 DEF Receive, Send, Stop, RawClosed, SameFor, TypeOK, libraryVars, historyVars
    <2>3. CASE Unregister(w) \/ RemoveMatch(w) \/ CloseOut(w)
        BY <2>3 DEF Unregister, RemoveMatch, CloseOut, SameFor, TypeOK, libraryVars, historyVars
    <2>4. CASE Cancel(w) \/ Consume(w) \/ DeferredSend(w)
        BY <2>4 DEF Cancel, Consume, DeferredSend, SameFor, TypeOK, goroutineVars, libraryVars,
            historyVars
    <2> QED  BY <2>1, <2>2, <2>3, <2>4 DEF Step
<1> QED  BY <1>1, <1>2

(***************************************************************************)
(* What each action does to the places a signal can be in.                 *)
(***************************************************************************)
LEMMA ReceiveMoves ==
    ASSUME StreamInv, NEW w \in Watcher, Receive(w)
    PROVE  /\ Range(raw[w]) = Range(raw'[w]) \cup {Head(raw[w])}
           /\ Distinct(raw'[w]) /\ Head(raw[w]) \notin Range(raw'[w])
           /\ Hand(w) = {}
           /\ Hand(w)' = IF Head(raw[w]).iface \in Iface THEN {Head(raw[w])} ELSE {}
           /\ out' = out /\ deferred' = deferred
<1>1. /\ raw[w] \in Seq(Signal) /\ raw[w] # <<>> /\ Distinct(raw[w])
      /\ raw'[w] = Tail(raw[w])
    BY DEF Receive, StreamInv, TypeOK, Placed, Once
<1>2. Hand(w) = {}
    BY DEF Receive, Hand
<1>3. Hand(w)' = IF Head(raw[w]).iface \in Iface THEN {Head(raw[w])} ELSE {}
    BY DEF Receive, Hand, StreamInv, TypeOK
<1> QED  BY <1>1, <1>2, <1>3, RangeTail DEF Receive, libraryVars

LEMMA SendMoves ==
    ASSUME StreamInv, NEW w \in Watcher, Send(w)
    PROVE  /\ Hand(w) = {ev[w]} /\ Hand(w)' = {}
           /\ Range(out'[w]) = Range(out[w]) \cup {ev[w]}
           /\ Distinct(out'[w])
           /\ raw' = raw /\ deferred' = deferred
<1>1. /\ out[w] \in Seq(Signal) /\ ev[w] \in Signal
      /\ out'[w] = Append(out[w], ev[w])
      /\ Hand(w) = {ev[w]} /\ Hand(w)' = {}
    BY DEF Send, StreamInv, TypeOK, Hand
<1>2. Distinct(out[w]) /\ ev[w] \notin Range(out[w])
    BY <1>1 DEF StreamInv, Placed, Once
<1> QED  BY <1>1, <1>2, RangeAppend DEF Send, libraryVars

LEMMA ConsumeMoves ==
    ASSUME StreamInv, NEW w \in Watcher, Consume(w)
    PROVE  /\ Range(out[w]) = Range(out'[w]) \cup {Head(out[w])}
           /\ Distinct(out'[w]) /\ Head(out[w]) \notin Range(out'[w])
           /\ Hand(w)' = Hand(w)
           /\ raw' = raw /\ deferred' = deferred
<1>1. /\ out[w] \in Seq(Signal) /\ out[w] # <<>> /\ Distinct(out[w])
      /\ out'[w] = Tail(out[w])
    BY DEF Consume, StreamInv, TypeOK, Placed, Once
<1> QED  BY <1>1, RangeTail DEF Consume, Hand, goroutineVars, libraryVars

LEMMA DeferredSendMoves ==
    ASSUME StreamInv, NEW w \in Watcher, DeferredSend(w)
    PROVE  \E s \in deferred[w] :
              /\ Range(raw'[w]) = Range(raw[w]) \cup {s}
              /\ Distinct(raw'[w])
              /\ deferred'[w] = deferred[w] \ {s}
              /\ Hand(w)' = Hand(w)
              /\ out' = out
<1>1. PICK s \in deferred[w] :
        /\ raw' = [raw EXCEPT ![w] = Append(@, s)]
        /\ deferred' = [deferred EXCEPT ![w] = @ \ {s}]
    BY DEF DeferredSend
<1>2. /\ raw[w] \in Seq(Signal) /\ s \in Signal
      /\ raw'[w] = Append(raw[w], s)
      /\ deferred'[w] = deferred[w] \ {s}
    BY <1>1 DEF StreamInv, TypeOK
<1>3. Distinct(raw[w]) /\ s \notin Range(raw[w])
    BY <1>1 DEF StreamInv, Placed, Once
<1> QED  BY <1>1, <1>2, <1>3, RangeAppend DEF DeferredSend, Hand, goroutineVars

Idle(w) ==
    \/ WatchSignals(w) \/ AddMatch(w) \/ AddMatchFails(w) \/ Register(w)
    \/ RawClosed(w) \/ RemoveMatch(w) \/ CloseOut(w) \/ Cancel(w)

LEMMA IdleMoves ==
    ASSUME TypeOK, NEW w \in Watcher, Idle(w)
    PROVE  Hand(w)' = Hand(w) /\ UNCHANGED <<out, raw, deferred>>
<1>1. UNCHANGED <<out, raw, deferred, ev>>
    BY DEF Idle, WatchSignals, AddMatch, AddMatchFails, Register, RawClosed, RemoveMatch, CloseOut,
        Cancel, goroutineVars, libraryVars
<1>2. (stage[w] # "sending" /\ stage'[w] # "sending") \/ stage'[w] = stage[w]
    BY DEF Idle, WatchSignals, AddMatch, AddMatchFails, Register, RawClosed, RemoveMatch, CloseOut,
        Cancel, goroutineVars, TypeOK
<1> QED  BY <1>1, <1>2 DEF Hand

LEMMA StopMoves ==
    ASSUME TypeOK, NEW w \in Watcher, Stop(w)
    PROVE  Hand(w)' = {} /\ UNCHANGED <<out, raw, deferred>>
BY DEF Stop, Hand, TypeOK, libraryVars

LEMMA UnregisterMoves ==
    ASSUME TypeOK, NEW w \in Watcher, Unregister(w)
    PROVE  /\ Hand(w)' = {} /\ raw'[w] = <<>> /\ deferred'[w] = {}
           /\ out' = out
BY DEF Unregister, Hand, TypeOK

-------------------------------------------------------------------------------
(***************************************************************************)
(* The invariant is inductive.                                             *)
(***************************************************************************)
LEMMA StepPlaced ==
    ASSUME StreamInv, NEW w \in Watcher, Step(w)
    PROVE  Placed'
<1>1. TypeOK /\ FromBus(w) /\ Once(w)
    BY DEF StreamInv, Placed
<1>2. Range(emitted)' = Range(emitted)
    BY <1>1, StepFrame
<1>3. ASSUME NEW v \in Watcher \ {w} PROVE FromBus(v)' /\ Once(v)'
    <2>1. FromBus(v) /\ Once(v) /\ SameFor(v)
        BY <1>1, <1>3, StepFrame DEF StreamInv, Placed
    <2>2. Hand(v)' = Hand(v)
        BY <2>1 DEF SameFor, Hand
    <2> QED  BY <1>2, <2>1, <2>2 DEF SameFor, FromBus, Once
<1>4. FromBus(w)' /\ Once(w)'
    <2>1. CASE Receive(w)
        <3>1. FromBus(w)'
            BY <1>1, <1>2, <2>1, ReceiveMoves DEF FromBus
        <3>2. Once(w)'
            BY <1>1, <2>1, ReceiveMoves DEF Once
        <3> QED  BY <3>1, <3>2
    <2>2. CASE Send(w)
        <3>1. FromBus(w)'
            BY <1>1, <1>2, <2>2, SendMoves DEF FromBus
        <3>2. Once(w)'
            BY <1>1, <2>2, SendMoves DEF Once
        <3> QED  BY <3>1, <3>2
    <2>3. CASE Consume(w)
        <3>1. FromBus(w)'
            BY <1>1, <1>2, <2>3, ConsumeMoves DEF FromBus
        <3>2. Once(w)'
            BY <1>1, <2>3, ConsumeMoves DEF Once
        <3> QED  BY <3>1, <3>2
    <2>4. CASE DeferredSend(w)
        <3>1. FromBus(w)'
            BY <1>1, <1>2, <2>4, DeferredSendMoves DEF FromBus
        <3>2. Once(w)'
            BY <1>1, <2>4, DeferredSendMoves DEF Once
        <3> QED  BY <3>1, <3>2
    <2>5. CASE Idle(w)
        BY <1>1, <1>2, <2>5, IdleMoves DEF FromBus, Once
    <2>6. CASE Stop(w)
        BY <1>1, <1>2, <2>6, StopMoves DEF FromBus, Once
    <2>7. CASE Unregister(w)
        BY <1>1, <1>2, <2>7, UnregisterMoves, RangeEmpty DEF FromBus, Once
    <2> QED  BY <2>1, <2>2, <2>3, <2>4, <2>5, <2>6, <2>7 DEF Step, Idle
<1> QED  BY <1>3, <1>4 DEF Placed

LEMMA StepStanding ==
    ASSUME StreamInv, NEW w \in Watcher, Step(w)
    PROVE  Standing'
<1> DEFINE Stands(v) == /\ registered[v] => open /\ stage[v] \in Subscribed
                        /\ hungUp[v] => ~open
                        /\ stage[v] = "unregister" => cancelled[v] \/ ~registered[v]
                        /\ stage[v] \in {"off", "adding", "failed"} =>
                              raw[v] = <<>> /\ deferred[v] = {}
<1>1. TypeOK /\ Standing /\ open' = open
    BY StepFrame DEF StreamInv
<1>2. ASSUME NEW v \in Watcher \ {w} PROVE Stands(v)'
    <2>1. SameFor(v)
        BY <1>1, <1>2, StepFrame
    <2> QED  BY <1>1, <2>1 DEF Standing, SameFor
<1>3. Stands(w)'
    <2>1. CASE WatchSignals(w) \/ AddMatch(w) \/ AddMatchFails(w)
        BY <1>1, <2>1 DEF WatchSignals, AddMatch, AddMatchFails, Standing, Subscribed, TypeOK,
            libraryVars
    <2>2. CASE Register(w)
        BY <1>1, <2>2 DEF Register, Standing, Subscribed, TypeOK
    <2>3. CASE Receive(w) \/ Send(w)
        BY <1>1, <2>3 DEF Receive, Send, Standing, Subscribed, TypeOK, libraryVars
    <2>4. CASE Stop(w) \/ RawClosed(w)
        BY <1>1, <2>4 DEF Stop, RawClosed, Standing, Subscribed, TypeOK, libraryVars
    <2>5. CASE Unregister(w) \/ RemoveMatch(w) \/ CloseOut(w)
        BY <1>1, <2>5 DEF Unregister, RemoveMatch, CloseOut, Standing, Subscribed, TypeOK,
            libraryVars
    <2>6. CASE Cancel(w) \/ Consume(w)
        BY <1>1, <2>6 DEF Cancel, Consume, Standing, Subscribed, TypeOK, goroutineVars, libraryVars
    <2>7. CASE DeferredSend(w)
        BY <1>1, <2>7 DEF DeferredSend, Standing, Subscribed, TypeOK, goroutineVars
    <2> QED  BY <2>1, <2>2, <2>3, <2>4, <2>5, <2>6, <2>7 DEF Step
<1> QED  BY <1>2, <1>3 DEF Standing

\* A new signal is new, and every registered watcher has it in raw or deferred.
LEMMA DispatchMoves ==
    ASSUME StreamInv, NEW i \in Iface \cup Foreign, Dispatch(i)
    PROVE  /\ NewSignal(i) \in Signal
           /\ NewSignal(i) \notin Range(emitted)
           /\ Range(emitted') = Range(emitted) \cup {NewSignal(i)}
           /\ \A w \in Watcher :
                /\ Distinct(raw'[w]) /\ Hand(w)' = Hand(w)
                /\ \/ /\ ~registered[w]
                      /\ raw'[w] = raw[w] /\ deferred'[w] = deferred[w]
                   \/ /\ registered[w]
                      /\ Range(raw'[w]) = Range(raw[w]) \cup {NewSignal(i)}
                      /\ deferred'[w] = deferred[w]
                   \/ /\ registered[w]
                      /\ raw'[w] = raw[w]
                      /\ deferred'[w] = deferred[w] \cup {NewSignal(i)}
<1> DEFINE s == NewSignal(i)
<1>1. TypeOK /\ Numbered /\ Placed /\ Len(emitted) \in Nat
    BY LenProperties DEF StreamInv, TypeOK
<1>2. /\ emitted' = Append(emitted, s)
      /\ raw' = [w \in Watcher |->
                   IF registered[w] /\ HasRoom(w) THEN Append(raw[w], s) ELSE raw[w]]
      /\ deferred' = [w \in Watcher |->
                        IF registered[w] /\ ~HasRoom(w) THEN deferred[w] \cup {s} ELSE deferred[w]]
    BY DEF Dispatch, NewSignal
<1>3. s \in Signal
    BY <1>1, NewSignalTyped
<1>4. s \notin Range(emitted)
    <2>1. s.n = Len(emitted) + 1
        BY DEF NewSignal
    <2> QED  BY <1>1, <2>1 DEF Numbered
<1>5. Range(emitted') = Range(emitted) \cup {s}
    BY <1>1, <1>2, <1>3, RangeAppend DEF TypeOK
<1>6. ASSUME NEW w \in Watcher
      PROVE  /\ Range(Append(raw[w], s)) = Range(raw[w]) \cup {s}
             /\ Distinct(Append(raw[w], s)) /\ Distinct(raw[w])
    <2>1. raw[w] \in Seq(Signal) /\ Distinct(raw[w]) /\ s \notin Range(raw[w])
        BY <1>1, <1>4 DEF TypeOK, Placed, FromBus, Once
    <2> QED  BY <1>3, <2>1, RangeAppend
<1>7. \A w \in Watcher : Hand(w)' = Hand(w)
    BY DEF Dispatch, Hand, goroutineVars
<1> QED  BY <1>2, <1>3, <1>4, <1>5, <1>6, <1>7

LEMMA DispatchStream ==
    ASSUME StreamInv, NEW i \in Iface \cup Foreign, Dispatch(i)
    PROVE  StreamInv'
<1> DEFINE s == NewSignal(i)
<1>1. TypeOK /\ Numbered /\ Placed /\ Standing
    BY DEF StreamInv
<1>2. TypeOK'
    BY <1>1, DispatchTyped
<1>3. Numbered'
    <2>1. Len(emitted) \in Nat /\ Len(emitted') = Len(emitted) + 1 /\ s.n = Len(emitted) + 1
        BY <1>1, DispatchMoves, AppendProperties, LenProperties DEF Dispatch, NewSignal, TypeOK
    <2>2. \A x \in Range(emitted) : x.n \in 1 .. Len(emitted) + 1
        BY <1>1, <2>1 DEF Numbered
    <2> QED  BY <2>1, <2>2, DispatchMoves DEF Numbered
<1>4. ASSUME NEW w \in Watcher PROVE FromBus(w)' /\ Once(w)'
    <2>1. FromBus(w) /\ Once(w) /\ out' = out
        BY <1>1 DEF Placed, Dispatch
    <2>2. FromBus(w)'
        BY <2>1, DispatchMoves DEF FromBus
    <2>3. Once(w)'
        BY <2>1, DispatchMoves DEF Once, FromBus
    <2> QED  BY <2>2, <2>3
<1>5. Standing'
    BY <1>1, <1>2 DEF Dispatch, Standing, Subscribed, goroutineVars
<1> QED  BY <1>2, <1>3, <1>4, <1>5 DEF StreamInv, Placed

LEMMA HangupStream ==
    ASSUME StreamInv, Hangup
    PROVE  StreamInv'
<1>1. TypeOK /\ Numbered /\ Placed /\ Standing
    BY DEF StreamInv
<1>2. UNCHANGED <<stage, ev, raw, out, emitted, cancelled>> /\ ~open'
      /\ \A w \in Watcher : ~registered'[w] /\ deferred'[w] = {}
    BY DEF Hangup, goroutineVars, historyVars
<1>3. TypeOK'
    BY <1>1, HangupTyped
<1>4. Numbered' /\ Standing'
    BY <1>1, <1>2 DEF Numbered, Standing
<1>5. Placed'
    BY <1>1, <1>2 DEF Placed, FromBus, Once, Hand
<1> QED  BY <1>3, <1>4, <1>5 DEF StreamInv

LEMMA NextStream == StreamInv /\ [Next]_vars => StreamInv'
<1> SUFFICES ASSUME StreamInv, [Next]_vars PROVE StreamInv'
    OBVIOUS
<1>1. CASE Hangup
    BY <1>1, HangupStream
<1>2. ASSUME NEW i \in Iface \cup Foreign, Dispatch(i) PROVE StreamInv'
    BY <1>2, DispatchStream
<1>3. ASSUME NEW w \in Watcher, Step(w) PROVE StreamInv'
    <2>1. TypeOK'
        BY NextTyped DEF StreamInv
    <2>2. Numbered'
        BY <1>3, StepFrame DEF StreamInv, Numbered
    <2> QED  BY <1>3, <2>1, <2>2, StepPlaced, StepStanding DEF StreamInv
<1>4. CASE UNCHANGED vars
    <2>1. TypeOK'
        BY NextTyped DEF StreamInv
    <2>2. Numbered' /\ Standing'
        BY <1>4 DEF StreamInv, Numbered, Standing, vars
    <2>3. Placed'
        BY <1>4 DEF StreamInv, Placed, FromBus, Once, Hand, vars
    <2> QED  BY <2>1, <2>2, <2>3 DEF StreamInv
<1> QED  BY <1>1, <1>2, <1>3, <1>4 DEF Next

-------------------------------------------------------------------------------
(***************************************************************************)
(* The refinement.  A watcher's step is seen from outside through its      *)
(* state and through what it owes; the steps of the goroutine, which only  *)
(* pass a signal on, are invisible.                                        *)
(***************************************************************************)
Reading == {"running", "sending"}

LEMMA OwedIs ==
    ASSUME NEW w \in Watcher
    PROVE  Owed(w) = Firewalld(Range(out[w]) \cup
                        IF stage[w] \in Reading THEN Hand(w) \cup Range(raw[w]) \cup deferred[w]
                                                ELSE {})
BY HandIsInHand DEF Owed, Upstream, Reading

LEMMA OwedIsNext ==
    ASSUME NEW w \in Watcher
    PROVE  Owed(w)' = Firewalld(Range(out'[w]) \cup
                        IF stage'[w] \in Reading
                        THEN Hand(w)' \cup Range(raw'[w]) \cup deferred'[w]
                        ELSE {})
<1>1. Range(<<ev'[w]>>) = {ev'[w]}
    BY DEF Range
<1>2. Range(InHand(w)') = Hand(w)'
    BY <1>1, RangeEmpty DEF InHand, Hand
<1> QED  BY <1>2 DEF Owed, Upstream, Reading

Unseen(w) == StateOf(w)' = StateOf(w) /\ Owed(w)' = Owed(w)

Ending(w) ==
    /\ StateOf(w)' = StateOf(w) \/ (StateOf(w) = "on" /\ StateOf(w)' = "ending")
    /\ Owed(w)' = Owed(w) \/ (StateOf(w)' = "ending" /\ Owed(w)' \subseteq Owed(w))

LEMMA SameUnseen ==
    ASSUME NEW v \in Watcher, SameFor(v)
    PROVE  Unseen(v)
<1>1. Hand(v)' = Hand(v)
    BY DEF SameFor, Hand
<1>2. Owed(v)' = Owed(v)
    BY <1>1, OwedIs, OwedIsNext DEF SameFor
<1> QED  BY <1>2 DEF Unseen, SameFor, StateOf

LEMMA PassUnseen ==
    ASSUME StreamInv, NEW w \in Watcher, Receive(w) \/ Send(w) \/ DeferredSend(w)
    PROVE  Unseen(w) /\ UNCHANGED seen
<1>1. StateOf(w)' = StateOf(w)
    BY DEF StreamInv, TypeOK, Receive, Send, DeferredSend, StateOf, goroutineVars, libraryVars
<1>2. CASE Receive(w)
    <2>1. stage[w] \in Reading /\ stage'[w] \in Reading
        BY <1>2 DEF StreamInv, TypeOK, Receive, Reading
    <2> QED  BY <1>1, <1>2, <2>1, ReceiveMoves, OwedIs, OwedIsNext
        DEF Unseen, Firewalld, Receive, historyVars
<1>3. CASE Send(w)
    <2>1. stage[w] \in Reading /\ stage'[w] \in Reading
        BY <1>3 DEF StreamInv, TypeOK, Send, Reading
    <2> QED  BY <1>1, <1>3, <2>1, SendMoves, OwedIs, OwedIsNext DEF Unseen, Send, historyVars
<1>4. CASE DeferredSend(w)
    <2>1. stage'[w] = stage[w]
        BY <1>4 DEF DeferredSend, goroutineVars
    <2>2. PICK s \in deferred[w] : /\ Range(raw'[w]) = Range(raw[w]) \cup {s}
                                  /\ deferred'[w] = deferred[w] \ {s}
                                  /\ Hand(w)' = Hand(w) /\ out' = out
        BY <1>4, DeferredSendMoves
    <2>3. Hand(w)' \cup Range(raw'[w]) \cup deferred'[w] = Hand(w) \cup Range(raw[w]) \cup deferred[w]
        BY <2>2
    <2>4. Owed(w)' = Owed(w)
        BY <2>1, <2>2, <2>3, OwedIs, OwedIsNext
    <2> QED  BY <1>1, <1>4, <2>4 DEF Unseen, DeferredSend, historyVars
<1> QED  BY <1>2, <1>3, <1>4

LEMMA IdleUnseen ==
    ASSUME StreamInv, NEW w \in Watcher,
           WatchSignals(w) \/ AddMatch(w) \/ AddMatchFails(w) \/ RemoveMatch(w) \/ CloseOut(w)
    PROVE  Unseen(w) /\ UNCHANGED seen
<1>1. Hand(w)' = Hand(w) /\ UNCHANGED <<out, raw, deferred, seen>>
    BY IdleMoves DEF StreamInv, Idle, WatchSignals, AddMatch, AddMatchFails, RemoveMatch, CloseOut,
        historyVars
<1>2. /\ stage[w] \notin Reading /\ stage'[w] \notin Reading
      /\ StateOf(w)' = StateOf(w)
    BY DEF StreamInv, TypeOK, Standing, Subscribed, Reading, StateOf, WatchSignals, AddMatch,
        AddMatchFails, RemoveMatch, CloseOut, libraryVars
<1> QED  BY <1>1, <1>2, OwedIs, OwedIsNext DEF Unseen

LEMMA StopEnding ==
    ASSUME StreamInv, NEW w \in Watcher, Stop(w) \/ RawClosed(w) \/ Unregister(w) \/ Cancel(w)
    PROVE  Ending(w) /\ UNCHANGED seen
<1>1. CASE Stop(w)
    <2>1. /\ StateOf(w) = "ending" /\ StateOf(w)' = "ending"
          /\ stage'[w] \notin Reading
        BY <1>1 DEF StreamInv, TypeOK, Stop, StateOf, Reading
    <2> QED  BY <1>1, <2>1, StopMoves, OwedIs, OwedIsNext
        DEF StreamInv, Ending, Firewalld, Stop, historyVars
<1>2. CASE RawClosed(w)
    <2>1. ~registered[w]
        BY <1>2 DEF StreamInv, Standing, RawClosed
    <2>2. /\ StateOf(w) = "ending" /\ StateOf(w)' = "ending"
          /\ stage'[w] \notin Reading
        BY <1>2, <2>1 DEF StreamInv, TypeOK, RawClosed, StateOf, Reading, libraryVars
    <2> QED  BY <1>2, <2>2, IdleMoves, OwedIs, OwedIsNext
        DEF StreamInv, Ending, Firewalld, RawClosed, Idle, historyVars
<1>3. CASE Unregister(w)
    <2>1. /\ StateOf(w) = "ending" /\ StateOf(w)' = "ending"
          /\ stage[w] \notin Reading /\ stage'[w] \notin Reading
        BY <1>3 DEF StreamInv, TypeOK, Standing, Unregister, StateOf, Reading
    <2> QED  BY <1>3, <2>1, UnregisterMoves, OwedIs, OwedIsNext
        DEF StreamInv, Ending, Unregister, historyVars
<1>4. CASE Cancel(w)
    <2>1. Hand(w)' = Hand(w) /\ UNCHANGED <<stage, out, raw, deferred>>
        BY <1>4, IdleMoves DEF StreamInv, Idle, Cancel, goroutineVars
    <2>2. StateOf(w)' = StateOf(w) \/ (StateOf(w) = "on" /\ StateOf(w)' = "ending")
        BY <1>4 DEF StreamInv, TypeOK, Cancel, StateOf, goroutineVars, libraryVars
    <2> QED  BY <1>4, <2>1, <2>2, OwedIs, OwedIsNext DEF Ending, Cancel, historyVars
<1> QED  BY <1>1, <1>2, <1>3, <1>4

LEMMA RegisterSubscribes ==
    ASSUME StreamInv, NEW w \in Watcher, Register(w)
    PROVE  /\ StateOf(w) = "off" /\ StateOf(w)' \in {"on", "ending"}
           /\ Owed(w)' = Owed(w) /\ UNCHANGED seen
<1>1. StateOf(w) = "off" /\ StateOf(w)' \in {"on", "ending"}
    BY DEF StreamInv, TypeOK, Register, StateOf
<1>2. /\ stage[w] \notin Reading /\ stage'[w] = "running"
      /\ raw[w] = <<>> /\ deferred[w] = {}
    BY DEF StreamInv, TypeOK, Standing, Register, Reading
<1>3. Hand(w)' = {} /\ UNCHANGED <<out, raw, deferred>>
    BY <1>2, IdleMoves DEF StreamInv, Idle, Hand
<1> QED  BY <1>1, <1>2, <1>3, RangeEmpty, OwedIs, OwedIsNext DEF Register, historyVars

LEMMA ConsumeYields ==
    ASSUME StreamInv, NEW w \in Watcher, Consume(w)
    PROVE  /\ StateOf(w)' = StateOf(w)
           /\ Head(out[w]) \in Owed(w)
           /\ Owed(w)' = Owed(w) \ {Head(out[w])}
           /\ seen' = [seen EXCEPT ![w] = Append(@, Head(out[w]))]
<1>1. stage' = stage /\ StateOf(w)' = StateOf(w)
    BY DEF Consume, StateOf, goroutineVars, libraryVars
<1>2. FromBus(w) /\ Once(w)
    BY DEF StreamInv, Placed
<1>3. Head(out[w]) \in Range(out[w]) /\ Head(out[w]).iface \in Iface
    BY <1>2, ConsumeMoves DEF FromBus
<1>4. Head(out[w]) \notin Hand(w) \cup Range(raw[w]) \cup deferred[w]
    BY <1>2, <1>3 DEF Once
<1>5. Head(out[w]) \in Owed(w)
    BY <1>3, OwedIs DEF Firewalld
<1>6. Owed(w)' = Owed(w) \ {Head(out[w])}
    BY <1>1, <1>4, ConsumeMoves, OwedIs, OwedIsNext DEF Firewalld
<1> QED  BY <1>1, <1>5, <1>6 DEF Consume

-------------------------------------------------------------------------------
(***************************************************************************)
(* The steps.  EventStream's variables are functions of the watcher.       *)
(***************************************************************************)
LEMMA AllUnseen ==
    ASSUME \A v \in Watcher : Unseen(v), UNCHANGED <<emitted, seen>>
    PROVE  UNCHANGED Stream!vars
<1>1. /\ [v \in Watcher |-> StateOf(v)]' = [v \in Watcher |-> StateOf(v)]
      /\ [v \in Watcher |-> Owed(v)]' = [v \in Watcher |-> Owed(v)]
    BY DEF Unseen
<1>2. Firewalld(Range(emitted))' = Firewalld(Range(emitted))
    BY DEF Firewalld
<1> QED  BY <1>1, <1>2 DEF Stream!vars

LEMMA AllEnding ==
    ASSUME \A v \in Watcher : Ending(v), UNCHANGED <<emitted, seen>>
    PROVE  Stream!Next
<1> DEFINE S == {v \in Watcher : StateOf(v) = "on" /\ StateOf(v)' = "ending"}
<1>1. S \in SUBSET {v \in Watcher : [u \in Watcher |-> StateOf(u)][v] = "on"}
    OBVIOUS
<1>2. [v \in Watcher |-> StateOf(v)]' =
      [v \in Watcher |-> IF v \in S THEN "ending" ELSE [u \in Watcher |-> StateOf(u)][v]]
    BY DEF Ending
<1>3. \A v \in Watcher :
        \/ [u \in Watcher |-> Owed(u)]'[v] = [u \in Watcher |-> Owed(u)][v]
        \/ /\ [u \in Watcher |-> StateOf(u)]'[v] = "ending"
           /\ [u \in Watcher |-> Owed(u)]'[v] \subseteq [u \in Watcher |-> Owed(u)][v]
    BY DEF Ending
<1>4. Firewalld(Range(emitted))' = Firewalld(Range(emitted))
    BY DEF Firewalld
<1>5. Stream!End
    BY <1>1, <1>2, <1>3, <1>4 DEF Stream!End
<1> QED  BY <1>5 DEF Stream!Next

LEMMA StepSimulates ==
    ASSUME StreamInv, NEW w \in Watcher, Step(w)
    PROVE  Stream!Next \/ UNCHANGED Stream!vars
<1>1. UNCHANGED emitted /\ \A v \in Watcher \ {w} : SameFor(v)
    BY StepFrame DEF StreamInv
<1>2. \A v \in Watcher \ {w} : Unseen(v)
    BY <1>1, SameUnseen
<1>3. CASE Receive(w) \/ Send(w) \/ DeferredSend(w)
    BY <1>1, <1>2, <1>3, PassUnseen, AllUnseen
<1>4. CASE WatchSignals(w) \/ AddMatch(w) \/ AddMatchFails(w) \/ RemoveMatch(w) \/ CloseOut(w)
    BY <1>1, <1>2, <1>4, IdleUnseen, AllUnseen
<1>5. CASE Stop(w) \/ RawClosed(w) \/ Unregister(w) \/ Cancel(w)
    BY <1>1, <1>2, <1>5, StopEnding, AllEnding DEF Unseen, Ending
<1>6. Firewalld(Range(emitted))' = Firewalld(Range(emitted))
    BY <1>1 DEF Firewalld
<1>7. CASE Register(w)
    <2>1. PICK s \in {"on", "ending"} : StateOf(w)' = s
        BY <1>7, RegisterSubscribes
    <2>2. [v \in Watcher |-> StateOf(v)]' =
            [[v \in Watcher |-> StateOf(v)] EXCEPT ![w] = s]
        BY <1>2, <2>1 DEF Unseen
    <2>3. [v \in Watcher |-> Owed(v)]' = [v \in Watcher |-> Owed(v)]
        BY <1>2, <1>7, RegisterSubscribes DEF Unseen
    <2>4. Stream!Subscribe(w)
        BY <1>6, <1>7, <2>2, <2>3, RegisterSubscribes DEF Stream!Subscribe
    <2> QED  BY <2>4 DEF Stream!Next
<1>8. CASE Consume(w)
    <2> DEFINE e == Head(out[w])
    <2>1. [v \in Watcher |-> StateOf(v)]' = [v \in Watcher |-> StateOf(v)]
        BY <1>2, <1>8, ConsumeYields DEF Unseen
    <2>2. e \in [v \in Watcher |-> Owed(v)][w]
        BY <1>8, ConsumeYields
    <2>3. [v \in Watcher |-> Owed(v)]' = [[v \in Watcher |-> Owed(v)] EXCEPT ![w] = @ \ {e}]
        BY <1>2, <1>8, ConsumeYields DEF Unseen
    <2>4. seen' = [seen EXCEPT ![w] = Append(@, e)]
        BY <1>8, ConsumeYields
    <2>5. Stream!Yield(w)
        BY <1>6, <2>1, <2>2, <2>3, <2>4 DEF Stream!Yield
    <2> QED  BY <2>5 DEF Stream!Next
<1> QED  BY <1>3, <1>4, <1>5, <1>7, <1>8 DEF Step

LEMMA HangupSimulates ==
    ASSUME StreamInv, Hangup
    PROVE  Stream!Next
<1>1. UNCHANGED <<emitted, seen>>
    BY DEF Hangup, historyVars
<1>2. ASSUME NEW w \in Watcher PROVE Ending(w)
    <2>1. /\ UNCHANGED <<stage, cancelled, out, raw>> /\ Hand(w)' = Hand(w)
          /\ ~registered'[w] /\ deferred'[w] = {}
        BY DEF Hangup, Hand, goroutineVars
    <2>2. StateOf(w)' = StateOf(w) \/ (StateOf(w) = "on" /\ StateOf(w)' = "ending")
        BY <2>1 DEF StateOf
    <2>3. CASE stage[w] \in Reading
        <3>1. StateOf(w)' = "ending"
            BY <2>1, <2>3 DEF StateOf, Reading
        <3>2. Owed(w)' \subseteq Owed(w)
            BY <2>1, <2>3, OwedIs, OwedIsNext DEF Firewalld
        <3> QED  BY <2>2, <3>1, <3>2 DEF Ending
    <2>4. CASE stage[w] \notin Reading
        <3>1. Owed(w)' = Owed(w)
            BY <2>1, <2>4, OwedIs, OwedIsNext
        <3> QED  BY <2>2, <3>1 DEF Ending
    <2> QED  BY <2>3, <2>4
<1> QED  BY <1>1, <1>2, AllEnding

LEMMA DispatchSimulates ==
    ASSUME StreamInv, NEW i \in Iface \cup Foreign, Dispatch(i)
    PROVE  Stream!Next \/ UNCHANGED Stream!vars
<1> DEFINE s == NewSignal(i)
<1>1. UNCHANGED <<stage, cancelled, out, registered, seen>>
    BY DEF Dispatch, goroutineVars
<1>2. \A w \in Watcher : StateOf(w)' = StateOf(w)
    BY <1>1 DEF StateOf
<1>3. s \in Signal /\ s.iface = i /\ s.n \in 1 .. MaxSignals
    BY DispatchMoves DEF NewSignal, Signal
<1>4. CASE i \in Iface
    <2>1. s \in [n : 1 .. MaxSignals, iface : Iface]
        BY <1>3, <1>4 DEF NewSignal
    <2>2. /\ s \notin Firewalld(Range(emitted))
          /\ Firewalld(Range(emitted))' = Firewalld(Range(emitted)) \cup {s}
        BY <1>3, <1>4, DispatchMoves DEF Firewalld
    <2>3. ASSUME NEW w \in Watcher
          PROVE  /\ Owed(w)' \in {Owed(w), Owed(w) \cup {s}}
                 /\ StateOf(w) = "on" => s \in Owed(w)'
                 /\ StateOf(w) = "off" => Owed(w)' = Owed(w)
        <3>1. CASE ~registered[w] \/ stage[w] \notin Reading
            <4>1. Owed(w)' = Owed(w)
                BY <1>1, <3>1, DispatchMoves, OwedIs, OwedIsNext
            <4>2. StateOf(w) # "on"
                BY <3>1 DEF StreamInv, Standing, Subscribed, StateOf, Reading
            <4> QED  BY <4>1, <4>2
        <3>2. CASE registered[w] /\ stage[w] \in Reading
            <4>1. Hand(w)' \cup Range(raw'[w]) \cup deferred'[w] =
                    Hand(w) \cup Range(raw[w]) \cup deferred[w] \cup {s}
                BY <3>2, DispatchMoves
            <4>2. Owed(w)' = Owed(w) \cup {s}
                BY <1>1, <1>3, <1>4, <3>2, <4>1, OwedIs, OwedIsNext DEF Firewalld
            <4>3. StateOf(w) # "off"
                BY <3>2 DEF StateOf, Reading
            <4> QED  BY <4>2, <4>3
        <3> QED  BY <3>1, <3>2
    <2>4. Stream!Arrive(s)
        BY <1>1, <1>2, <2>2, <2>3 DEF Stream!Arrive
    <2> QED  BY <2>1, <2>4 DEF Stream!Next
<1>5. CASE i \notin Iface
    <2>1. Firewalld(Range(emitted))' = Firewalld(Range(emitted))
        BY <1>3, <1>5, DispatchMoves DEF Firewalld
    <2>2. ASSUME NEW w \in Watcher PROVE Owed(w)' = Owed(w)
        <3> DEFINE A == Hand(w) \cup Range(raw[w]) \cup deferred[w]
        <3>1. A' = A \/ A' = A \cup {s}
            BY DispatchMoves
        <3>2. Firewalld(Range(out[w]) \cup A') = Firewalld(Range(out[w]) \cup A)
            BY <1>3, <1>5, <3>1 DEF Firewalld
        <3> QED  BY <1>1, <3>2, OwedIs, OwedIsNext
    <2> QED  BY <1>1, <1>2, <2>1, <2>2 DEF Stream!vars
<1> QED  BY <1>4, <1>5

LEMMA InitSimulates == Init => Stream!Init
<1> SUFFICES ASSUME Init PROVE Stream!Init
    OBVIOUS
<1>1. Firewalld(Range(emitted)) = {}
    BY RangeEmpty DEF Init, Firewalld
<1>2. \A w \in Watcher : StateOf(w) = "off" /\ Owed(w) = {}
    BY RangeEmpty, OwedIs DEF Init, StateOf, Reading, Firewalld
<1> QED  BY <1>1, <1>2 DEF Init, Stream!Init

LEMMA NextSimulates == StreamInv /\ [Next]_vars => [Stream!Next]_(Stream!vars)
<1> SUFFICES ASSUME StreamInv, [Next]_vars PROVE Stream!Next \/ UNCHANGED Stream!vars
    OBVIOUS
<1>1. CASE Hangup
    BY <1>1, HangupSimulates
<1>2. ASSUME NEW i \in Iface \cup Foreign, Dispatch(i)
      PROVE  Stream!Next \/ UNCHANGED Stream!vars
    BY <1>2, DispatchSimulates
<1>3. ASSUME NEW w \in Watcher, Step(w) PROVE Stream!Next \/ UNCHANGED Stream!vars
    BY <1>3, StepSimulates
<1>4. CASE UNCHANGED vars
    <2>1. \A v \in Watcher : SameFor(v)
        BY <1>4 DEF vars, SameFor
    <2> QED  BY <1>4, <2>1, SameUnseen, AllUnseen DEF vars
<1> QED  BY <1>1, <1>2, <1>3, <1>4 DEF Next

\* The goroutine of WatchSignals, its channels and the deferred sends lose, repeat and
\* invent no signal while the subscription lasts, for any number of watchers, any
\* channel capacities and however slow the consumers are.
THEOREM Implements == Spec => ImplementsStream
<1>1. Spec => []StreamInv
    BY InitStream, NextStream, PTL DEF Spec
<1> QED  BY <1>1, InitSimulates, NextSimulates, PTL DEF Spec, ImplementsStream, Stream!Spec
-------------------------------------------------------------------------------
(***************************************************************************)
(* What follows from the promise of EventStream alone: a signal is owed    *)
(* only after it has arrived, and no longer once it has been yielded.      *)
(***************************************************************************)
Arrived == Firewalld(Range(emitted))

YieldedOnce ==
    \A w \in Watcher :
        /\ Distinct(seen[w])
        /\ Range(seen[w]) \cup Owed(w) \subseteq Arrived
        /\ Range(seen[w]) \cap Owed(w) = {}

LEMMA StreamYieldsOnce ==
    ASSUME TypeOK, YieldedOnce, [Stream!Next]_(Stream!vars)
    PROVE  YieldedOnce'
<1> DEFINE pending == [w \in Watcher |-> Owed(w)]
<1>1. \A w \in Watcher : pending[w] = Owed(w)
    OBVIOUS
<1>2. \A w \in Watcher : (pending[w])' = Owed(w)'
    OBVIOUS
<1>3. \A w \in Watcher : seen[w] \in Seq(Signal)
    BY DEF TypeOK
<1>4. CASE UNCHANGED Stream!vars
    <2>1. UNCHANGED <<Arrived, pending, seen>>
        BY <1>4 DEF Stream!vars, Arrived
    <2> HIDE DEF pending
    <2> QED  BY <1>1, <1>2, <2>1 DEF YieldedOnce
<1>5. ASSUME NEW w \in Watcher, Stream!Subscribe(w) PROVE YieldedOnce'
    <2>1. UNCHANGED <<Arrived, pending, seen>>
        BY <1>5 DEF Stream!Subscribe, Arrived
    <2> HIDE DEF pending
    <2> QED  BY <1>1, <1>2, <2>1 DEF YieldedOnce
<1>6. ASSUME NEW v \in Watcher, Stream!Yield(v) PROVE YieldedOnce'
    <2>1. PICK e \in pending[v] :
            /\ pending' = [pending EXCEPT ![v] = @ \ {e}]
            /\ seen' = [seen EXCEPT ![v] = Append(@, e)]
        BY <1>6 DEF Stream!Yield
    <2>2. UNCHANGED Arrived
        BY <1>6 DEF Stream!Yield, Arrived
    <2>3. pending \in [Watcher -> {Owed(w) : w \in Watcher}]
        OBVIOUS
    <2> HIDE DEF pending
    <2>4. e \in Owed(v) /\ e \notin Range(seen[v]) /\ e \in Arrived
        BY <1>1, <2>1 DEF YieldedOnce
    <2>5. e \in Signal
        <3>1. emitted \in Seq(Signal)
            BY DEF TypeOK
        <3>2. Range(emitted) \subseteq Signal
            BY <3>1 DEF Range
        <3> QED  BY <2>4, <3>2 DEF Arrived, Firewalld
    <2>6. seen'[v] = Append(seen[v], e) /\ \A w \in Watcher \ {v} : seen'[w] = seen[w]
        BY <2>1 DEF TypeOK
    <2>7. /\ Range(seen'[v]) = Range(seen[v]) \cup {e}
          /\ Distinct(seen'[v])
        BY <1>3, <2>4, <2>5, <2>6, RangeAppend DEF YieldedOnce
    <2>8. Owed(v)' = Owed(v) \ {e} /\ \A w \in Watcher \ {v} : Owed(w)' = Owed(w)
        BY <1>1, <1>2, <2>1, <2>3
    <2>9. ASSUME NEW w \in Watcher
          PROVE  /\ Distinct(seen'[w])
                 /\ Range(seen'[w]) \cup Owed(w)' \subseteq Arrived'
                 /\ Range(seen'[w]) \cap Owed(w)' = {}
        <3>1. CASE w = v
            BY <2>2, <2>4, <2>7, <2>8, <3>1 DEF YieldedOnce
        <3>2. CASE w # v
            BY <2>2, <2>6, <2>8, <3>2 DEF YieldedOnce
        <3> QED  BY <3>1, <3>2
    <2> QED  BY <2>9 DEF YieldedOnce
<1>7. ASSUME NEW e, Stream!Arrive(e) PROVE YieldedOnce'
    <2>1. /\ e \notin Arrived /\ Arrived' = Arrived \cup {e} /\ seen' = seen
          /\ \A w \in Watcher : (pending[w])' \in {pending[w], pending[w] \cup {e}}
        BY <1>7 DEF Stream!Arrive, Arrived
    <2> HIDE DEF pending
    <2> QED  BY <1>1, <1>2, <2>1 DEF YieldedOnce
<1>8. CASE Stream!End
    <2>1. /\ Arrived' = Arrived /\ seen' = seen
          /\ \A w \in Watcher : (pending[w])' \subseteq pending[w]
        BY <1>8 DEF Stream!End, Arrived
    <2> HIDE DEF pending
    <2> QED  BY <1>1, <1>2, <2>1 DEF YieldedOnce
<1> QED  BY <1>4, <1>5, <1>6, <1>7, <1>8 DEF Stream!Next

LEMMA StreamYieldsNothingYet ==
    ASSUME Stream!Init
    PROVE  YieldedOnce
<1>1. Arrived = {} /\ \A w \in Watcher : seen[w] = <<>>
    BY DEF Stream!Init, Arrived
<1>2. \A w \in Watcher : Owed(w) = {}
    <2>1. [w \in Watcher |-> Owed(w)] = [w \in Watcher |-> {}]
        BY DEF Stream!Init
    <2> QED  BY <2>1
<1> QED  BY <1>1, <1>2, RangeEmpty DEF YieldedOnce, Distinct

\* Every consumer receives each of firewalld's signals at most once and none of anybody
\* else's, for any number of watchers and any capacities, deferred sends included.
THEOREM SeenOnce == Spec => []EachSignalOnce
<1>1. Spec => []YieldedOnce
    BY Implements, TypeCorrect, StreamYieldsNothingYet, StreamYieldsOnce, PTL
       DEF ImplementsStream, Stream!Spec
<1>2. YieldedOnce => EachSignalOnce
    BY DEF YieldedOnce, EachSignalOnce, Distinct, Arrived
<1> QED  BY <1>1, <1>2, PTL
===============================================================================
