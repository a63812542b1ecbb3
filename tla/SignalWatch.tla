------------------------------ MODULE SignalWatch ------------------------------
(***************************************************************************)
(* Signal subscriptions (signals.go): WatchSignals, its goroutine and its  *)
(* teardown, for any number of watchers that share one Conn.               *)
(*                                                                         *)
(* A watcher adds one match rule per firewalld interface, registers a      *)
(* buffered channel (raw) with the bus library and starts a goroutine that *)
(* forwards firewalld's signals to the channel it returned (out).  When    *)
(* the context ends or raw is closed the goroutine unregisters raw,        *)
(* removes the rules again and closes out, in that order.                  *)
(*                                                                         *)
(* The bus is external.  It counts equal match rules, one for each AddMatch*)
(* not undone by a RemoveMatch; the bus library never blocks on a full     *)
(* channel but starts a goroutine that sends the signal when there is room *)
(* (deferred below), in no particular order.  A signal's emission and its  *)
(* dispatch by the connection's reader are one step.                       *)
(***************************************************************************)
EXTENDS Naturals, FiniteSets, Sequences, Functions

CONSTANTS
    Watcher,     \* calls of WatchSignals
    Iface,       \* signalInterfaces
    Foreign,     \* other interfaces, for which the program has rules of its own
    RawCap,      \* capacity of raw (64)
    OutCap,      \* capacity of out (64)
    MaxSignals,  \* signals emitted in a behaviour: a bound
    Fault        \* "add", "remove": the bus may refuse it; "hangup": it may go away

ASSUME WatchAssumption ==
    /\ Iface \cap Foreign = {}
    /\ IsFiniteSet(Watcher) /\ IsFiniteSet(Iface)
    /\ RawCap \in Nat \ {0} /\ OutCap \in Nat \ {0} /\ MaxSignals \in Nat
    /\ Fault \subseteq {"add", "remove", "hangup"}

VARIABLES
    stage,       \* where WatchSignals and its goroutine stand
    todo,        \* interfaces the loop over signalInterfaces has still to visit
    cancelled,   \* whether the watcher's ctx is done
    ev,          \* the signal the goroutine is about to forward
    raw, out,    \* the two channels
    hungUp,      \* whether the bus library has closed raw
    registered,  \* the bus library: whether raw is registered
    deferred,    \* the bus library: signals waiting for room in raw
    open,        \* whether the connection is up
    rules,       \* the bus: match rules of this connection, counted
    emitted,     \* history: the signals there have been
    seen,        \* history: what the consumer has received from out
    overflowed   \* history: whether raw was ever full when a signal came

goroutineVars == <<stage, todo, ev>>
libraryVars == <<hungUp, registered, deferred, open>>
historyVars == <<seen, overflowed>>
vars == <<stage, todo, cancelled, ev, raw, out, hungUp, registered, deferred, open, rules,
          emitted, seen, overflowed>>

Signal == [n : 1 .. MaxSignals, iface : Iface \cup Foreign]
NoSignal == [n |-> 0, iface |-> ""]
Stage == {"off", "adding", "running", "sending", "unregister", "removing", "closed", "failed"}

(***************************************************************************)
(* WatchSignals.  AddMatchSignal does not look at ctx.                     *)
(***************************************************************************)
WatchSignals(w) ==
    /\ stage[w] = "off"
    /\ stage' = [stage EXCEPT ![w] = "adding"]
    /\ todo' = [todo EXCEPT ![w] = Iface]
    /\ UNCHANGED <<cancelled, ev, raw, out, libraryVars, rules, emitted, historyVars>>

AddMatch(w) ==
    /\ stage[w] = "adding" /\ open
    /\ \E i \in todo[w] :
        /\ rules' = [rules EXCEPT ![i] = @ + 1]
        /\ todo' = [todo EXCEPT ![w] = @ \ {i}]
    /\ UNCHANGED <<stage, cancelled, ev, raw, out, libraryVars, emitted, historyVars>>

\* Variant, used by no specification: cleans up rules it has not added.
AddMatchFailsRemoving(w) ==
    /\ stage[w] = "adding" /\ todo[w] # {}
    /\ open => "add" \in Fault
    /\ stage' = [stage EXCEPT ![w] = "removing"]
    /\ todo' = [todo EXCEPT ![w] = Iface]
    /\ UNCHANGED <<cancelled, ev, raw, out, libraryVars, rules, emitted, historyVars>>

\* WatchSignals returns the error; the rules added so far stay.
AddMatchFails(w) ==
    /\ stage[w] = "adding" /\ todo[w] # {}
    /\ open => "add" \in Fault
    /\ stage' = [stage EXCEPT ![w] = "failed"]
    /\ UNCHANGED <<todo, cancelled, ev, raw, out, libraryVars, rules, emitted, historyVars>>

\* c.conn.Signal(raw), which a closed connection ignores, and the go statement.
Register(w) ==
    /\ stage[w] = "adding" /\ todo[w] = {}
    /\ stage' = [stage EXCEPT ![w] = "running"]
    /\ registered' = [registered EXCEPT ![w] = open]
    /\ UNCHANGED <<todo, cancelled, ev, raw, out, hungUp, deferred, open, rules, emitted,
                   historyVars>>

(***************************************************************************)
(* The goroutine.                                                          *)
(***************************************************************************)
\* Variant, used by no specification: waits for a second signal, and filters nothing.
ReceiveInPairs(w) ==
    /\ stage[w] = "running" /\ Len(raw[w]) > 1
    /\ raw' = [raw EXCEPT ![w] = Tail(@)]
    /\ stage' = [stage EXCEPT ![w] = "sending"]
    /\ ev' = [ev EXCEPT ![w] = Head(raw[w])]
    /\ UNCHANGED <<todo, cancelled, out, libraryVars, rules, emitted, historyVars>>

\* Variant, used by no specification: ignores nothing.
ReceiveUnfiltered(w) ==
    /\ stage[w] = "running" /\ raw[w] # <<>>
    /\ raw' = [raw EXCEPT ![w] = Tail(@)]
    /\ stage' = [stage EXCEPT ![w] = "sending"]
    /\ ev' = [ev EXCEPT ![w] = Head(raw[w])]
    /\ UNCHANGED <<todo, cancelled, out, libraryVars, rules, emitted, historyVars>>

\* Signals outside firewalld's namespace are ignored.
Receive(w) ==
    /\ stage[w] = "running" /\ raw[w] # <<>>
    /\ raw' = [raw EXCEPT ![w] = Tail(@)]
    /\ IF Head(raw[w]).iface \in Iface
       THEN /\ stage' = [stage EXCEPT ![w] = "sending"]
            /\ ev' = [ev EXCEPT ![w] = Head(raw[w])]
       ELSE UNCHANGED <<stage, ev>>
    /\ UNCHANGED <<todo, cancelled, out, libraryVars, rules, emitted, historyVars>>

\* Variant, used by no specification: drops the signal when out is full.
SendOrDrop(w) ==
    /\ stage[w] = "sending"
    /\ out' = IF Len(out[w]) < OutCap THEN [out EXCEPT ![w] = Append(@, ev[w])] ELSE out
    /\ ev' = [ev EXCEPT ![w] = NoSignal]
    /\ stage' = [stage EXCEPT ![w] = "running"]
    /\ UNCHANGED <<todo, cancelled, raw, libraryVars, rules, emitted, historyVars>>

\* Variant, used by no specification: ignores the capacity of out.
SendUnbounded(w) ==
    /\ stage[w] = "sending"
    /\ out' = [out EXCEPT ![w] = Append(@, ev[w])]
    /\ ev' = [ev EXCEPT ![w] = NoSignal]
    /\ stage' = [stage EXCEPT ![w] = "running"]
    /\ UNCHANGED <<todo, cancelled, raw, libraryVars, rules, emitted, historyVars>>

\* Variant, used by no specification: stacks instead of queueing.
SendNewestFirst(w) ==
    /\ stage[w] = "sending" /\ Len(out[w]) < OutCap
    /\ out' = [out EXCEPT ![w] = <<ev[w]>> \o @]
    /\ ev' = [ev EXCEPT ![w] = NoSignal]
    /\ stage' = [stage EXCEPT ![w] = "running"]
    /\ UNCHANGED <<todo, cancelled, raw, libraryVars, rules, emitted, historyVars>>

Send(w) ==
    /\ stage[w] = "sending" /\ Len(out[w]) < OutCap
    /\ out' = [out EXCEPT ![w] = Append(@, ev[w])]
    /\ ev' = [ev EXCEPT ![w] = NoSignal]
    /\ stage' = [stage EXCEPT ![w] = "running"]
    /\ UNCHANGED <<todo, cancelled, raw, libraryVars, rules, emitted, historyVars>>

\* Variant, used by no specification: looks at ctx only between signals.
StopOnlyIdle(w) ==
    /\ stage[w] = "running" /\ cancelled[w]
    /\ stage' = [stage EXCEPT ![w] = "unregister"]
    /\ ev' = [ev EXCEPT ![w] = NoSignal]
    /\ UNCHANGED <<todo, cancelled, raw, out, libraryVars, rules, emitted, historyVars>>

\* Either select sees ctx.Done.
Stop(w) ==
    /\ stage[w] \in {"running", "sending"} /\ cancelled[w]
    /\ stage' = [stage EXCEPT ![w] = "unregister"]
    /\ ev' = [ev EXCEPT ![w] = NoSignal]
    /\ UNCHANGED <<todo, cancelled, raw, out, libraryVars, rules, emitted, historyVars>>

\* Variant, used by no specification: ignores ok.
RawClosedUnnoticed(w) ==
    /\ stage[w] = "running" /\ hungUp[w] /\ raw[w] = <<>> /\ cancelled[w]
    /\ stage' = [stage EXCEPT ![w] = "unregister"]
    /\ UNCHANGED <<todo, cancelled, ev, raw, out, libraryVars, rules, emitted, historyVars>>

\* raw is closed and drained.
RawClosed(w) ==
    /\ stage[w] = "running" /\ hungUp[w] /\ raw[w] = <<>>
    /\ stage' = [stage EXCEPT ![w] = "unregister"]
    /\ UNCHANGED <<todo, cancelled, ev, raw, out, libraryVars, rules, emitted, historyVars>>

\* removeSignalMatches: RemoveSignal makes the deferred sends give up; nobody
\* reads raw any more.
Unregister(w) ==
    /\ stage[w] = "unregister"
    /\ stage' = [stage EXCEPT ![w] = "removing"]
    /\ todo' = [todo EXCEPT ![w] = Iface]
    /\ registered' = [registered EXCEPT ![w] = FALSE]
    /\ deferred' = [deferred EXCEPT ![w] = {}]
    /\ raw' = [raw EXCEPT ![w] = <<>>]
    /\ UNCHANGED <<cancelled, ev, out, hungUp, open, rules, emitted, historyVars>>

\* An error of RemoveMatchSignal is ignored.  The call has no deadline of its own.
RemoveMatch(w) ==
    /\ stage[w] = "removing"
    /\ \E i \in todo[w] :
        /\ todo' = [todo EXCEPT ![w] = @ \ {i}]
        /\ \/ open /\ rules[i] > 0 /\ rules' = [rules EXCEPT ![i] = @ - 1]
           \/ (open => rules[i] = 0 \/ "remove" \in Fault) /\ UNCHANGED rules
    /\ UNCHANGED <<stage, cancelled, ev, raw, out, libraryVars, emitted, historyVars>>

CloseOut(w) ==
    /\ stage[w] = "removing" /\ todo[w] = {}
    /\ stage' = [stage EXCEPT ![w] = "closed"]
    /\ UNCHANGED <<todo, cancelled, ev, raw, out, libraryVars, rules, emitted, historyVars>>

(***************************************************************************)
(* The caller, the bus library and the bus.                                *)
(***************************************************************************)
Cancel(w) ==
    /\ ~cancelled[w]
    /\ cancelled' = [cancelled EXCEPT ![w] = TRUE]
    /\ UNCHANGED <<goroutineVars, raw, out, libraryVars, rules, emitted, historyVars>>

Consume(w) ==
    /\ out[w] # <<>>
    /\ out' = [out EXCEPT ![w] = Tail(@)]
    /\ seen' = [seen EXCEPT ![w] = Append(@, Head(out[w]))]
    /\ UNCHANGED <<goroutineVars, cancelled, raw, libraryVars, rules, emitted, overflowed>>

HasRoom(w) == Len(raw[w]) < RawCap

\* The reader hands a signal to every registered channel, or to a goroutine.
Dispatch(i) ==
    /\ Len(emitted) < MaxSignals /\ open
    /\ i \in Iface => rules[i] > 0
    /\ LET s == [n |-> Len(emitted) + 1, iface |-> i] IN
        /\ emitted' = Append(emitted, s)
        /\ raw' = [w \in Watcher |->
                     IF registered[w] /\ HasRoom(w) THEN Append(raw[w], s) ELSE raw[w]]
        /\ deferred' = [w \in Watcher |->
                          IF registered[w] /\ ~HasRoom(w) THEN deferred[w] \cup {s} ELSE deferred[w]]
        /\ overflowed' = [w \in Watcher |-> overflowed[w] \/ (registered[w] /\ ~HasRoom(w))]
    /\ UNCHANGED <<goroutineVars, cancelled, out, hungUp, registered, open, rules, seen>>

DeferredSend(w) ==
    /\ HasRoom(w)
    /\ \E s \in deferred[w] :
        /\ raw' = [raw EXCEPT ![w] = Append(@, s)]
        /\ deferred' = [deferred EXCEPT ![w] = @ \ {s}]
    /\ UNCHANGED <<goroutineVars, cancelled, out, hungUp, registered, open, rules, emitted,
                   historyVars>>

\* The connection ends, by Close or by the bus: the library closes the registered
\* channels after the deferred sends gave up, the bus forgets the rules.
Hangup ==
    /\ "hangup" \in Fault /\ open
    /\ open' = FALSE
    /\ hungUp' = [w \in Watcher |-> hungUp[w] \/ registered[w]]
    /\ registered' = [w \in Watcher |-> FALSE]
    /\ deferred' = [w \in Watcher |-> {}]
    /\ rules' = [i \in Iface |-> 0]
    /\ UNCHANGED <<goroutineVars, cancelled, raw, out, emitted, historyVars>>

(***************************************************************************)
(* The specification.                                                      *)
(***************************************************************************)
Init ==
    /\ stage = [w \in Watcher |-> "off"]
    /\ todo = [w \in Watcher |-> {}]
    /\ cancelled = [w \in Watcher |-> FALSE]
    /\ ev = [w \in Watcher |-> NoSignal]
    /\ raw = [w \in Watcher |-> <<>>] /\ out = [w \in Watcher |-> <<>>]
    /\ hungUp = [w \in Watcher |-> FALSE]
    /\ registered = [w \in Watcher |-> FALSE]
    /\ deferred = [w \in Watcher |-> {}]
    /\ open = TRUE
    /\ rules = [i \in Iface |-> 0]
    /\ emitted = <<>>
    /\ seen = [w \in Watcher |-> <<>>] /\ overflowed = [w \in Watcher |-> FALSE]

Step(w) ==
    \/ WatchSignals(w) \/ AddMatch(w) \/ AddMatchFails(w) \/ Register(w)
    \/ Receive(w) \/ Send(w) \/ Stop(w) \/ RawClosed(w)
    \/ Unregister(w) \/ RemoveMatch(w) \/ CloseOut(w)
    \/ Cancel(w) \/ Consume(w) \/ DeferredSend(w)

Next == Hangup \/ (\E i \in Iface \cup Foreign : Dispatch(i)) \/ (\E w \in Watcher : Step(w))

\* The goroutine runs and its selects are fair, the runtime serves a channel's waiting
\* senders in turn, and the bus answers a call or goes away.  Only the properties that
\* say so ask anything of the consumer.
Fairness ==
    \A w \in Watcher :
        /\ WF_vars(AddMatch(w)) /\ WF_vars(AddMatchFails(w)) /\ WF_vars(Register(w))
        /\ WF_vars(Receive(w)) /\ WF_vars(Send(w)) /\ WF_vars(Stop(w)) /\ WF_vars(RawClosed(w))
        /\ WF_vars(Unregister(w)) /\ WF_vars(RemoveMatch(w)) /\ WF_vars(CloseOut(w))
        /\ SF_vars(DeferredSend(w))

Spec == Init /\ [][Next]_vars
FairSpec == Spec /\ Fairness

(***************************************************************************)
(* Properties.                                                             *)
(***************************************************************************)
\* The variables have their types, the goroutine has a signal in hand when it is about
\* to send one, and neither channel holds more than its capacity (WatchSignals).
TypeOK ==
    /\ stage \in [Watcher -> Stage]
    /\ todo \in [Watcher -> SUBSET Iface]
    /\ cancelled \in [Watcher -> BOOLEAN]
    /\ ev \in [Watcher -> Signal \cup {NoSignal}]
    /\ \A w \in Watcher : stage[w] = "sending" => ev[w] \in Signal
    /\ raw \in [Watcher -> Seq(Signal)] /\ out \in [Watcher -> Seq(Signal)]
    /\ hungUp \in [Watcher -> BOOLEAN]
    /\ registered \in [Watcher -> BOOLEAN]
    /\ deferred \in [Watcher -> SUBSET Signal]
    /\ open \in BOOLEAN
    /\ rules \in [Iface -> Nat]
    /\ emitted \in Seq(Signal)
    /\ seen \in [Watcher -> Seq(Signal)]
    /\ overflowed \in [Watcher -> BOOLEAN]
    /\ \A w \in Watcher : Len(raw[w]) <= RawCap /\ Len(out[w]) <= OutCap

\* The signal the goroutine has in hand, as a sequence.
InHand(w) == IF stage[w] = "sending" THEN <<ev[w]>> ELSE <<>>

\* What the consumer has received, then all that is on its way, nearest first.
Pipeline(w) == seen[w] \o out[w] \o InHand(w) \o raw[w]

\* Signals reach the consumer in the order the connection received them as long as raw
\* (64) has never been full: the order is lost in the bus library's deferred sends, not
\* in the goroutine or its two channels.
InOrderUntilOverflow ==
    \A w \in Watcher : ~overflowed[w] =>
        \A j, k \in DOMAIN Pipeline(w) : j < k => Pipeline(w)[j].n < Pipeline(w)[k].n

\* A registered watcher has a match rule of its own on every firewalld interface,
\* whatever the watchers it shares the connection with set up, fail to set up or tear
\* down meanwhile (WatchSignals and removeSignalMatches undo exactly what they did).
RulesCoverWatchers ==
    \A i \in Iface :
        open => rules[i] >= Cardinality({w \in Watcher : registered[w]})

\* "The subscription and channel are torn down when ctx is cancelled": once every
\* watcher is over and its context done, no rule is left on the bus.
TornDown ==
    (\A w \in Watcher : stage[w] \in {"off", "closed", "failed"} /\ cancelled[w]) =>
        \A i \in Iface : rules[i] = 0

\* Cancelling ctx ends the watch: out is closed even if nobody reads it (the second
\* select of the goroutine watches ctx too).
WatchEnds ==
    \A w \in Watcher :
        cancelled[w] /\ stage[w] # "off" ~> stage[w] \in {"closed", "failed"}

\* A consumer that keeps draining out.
Drains(w) == []<>(out[w] = <<>>)

\* When the connection goes away the consumer is told so by the end of the channel
\* ("if !ok return"), without its ctx being cancelled, provided it drains the channel.
HangupEnds ==
    \A w \in Watcher : Drains(w) => (hungUp[w] ~> stage[w] = "closed")

(***************************************************************************)
(* What WatchSignals promises: the goroutine, its channels and the bus     *)
(* library's deferred sends together are one lossless buffer.              *)
(***************************************************************************)
Firewalld(S) == {s \in S : s.iface \in Iface}

Upstream(w) ==
    IF stage[w] \in {"running", "sending"}
    THEN Range(InHand(w)) \cup Range(raw[w]) \cup deferred[w]
    ELSE {}

Owed(w) == Firewalld(Range(out[w]) \cup Upstream(w))

StateOf(w) ==
    IF stage[w] \in {"off", "adding", "failed"} THEN "off"
    ELSE IF registered[w] /\ ~cancelled[w] THEN "on" ELSE "ending"

Stream == INSTANCE EventStream WITH
    Event <- [n : 1 .. MaxSignals, iface : Iface],
    state <- [w \in Watcher |-> StateOf(w)],
    arrived <- Firewalld(Range(emitted)),
    pending <- [w \in Watcher |-> Owed(w)]

\* No signal is lost, duplicated, invented or passed on from elsewhere while the
\* subscription lasts, however slow the consumer ("a slow consumer that lets it fill
\* will drop no earlier events").
ImplementsStream == Stream!Spec

\* A consumer never receives a signal twice, nor one that firewalld did not emit, whichever
\* way the signal went: by raw, or by a deferred send that came when there was room again,
\* while other watchers come, go and share the connection.
EachSignalOnce ==
    \A w \in Watcher :
        /\ Range(seen[w]) \subseteq Firewalld(Range(emitted))
        /\ \A j, k \in DOMAIN seen[w] : seen[w][j] = seen[w][k] => j = k

\* And none is held back for ever from a consumer that drains the channel.
OwedArrives ==
    \A w \in Watcher, n \in 1 .. MaxSignals : Drains(w) =>
        ((\E s \in Owed(w) : s.n = n) ~>
            ((\E s \in Range(seen[w]) : s.n = n) \/ cancelled[w] \/ ~open))
===============================================================================
