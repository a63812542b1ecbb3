------------------------------ MODULE ReloadWatch ------------------------------
(***************************************************************************)
(* WatchReloaded (signals.go): a second goroutine that reads the channel   *)
(* of a WatchSignals of its own and passes on an empty struct for every    *)
(* Reloaded signal, through a channel of four slots.                       *)
(*                                                                         *)
(* Each subscription of SignalWatch is either read by its caller or by     *)
(* such a relay.  A relay whose consumer does not read stops, then out     *)
(* fills, then raw: everything waits until the consumer reads or ctx ends. *)
(***************************************************************************)
EXTENDS SignalWatch

CONSTANTS
    ReloadCap,  \* capacity of the channel WatchReloaded returns (4)
    Reloads     \* the numbers of the firewalld signals that are Reloaded

ASSUME ReloadAssumption == ReloadCap \in Nat \ {0} /\ Reloads \subseteq 1 .. MaxSignals

VARIABLES
    mode,     \* which method was called: "direct" (WatchSignals) or "reloaded"
    relay,    \* where WatchReloaded's goroutine stands
    reloads,  \* the structs in the channel that WatchReloaded returned
    told      \* history: how many of them its consumer has received

relayVars == <<relay, reloads, told>>
reloadVars == <<vars, mode, relayVars>>

Reloaded(s) == s.iface \in Iface /\ s.n \in Reloads

(***************************************************************************)
(* WatchReloaded's goroutine.                                              *)
(***************************************************************************)
\* WatchSignals has returned without error, and WatchReloaded's go statement follows.
StartRelay(w) ==
    /\ mode[w] = "reloaded" /\ relay[w] = "off"
    /\ stage[w] \notin {"off", "adding", "failed"}
    /\ relay' = [relay EXCEPT ![w] = "ranging"]
    /\ UNCHANGED <<vars, mode, reloads, told>>

\* Variant, used by no specification: takes every signal for a Reloaded.
RelayAll(w) ==
    /\ relay[w] = "ranging" /\ Consume(w)
    /\ relay' = [relay EXCEPT ![w] = "sending"]
    /\ UNCHANGED <<mode, reloads, told>>

\* for sig := range signals.
RelayReceive(w) ==
    /\ relay[w] = "ranging" /\ Consume(w)
    /\ relay' = [relay EXCEPT ![w] = IF Reloaded(Head(out[w])) THEN "sending" ELSE "ranging"]
    /\ UNCHANGED <<mode, reloads, told>>

\* Variant, used by no specification: ignores the capacity.
RelaySendUnbounded(w) ==
    /\ relay[w] = "sending"
    /\ relay' = [relay EXCEPT ![w] = "ranging"]
    /\ reloads' = [reloads EXCEPT ![w] = @ + 1]
    /\ UNCHANGED <<vars, mode, told>>

RelaySend(w) ==
    /\ relay[w] = "sending" /\ reloads[w] < ReloadCap
    /\ relay' = [relay EXCEPT ![w] = "ranging"]
    /\ reloads' = [reloads EXCEPT ![w] = @ + 1]
    /\ UNCHANGED <<vars, mode, told>>

\* Variant, used by no specification: looks at ctx between signals only.
RelayStopIdle(w) ==
    /\ relay[w] = "ranging" /\ cancelled[w]
    /\ relay' = [relay EXCEPT ![w] = "closed"]
    /\ UNCHANGED <<vars, mode, reloads, told>>

\* The select sees ctx.Done.
RelayStop(w) ==
    /\ relay[w] = "sending" /\ cancelled[w]
    /\ relay' = [relay EXCEPT ![w] = "closed"]
    /\ UNCHANGED <<vars, mode, reloads, told>>

\* Variant, used by no specification: only the end of ctx ends the loop.
RelayEndOnCancel(w) ==
    /\ relay[w] = "ranging" /\ out[w] = <<>> /\ stage[w] = "closed" /\ cancelled[w]
    /\ relay' = [relay EXCEPT ![w] = "closed"]
    /\ UNCHANGED <<vars, mode, reloads, told>>

\* signals is closed and drained.
RelayEnd(w) ==
    /\ relay[w] = "ranging" /\ out[w] = <<>> /\ stage[w] = "closed"
    /\ relay' = [relay EXCEPT ![w] = "closed"]
    /\ UNCHANGED <<vars, mode, reloads, told>>

\* The consumer reads.
TakeReload(w) ==
    /\ reloads[w] > 0
    /\ reloads' = [reloads EXCEPT ![w] = @ - 1]
    /\ told' = [told EXCEPT ![w] = @ + 1]
    /\ UNCHANGED <<vars, mode, relay>>

(***************************************************************************)
(* The composition.                                                        *)
(***************************************************************************)
\* Only the relay reads (seen) the channel of the subscription it was started for.
Watch(w) ==
    /\ Step(w) /\ (mode[w] = "reloaded" => seen' = seen)
    /\ UNCHANGED <<mode, relayVars>>

Relay(w) ==
    \/ StartRelay(w) \/ RelayReceive(w) \/ RelaySend(w) \/ RelayStop(w) \/ RelayEnd(w)
    \/ TakeReload(w)

ReloadInit ==
    /\ Init
    /\ mode \in [Watcher -> {"direct", "reloaded"}]
    /\ relay = [w \in Watcher |-> "off"]
    /\ reloads = [w \in Watcher |-> 0] /\ told = [w \in Watcher |-> 0]

ReloadNext ==
    \/ (Hangup \/ \E i \in Iface \cup Foreign : Dispatch(i)) /\ UNCHANGED <<mode, relayVars>>
    \/ \E w \in Watcher : Watch(w) \/ Relay(w)

\* The relay's goroutine runs; its select and its range are fair.
ReloadFairness ==
    \A w \in Watcher :
        /\ WF_reloadVars(StartRelay(w)) /\ WF_reloadVars(RelayReceive(w))
        /\ WF_reloadVars(RelaySend(w)) /\ WF_reloadVars(RelayStop(w))
        /\ WF_reloadVars(RelayEnd(w))

ReloadSpec == ReloadInit /\ [][ReloadNext]_reloadVars
ReloadFairSpec == ReloadSpec /\ Fairness /\ ReloadFairness

(***************************************************************************)
(* Properties.                                                             *)
(***************************************************************************)
\* WatchReloaded's own variables have their types; its channel keeps to its capacity.
RelayTypeOK ==
    /\ mode \in [Watcher -> {"direct", "reloaded"}]
    /\ relay \in [Watcher -> {"off", "ranging", "sending", "closed"}]
    /\ reloads \in [Watcher -> 0 .. ReloadCap]
    /\ told \in [Watcher -> Nat]

Count(w) == Cardinality({k \in DOMAIN seen[w] : Reloaded(seen[w][k])})

\* Every Reloaded signal the subscription yields is passed on once, or about to be, and
\* nothing else is: a consumer that reads late or seldom misses no reload, however many
\* there were meanwhile ("receives an empty struct each time firewalld emits its Reloaded
\* signal").  Only the one in hand when ctx ends may be dropped.
EachReloadOnce ==
    \A w \in Watcher : mode[w] = "reloaded" =>
        LET passed == told[w] + reloads[w] + IF relay[w] = "sending" THEN 1 ELSE 0
        IN  \/ passed = Count(w)
            \/ relay[w] = "closed" /\ cancelled[w] /\ passed + 1 = Count(w)

\* Cancelling ctx ends the relay too, and closes its channel, even if nobody reads it and
\* both goroutines wait for room.
RelayEnds ==
    \A w \in Watcher :
        cancelled[w] /\ relay[w] \in {"ranging", "sending"} ~> relay[w] = "closed"

\* A consumer that keeps draining the channel of reloads.
DrainsReloads(w) == []<>(reloads[w] = 0)

\* To such a consumer every reload gets through both goroutines, and so does the end of
\* the connection, as the end of the channel.
ReloadsArrive ==
    \A w \in Watcher : DrainsReloads(w) =>
        /\ \A n \in Reloads :
            (mode[w] = "reloaded" /\ (\E s \in Owed(w) : s.n = n) ~>
                \/ told[w] = Count(w) /\ \E s \in Range(seen[w]) : s.n = n
                \/ cancelled[w] \/ ~open)
        /\ (mode[w] = "reloaded" /\ hungUp[w] ~> relay[w] = "closed")
===============================================================================
