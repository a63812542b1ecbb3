------------------------------ MODULE EventStream ------------------------------
(***************************************************************************)
(* What WatchSignals promises its callers (signals.go): a subscription     *)
(* yields every firewalld signal that arrives while it lasts, each exactly *)
(* once, and nothing else.  No order is promised.  Once the context is     *)
(* cancelled or the connection lost, what has not been yielded may be      *)
(* dropped.                                                                *)
(***************************************************************************)
EXTENDS Sequences

CONSTANTS
    Watcher,   \* subscriptions
    Event      \* firewalld signals, each of its own identity

VARIABLES
    state,     \* "off", "on" or "ending"
    arrived,   \* signals that have arrived on the connection
    pending,   \* what each subscription still owes its consumer
    seen       \* what each consumer has received

vars == <<state, arrived, pending, seen>>

Init ==
    /\ state = [w \in Watcher |-> "off"]
    /\ arrived = {}
    /\ pending = [w \in Watcher |-> {}]
    /\ seen = [w \in Watcher |-> <<>>]

Subscribe(w) ==
    /\ state[w] = "off"
    /\ \E s \in {"on", "ending"} : state' = [state EXCEPT ![w] = s]
    /\ UNCHANGED <<arrived, pending, seen>>

\* A subscription that is on must take the signal, one that is ending may.
Arrive(e) ==
    /\ e \notin arrived
    /\ arrived' = arrived \cup {e}
    /\ pending' = [w \in Watcher |-> pending'[w]]
    /\ \A w \in Watcher :
        /\ pending'[w] \in {pending[w], pending[w] \cup {e}}
        /\ state[w] = "on" => e \in pending'[w]
        /\ state[w] = "off" => pending'[w] = pending[w]
    /\ UNCHANGED <<state, seen>>

Yield(w) ==
    /\ \E e \in pending[w] :
        /\ pending' = [pending EXCEPT ![w] = @ \ {e}]
        /\ seen' = [seen EXCEPT ![w] = Append(@, e)]
    /\ UNCHANGED <<state, arrived>>

\* The context is cancelled, or the connection is lost for all subscriptions.
End ==
    /\ \E S \in SUBSET {w \in Watcher : state[w] = "on"} :
        state' = [w \in Watcher |-> IF w \in S THEN "ending" ELSE state[w]]
    /\ pending' = [w \in Watcher |-> pending'[w]]
    /\ \A w \in Watcher :
        \/ pending'[w] = pending[w]
        \/ state'[w] = "ending" /\ pending'[w] \subseteq pending[w]
    /\ UNCHANGED <<arrived, seen>>

Next ==
    \/ \E w \in Watcher : Subscribe(w) \/ Yield(w)
    \/ \E e \in Event : Arrive(e)
    \/ End

Spec == Init /\ [][Next]_vars
===============================================================================
