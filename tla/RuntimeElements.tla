---------------------------- MODULE RuntimeElements ----------------------------
(***************************************************************************)
(* Collections of the running firewall that are edited one element at a    *)
(* time: a zone's ports, services, rules and so on, its interfaces and     *)
(* sources (zone.go), an ipset's entries (ipset.go), direct chains, rules  *)
(* and passthroughs (direct.go), the lockdown whitelist (lockdown.go) and  *)
(* the switches of the main object (firewalld.go).                         *)
(*                                                                         *)
(* Every method is one call: encode, send, wait for the reply or the end   *)
(* of ctx, map the error.  The library keeps nothing and retries nothing,  *)
(* so what a caller knows rests on three things: the timeout it asked for  *)
(* is the one sent, an error means what its sentinel says, and a request   *)
(* it gave up on is still executed, in its turn.                           *)
(*                                                                         *)
(* The daemon is external.  It executes the requests of one connection in  *)
(* the order they were sent (D-Bus keeps it), may refuse any, removes an   *)
(* element when its timer ends, and drops what is not permanent when it    *)
(* reloads.  Time is counted in ticks.                                     *)
(***************************************************************************)
EXTENDS Integers, Sequences

CONSTANTS
    Kinds,      \* the collections to edit, of DOMAIN Operations
    Element,    \* ports, interfaces, entries, rules, ...
    Zone,       \* zones (one is enough for all but interfaces and sources)
    Second,     \* ticks per second
    HalfRange,  \* 2^31: an int32 is in -HalfRange .. HalfRange - 1
    Durations,  \* the timeouts callers give, in ticks
    OtherCodes, \* codes of refusals that are not about the element's presence
    Caps,       \* "ResetToDefaults", unless the server is older than 1.0
    Outside,    \* "edit": other clients act; "restart": the daemon may restart
    MaxWire,    \* requests on their way at a time: a bound
    MaxAge,     \* age at which an element no longer grows older: a bound
    Nowhere,    \* the zone of an element that is in none
    Never       \* the time left to an element without timer

VARIABLES
    kind,    \* the collection this behaviour is about
    placed,  \* the daemon: the zone each element is in
    saved,   \* the daemon: the same in the permanent configuration
    due,     \* the daemon: ticks until the element's timer ends, or Never
    wire,    \* requests sent and not executed yet, oldest first
    call,    \* where the caller's method stands, its request and its reply
    asked,   \* history: the timeout the element was added with, 0 for none
    age,     \* history: ticks since the element was added
    said,    \* history: what the last call told the caller
    touched  \* history: elements that a timer or others changed since it was executed

daemonVars == <<placed, saved, due, asked, age>>
vars == <<kind, placed, saved, due, wire, call, asked, age, said, touched>>

(***************************************************************************)
(* Timeouts.                                                               *)
(***************************************************************************)
int32(n) == ((n + HalfRange) % (2 * HalfRange)) - HalfRange

\* Variant, used by no specification: forgets the width.
timeoutSecondsWide(d) == IF d <= 0 THEN 0 ELSE d \div Second

\* Variant, used by no specification: rounds up.
timeoutSecondsCeil(d) == IF d <= 0 THEN 0 ELSE int32((d + Second - 1) \div Second)

\* Variant, used by no specification: off by one.
timeoutSecondsLess(d) == IF d <= 0 THEN 0 ELSE int32((d - 1) \div Second)

timeoutSeconds(d) == IF d <= 0 THEN 0 ELSE int32(d \div Second)

\* The durations that timeoutSeconds can express.
Expressible(d) == Second <= d /\ d < HalfRange * Second

(***************************************************************************)
(* Errors.  A message is its leading white space, the run of code letters  *)
(* that follows, and a code it may quote further on.                       *)
(***************************************************************************)
exceptionMap ==
    [ALREADY_ENABLED |-> "ErrAlreadyEnabled", NOT_ENABLED |-> "ErrNotEnabled",
     ZONE_ALREADY_SET |-> "ErrAlreadySet", ALREADY_SET |-> "ErrAlreadySet",
     INVALID_ZONE |-> "ErrInvalidZone", INVALID_PORT |-> "ErrInvalidPort",
     INVALID_PROTOCOL |-> "ErrInvalidProtocol", INVALID_SERVICE |-> "ErrInvalidService",
     INVALID_ICMPTYPE |-> "ErrInvalidICMPType", INVALID_IPSET |-> "ErrInvalidIPSet",
     INVALID_INTERFACE |-> "ErrInvalidInterface", INVALID_SOURCE |-> "ErrInvalidSource",
     INVALID_POLICY |-> "ErrInvalidPolicy", INVALID_HELPER |-> "ErrInvalidHelper",
     INVALID_COMMAND |-> "ErrInvalidCommand", NAME_CONFLICT |-> "ErrNameConflict",
     ZONE_CONFLICT |-> "ErrZoneConflict", BUILTIN_ZONE |-> "ErrBuiltinZone",
     MISSING_NAME |-> "ErrMissingName", NOT_RUNNING |-> "ErrNotRunning",
     NOT_APPLICABLE |-> "ErrNotApplicable"]

Sentinel(code) == IF code \in DOMAIN exceptionMap THEN exceptionMap[code] ELSE "none"

TooShort == {"", "A"}   \* runs of fewer than two letters
PresenceCodes == {"ALREADY_ENABLED", "NOT_ENABLED", "ZONE_ALREADY_SET", "ALREADY_SET"}

ASSUME Parameters ==
    /\ Second \in Nat \ {0} /\ HalfRange \in Nat \ {0} /\ MaxAge \in Nat
    /\ Durations \subseteq Int
    /\ Never \notin Int /\ Nowhere \notin Zone
    /\ Kinds \subseteq {"element", "binding", "entry", "rule", "whitelist", "switch"}
    /\ OtherCodes \cap (PresenceCodes \cup TooShort) = {}

\* Variant, used by no specification: does not trim the message.
leadingTokenUntrimmed(msg) == IF msg.blank \/ msg.run \in TooShort THEN "" ELSE msg.run

\* Variant, used by no specification: any code in the message will do.
leadingTokenAnywhere(msg) == IF msg.run \in TooShort THEN msg.quoted ELSE msg.run

leadingToken(msg) == IF msg.run \in TooShort THEN "" ELSE msg.run

\* The sentinel errors.Is finds in the method's error; "nil" is success.
mapError(reply) ==
    CASE reply.name = "" -> "nil"
      [] reply.name = "exception" -> Sentinel(leadingToken(reply.msg))
      [] OTHER -> "none"

Message == [blank : BOOLEAN,
            run : DOMAIN exceptionMap \cup OtherCodes \cup TooShort,
            quoted : {"", "ALREADY_ENABLED"}]
NoMessage == [blank |-> FALSE, run |-> "", quoted |-> ""]

\* A reply: the D-Bus error name, the message, the code it is about (history) and,
\* of a query, the placements found.
Reply == [name : {"", "exception", "bus"}, msg : Message,
          cause : DOMAIN exceptionMap \cup OtherCodes \cup {"none"},
          found : SUBSET (Element \X Zone)]

Ok(found) == [name |-> "", msg |-> NoMessage, cause |-> "none", found |-> found]

\* firewalld begins the message with the code; some of its exceptions have none, and
\* the errors of the bus may say anything.
Refusals(codes) ==
    {[name |-> "exception", msg |-> m, cause |-> m.run, found |-> {}] :
        m \in {n \in Message : n.run \in codes}}
Failures ==
    Refusals(OtherCodes)
    \cup {[name |-> "exception", msg |-> m, cause |-> "none", found |-> {}] :
             m \in {n \in Message : n.run \in TooShort}}
    \cup {[name |-> "bus", msg |-> m, cause |-> "none", found |-> {}] :
             m \in {n \in Message : n.run \in {"ALREADY_ENABLED", "NOT_ENABLED"}}}

(***************************************************************************)
(* The operations of each collection.                                      *)
(***************************************************************************)
zoneElement == {"add", "remove", "query", "list"}
zoneBinding == {"add", "remove", "query", "list", "change", "locate"}
ipsetEntry == {"add", "remove", "query", "list", "set"}
directRule == {"add", "remove", "query", "list", "clear"}
whitelist == {"add", "remove", "query", "list"}
switch == {"add", "remove", "query"}

Operations == [element |-> zoneElement, binding |-> zoneBinding, entry |-> ipsetEntry,
               rule |-> directRule, whitelist |-> whitelist, switch |-> switch]

elementOps == UNION {Operations[k] : k \in DOMAIN Operations}

\* Of the whole daemon.
daemonWide == {"reload", "completeReload", "runtimeToPermanent", "resetToDefaults"}

\* t is what is sent as the timeout, asked (history) what the caller meant by it.
Request ==
    [op : elementOps, zone : Zone, elems : SUBSET Element,
     t : -HalfRange .. HalfRange - 1, asked : {0} \cup Durations]
    \cup [op : daemonWide \cup {"none"}, zone : {Nowhere}, elems : {{}}, t : {0}, asked : {0}]

NoRequest == [op |-> "none", zone |-> Nowhere, elems |-> {}, t |-> 0, asked |-> 0]
Idle == [at |-> "idle", req |-> NoRequest, reply |-> Ok({})]
NothingSaid == [in |-> {}, out |-> {}]

(***************************************************************************)
(* The library: one action per method, which sends its request.            *)
(***************************************************************************)
Send(r) ==
    /\ call.at = "idle" /\ Len(wire) < MaxWire
    /\ r.op \in Operations[kind] \cup daemonWide
    /\ wire' = Append(wire, r)
    /\ call' = [at |-> "waiting", req |-> r, reply |-> Ok({})]
    /\ said' = NothingSaid
    /\ UNCHANGED <<kind, daemonVars, touched>>

\* addElement.
Add(z, e, d) ==
    /\ kind = "element"
    /\ Send([op |-> "add", zone |-> z, elems |-> {e}, t |-> timeoutSeconds(d),
             asked |-> IF d > 0 THEN d ELSE 0])

\* AddSource and AddInterface, and the other collections' Add and Enable.
AddUntimed(z, e) ==
    /\ kind # "element"
    /\ Send([op |-> "add", zone |-> z, elems |-> {e}, t |-> 0, asked |-> 0])

\* removeElement, queryElement, ChangeInterface and ChangeSource, ZoneOfInterface and
\* ZoneOfSource.
OnElement(op, z, e) ==
    /\ op \in {"remove", "query", "change", "locate"}
    /\ Send([op |-> op, zone |-> z, elems |-> {e}, t |-> 0, asked |-> 0])

\* getStrings and the typed getters, RemoveRules and RemoveAllPassthroughs.
OnAll(op, z) ==
    /\ op \in {"list", "clear"}
    /\ Send([op |-> op, zone |-> z, elems |-> {}, t |-> 0, asked |-> 0])

SetEntries(z, S) == Send([op |-> "set", zone |-> z, elems |-> S, t |-> 0, asked |-> 0])

\* Reload, CompleteReload, RuntimeToPermanent and ResetToDefaults, which is
\* ErrUnsupported, and no call, where the server has none.
Wide(op) ==
    /\ op \in daemonWide
    /\ op = "resetToDefaults" => "ResetToDefaults" \in Caps
    /\ Send([op |-> op, zone |-> Nowhere, elems |-> {}, t |-> 0, asked |-> 0])

(***************************************************************************)
(* What the caller may conclude from the outcome of its call.              *)
(***************************************************************************)
SaidIn(r, rep) ==
    LET err == mapError(rep) IN
    CASE r.op \in {"add", "change"} /\ err \in {"nil", "ErrAlreadyEnabled", "ErrAlreadySet"} ->
            r.elems \X {r.zone}
      [] r.op = "set" /\ err = "nil" -> r.elems \X {r.zone}
      [] r.op \in {"query", "list", "locate"} /\ err = "nil" -> rep.found
      [] OTHER -> {}

SaidOut(r, rep) ==
    LET err == mapError(rep) IN
    CASE r.op = "remove" /\ err \in {"nil", "ErrNotEnabled"} -> r.elems \X {r.zone}
      [] r.op = "query" /\ err = "nil" -> (r.elems \X {r.zone}) \ rep.found
      [] r.op = "list" /\ err = "nil" -> (Element \X {r.zone}) \ rep.found
      [] r.op = "locate" /\ err = "nil" -> (r.elems \X Zone) \ rep.found
      [] r.op = "set" /\ err = "nil" -> (Element \ r.elems) \X {r.zone}
      [] r.op = "clear" /\ err = "nil" -> Element \X {r.zone}
      [] OTHER -> {}

\* The reply arrives and the method returns.
Return ==
    /\ call.at = "answered"
    /\ call' = Idle
    /\ said' = [in |-> SaidIn(call.req, call.reply), out |-> SaidOut(call.req, call.reply)]
    /\ UNCHANGED <<kind, daemonVars, wire, touched>>

\* ctx ends first.  The request stays where it is, and nothing is concluded.
GiveUp ==
    /\ call.at # "idle"
    /\ call' = Idle
    /\ UNCHANGED <<kind, daemonVars, wire, said, touched>>

(***************************************************************************)
(* The daemon.                                                             *)
(***************************************************************************)
\* Elements that leave or enter otherwise than by a timed Add have no timer.
Become(newPlaced) ==
    /\ placed' = newPlaced
    /\ due' = [e \in Element |-> IF newPlaced[e] = placed[e] THEN due[e] ELSE Never]
    /\ asked' = [e \in Element |-> IF newPlaced[e] = placed[e] THEN asked[e] ELSE 0]
    /\ age' = [e \in Element |-> IF newPlaced[e] = placed[e] THEN age[e] ELSE 0]
    /\ UNCHANGED saved

Found(S, Z) == {p \in S \X Z : placed[p[1]] = p[2]}

\* What the daemon may answer to a request.  Any may be refused for reasons of its own.
RepliesTo(r) ==
    Failures \cup
    CASE r.op = "add" ->
            UNION {IF placed[e] = Nowhere THEN {Ok({})}
                   ELSE IF placed[e] # r.zone THEN Refusals({"ZONE_CONFLICT"})
                   ELSE Refusals({IF kind = "binding" THEN "ZONE_ALREADY_SET"
                                  ELSE "ALREADY_ENABLED"}) : e \in r.elems}
      [] r.op = "remove" ->
            UNION {IF placed[e] = r.zone THEN {Ok({})} ELSE Refusals({"NOT_ENABLED"}) :
                     e \in r.elems}
      [] r.op = "change" ->
            {Ok({})} \cup UNION {IF placed[e] = r.zone THEN Refusals({"ZONE_ALREADY_SET"})
                                ELSE {} : e \in r.elems}
      [] r.op = "query" -> {Ok(Found(r.elems, {r.zone}))}
      [] r.op = "list" -> {Ok(Found(Element, {r.zone}))}
      [] r.op = "locate" -> {Ok(Found(r.elems, Zone))}
      [] OTHER -> {Ok({})}

\* A reload starts from the permanent configuration; it keeps interfaces and sources
\* where it can, a complete one does not.
Restored(kept) ==
    /\ placed' = [e \in Element |-> IF e \in kept THEN placed[e] ELSE saved[e]]
    /\ due' = [e \in Element |-> Never]
    /\ asked' = [e \in Element |-> 0]
    /\ age' = [e \in Element |-> 0]
    /\ UNCHANGED saved

\* What a request does when it is not refused.  set leaves its elements, and
\* clear none.
Effect(r) ==
    \/ /\ r.op = "add"
       /\ placed' = [e \in Element |-> IF e \in r.elems THEN r.zone ELSE placed[e]]
       /\ due' = [e \in Element |-> IF e \notin r.elems THEN due[e]
                                   ELSE IF r.t > 0 THEN r.t * Second ELSE Never]
       /\ asked' = [e \in Element |-> IF e \in r.elems THEN r.asked ELSE asked[e]]
       /\ age' = [e \in Element |-> IF e \in r.elems THEN 0 ELSE age[e]]
       /\ UNCHANGED saved
    \/ /\ r.op = "remove"
       /\ Become([e \in Element |-> IF e \in r.elems THEN Nowhere ELSE placed[e]])
    \/ /\ r.op = "change"
       /\ Become([e \in Element |-> IF e \in r.elems THEN r.zone ELSE placed[e]])
    \/ /\ r.op \in {"set", "clear"}
       /\ Become([e \in Element |-> IF r.op = "set" /\ e \in r.elems THEN r.zone
                                    ELSE IF placed[e] = r.zone THEN Nowhere ELSE placed[e]])
    \/ r.op = "reload" /\ kind = "binding" /\ \E kept \in SUBSET Element : Restored(kept)
    \/ r.op = "reload" /\ kind # "binding" /\ Restored({})
    \/ r.op = "completeReload" /\ Restored({})
    \/ r.op = "runtimeToPermanent" /\ saved' = placed /\ UNCHANGED <<placed, due, asked, age>>
    \/ /\ r.op = "resetToDefaults"
       /\ saved' = [e \in Element |-> Nowhere] /\ UNCHANGED <<placed, due, asked, age>>
    \/ r.op \in {"query", "list", "locate"} /\ UNCHANGED daemonVars

Execute(r, rep) ==
    \/ rep.name = "" /\ Effect(r)
    \/ rep.name # "" /\ UNCHANGED daemonVars

\* The oldest request is executed.  Of those the caller has given up on, nobody gets
\* the reply.
Serve ==
    /\ wire # <<>>
    /\ \E rep \in RepliesTo(Head(wire)) :
        /\ Execute(Head(wire), rep)
        /\ call' = IF call.at = "waiting" /\ Len(wire) = 1
                   THEN [call EXCEPT !.at = "answered", !.reply = rep]
                   ELSE call
    /\ wire' = Tail(wire)
    /\ touched' = {}
    /\ UNCHANGED <<kind, said>>

Tick ==
    /\ \A e \in Element : due[e] # 0
    /\ due' = [e \in Element |-> IF due[e] = Never THEN Never ELSE due[e] - 1]
    /\ age' = [e \in Element |->
                 IF placed[e] # Nowhere /\ age[e] < MaxAge THEN age[e] + 1 ELSE age[e]]
    /\ UNCHANGED <<kind, placed, saved, wire, call, asked, said, touched>>

\* A timer ends.
Fire(e) ==
    /\ due[e] = 0
    /\ Become([placed EXCEPT ![e] = Nowhere])
    /\ touched' = touched \cup {e}
    /\ UNCHANGED <<kind, wire, call, said>>

\* Another client.  Its requests are without timeout.
OutsideEdit ==
    /\ "edit" \in Outside
    /\ \E op \in Operations[kind] \cup daemonWide, z \in Zone, e \in Element :
         LET r == [op |-> op, zone |-> z, elems |-> {e}, t |-> 0, asked |-> 0]
         IN  Ok({}) \in RepliesTo(r) /\ Effect(r)
    /\ touched' = touched \cup {e \in Element : placed'[e] # placed[e]}
    /\ UNCHANGED <<kind, wire, call, said>>

\* The daemon ends and starts again: requests and replies on their way are lost, and a
\* waiting caller is told so by the bus.
Restart ==
    /\ "restart" \in Outside
    /\ Restored({})
    /\ wire' = <<>>
    /\ touched' = Element
    /\ \/ /\ call.at = "waiting"
          /\ \E rep \in Failures :
               rep.name = "bus" /\ call' = [call EXCEPT !.at = "answered", !.reply = rep]
       \/ call.at # "waiting" /\ UNCHANGED call
    /\ UNCHANGED <<kind, said>>

(***************************************************************************)
(* The specification.                                                      *)
(***************************************************************************)
Init ==
    /\ kind \in Kinds
    /\ saved = [e \in Element |-> Nowhere]
    /\ placed = saved
    /\ due = [e \in Element |-> Never]
    /\ wire = <<>> /\ call = Idle
    /\ asked = [e \in Element |-> 0] /\ age = [e \in Element |-> 0]
    /\ said = NothingSaid /\ touched = {}

Library ==
    \/ \E z \in Zone, e \in Element :
        \/ \E d \in Durations : Add(z, e, d)
        \/ AddUntimed(z, e)
        \/ \E op \in {"remove", "query", "change", "locate"} : OnElement(op, z, e)
    \/ \E z \in Zone : (\E op \in {"list", "clear"} : OnAll(op, z))
                       \/ \E S \in SUBSET Element : SetEntries(z, S)
    \/ \E op \in daemonWide : Wide(op)
    \/ Return \/ GiveUp

Daemon == Serve \/ Tick \/ (\E e \in Element : Fire(e)) \/ OutsideEdit \/ Restart

Next == Library \/ Daemon

Spec == Init /\ [][Next]_vars

(***************************************************************************)
(* Properties.                                                             *)
(***************************************************************************)
\* The variables have their types, a timeout that is sent fits an int32 (timeoutSeconds),
\* and a caller that waits does so for the youngest request on its way.
TypeOK ==
    /\ kind \in Kinds
    /\ placed \in [Element -> Zone \cup {Nowhere}]
    /\ saved \in [Element -> Zone \cup {Nowhere}]
    /\ due \in [Element -> Nat \cup {Never}]
    /\ wire \in Seq(Request)
    /\ call \in [at : {"idle", "waiting", "answered"}, req : Request, reply : Reply]
    /\ call.at = "waiting" => wire # <<>> /\ wire[Len(wire)] = call.req
    /\ asked \in [Element -> {0} \cup Durations]
    /\ age \in [Element -> 0 .. MaxAge]
    /\ said \in [in : SUBSET (Element \X Zone), out : SUBSET (Element \X Zone)]
    /\ touched \subseteq Element

\* A timed element ends in time: it is never older than the timeout its Add was given, if
\* that is a second at least and fits, whatever is removed, added again, moved, replaced
\* or reloaded meanwhile and however many requests were given up ("Add methods take a
\* timeout").
EndsInTime ==
    \A e \in Element : placed[e] # Nowhere /\ Expressible(asked[e]) => age[e] <= asked[e]

\* Nor is it cut short by a second or more, and what has no timeout is not ended at all:
\* the conversion only drops the fraction.
NotCutShort ==
    [][\A e \in Element : Fire(e) /\ asked[e] < HalfRange * Second =>
            asked[e] >= Second /\ (age[e] > asked[e] - Second \/ age[e] = MaxAge)]_vars

\* "The idempotency signals: an add of something already present, or a remove of something
\* absent": what a call's outcome tells the caller of an element holds from then on, until
\* a timer or somebody else changes it, however many earlier calls for the same element
\* the caller gave up on.  So repeating a call until it succeeds or says so is safe.
AnswersHold ==
    /\ \A p \in said.in : p[1] \notin touched => placed[p[1]] = p[2]
    /\ \A p \in said.out : p[1] \notin touched => placed[p[1]] # p[2]

\* An exception is mapped to the sentinel of the code firewalld raised, and nothing else
\* to any (mapError).
CausesTold ==
    call.at = "answered" /\ call.reply.name # "" =>
        mapError(call.reply) = Sentinel(call.reply.cause)

\* "A zero or negative duration means 'no timeout'", and hence a positive one a timeout.
PositiveTimeoutEnds ==
    \A e \in Element : placed[e] # Nowhere /\ asked[e] > 0 => age[e] <= asked[e]
===============================================================================
