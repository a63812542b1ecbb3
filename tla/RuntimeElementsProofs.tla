------------------------- MODULE RuntimeElementsProofs -------------------------
(***************************************************************************)
(* Theorems about RuntimeElements, for any collections, elements, zones,   *)
(* widths, timeouts and numbers of requests on their way.                  *)
(***************************************************************************)
EXTENDS RuntimeElements, SequenceTheorems, TLAPS

USE Parameters

-------------------------------------------------------------------------------
(***************************************************************************)
(* Timeouts.                                                               *)
(***************************************************************************)
LEMMA Int32Range ==
    ASSUME NEW n \in Int
    PROVE  int32(n) \in -HalfRange .. HalfRange - 1
<1> DEFINE m == 2 * HalfRange
<1>1. m \in Nat \ {0}
    OBVIOUS
<1>2. (n + HalfRange) % m \in 0 .. m - 1
    <2> HIDE DEF m
    <2> QED  BY <1>1
<1> QED  BY <1>2 DEF int32

LEMMA Int32Exact ==
    ASSUME NEW n \in Int, -HalfRange <= n, n < HalfRange
    PROVE  int32(n) = n
<1> DEFINE m == 2 * HalfRange
           k == n + HalfRange
<1>1. m \in Nat \ {0} /\ k \in 0 .. m - 1
    OBVIOUS
<1>2. k % m = k
    <2> HIDE DEF m, k
    <2> QED  BY <1>1
<1> QED  BY <1>2 DEF int32

LEMMA WholeSeconds ==
    ASSUME NEW d \in Nat
    PROVE  /\ d \div Second \in Nat
           /\ (d \div Second) * Second <= d
           /\ d < (d \div Second) * Second + Second
<1>1. d \div Second \in Int /\ d = (d \div Second) * Second + (d % Second)
    OBVIOUS
<1>2. d % Second \in 0 .. Second - 1
    OBVIOUS
<1>3. d \div Second >= 0
    BY <1>1, <1>2
<1> QED  BY <1>1, <1>2, <1>3

LEMMA TimeoutRange ==
    ASSUME NEW d \in Int
    PROVE  timeoutSeconds(d) \in -HalfRange .. HalfRange - 1
<1>1. CASE d <= 0
    BY <1>1 DEF timeoutSeconds
<1>2. CASE d > 0
    BY <1>2, WholeSeconds, Int32Range DEF timeoutSeconds
<1> QED  BY <1>1, <1>2

\* What timeoutSeconds can express loses its fraction of a second and nothing else.
LEMMA TimeoutTruncates ==
    ASSUME NEW d \in Int, Expressible(d)
    PROVE  /\ timeoutSeconds(d) > 0
           /\ timeoutSeconds(d) * Second <= d
           /\ d < timeoutSeconds(d) * Second + Second
<1> DEFINE q == d \div Second
<1>1. d \in Nat /\ d > 0 /\ q \in Nat /\ q * Second <= d /\ d < q * Second + Second
    BY WholeSeconds DEF Expressible
<1>2. q > 0
    BY <1>1 DEF Expressible
<1>3. q < HalfRange
    <2> SUFFICES ASSUME q >= HalfRange PROVE FALSE
        BY <1>1
    <2>1. q * Second >= HalfRange * Second
        <3> HIDE DEF q
        <3> QED  BY <1>1
    <2> QED  BY <2>1, <1>1 DEF Expressible
<1>4. timeoutSeconds(d) = q
    <2>1. -HalfRange <= q
        <3> HIDE DEF q
        <3> QED  BY <1>1
    <2>2. int32(q) = q
        BY <2>1, <1>1, <1>3, Int32Exact
    <2> QED  BY <1>1, <2>2 DEF timeoutSeconds
<1> QED
    <2> HIDE DEF q
    <2> QED  BY <1>1, <1>2, <1>4

-------------------------------------------------------------------------------
(***************************************************************************)
(* Type correctness.                                                       *)
(***************************************************************************)
LEMMA ElementOps ==
    elementOps = {"add", "remove", "query", "list", "change", "locate", "set", "clear"}
<1> DEFINE S == {"add", "remove", "query", "list", "change", "locate", "set", "clear"}
<1>1. DOMAIN Operations = {"element", "binding", "entry", "rule", "whitelist", "switch"}
    BY DEF Operations
<1>2. ASSUME NEW k \in DOMAIN Operations PROVE Operations[k] \subseteq S
    BY <1>1, <1>2 DEF Operations, zoneElement, zoneBinding, ipsetEntry, directRule,
                      whitelist, switch
<1>3. S = Operations["binding"] \cup Operations["entry"] \cup Operations["rule"]
    BY DEF Operations, zoneBinding, ipsetEntry, directRule
<1>4. ASSUME NEW op \in S PROVE op \in elementOps
    <2>1. PICK k \in DOMAIN Operations : op \in Operations[k]
        <3> HIDE DEF S
        <3> QED  BY <1>1, <1>3, <1>4
    <2> QED  BY <2>1 DEF elementOps
<1>5. ASSUME NEW op \in elementOps PROVE op \in S
    <2>1. PICK k \in DOMAIN Operations : op \in Operations[k]
        BY <1>5 DEF elementOps
    <2> QED  BY <2>1, <1>2
<1> QED
    <2> HIDE DEF S
    <2>1. elementOps = S
        BY <1>4, <1>5
    <2> QED  BY <2>1 DEF S

LEMMA OpsOf == ASSUME NEW k \in Kinds PROVE Operations[k] \subseteq elementOps
<1>1. k \in DOMAIN Operations
    BY DEF Operations
<1> QED  BY <1>1 DEF elementOps

\* What is known of a request for elements, and of one for the whole daemon.
LEMMA RequestTyped ==
    ASSUME NEW r \in Request
    PROVE  /\ r.elems \in SUBSET Element
           /\ r.t \in Int /\ r.asked \in {0} \cup Durations
           /\ \/ r.op \in elementOps /\ r.zone \in Zone
              \/ r.op \in daemonWide \cup {"none"} /\ r.zone = Nowhere
BY DEF Request

LEMMA RefusalsTyped ==
    ASSUME NEW codes \in SUBSET (DOMAIN exceptionMap \cup OtherCodes)
    PROVE  Refusals(codes) \subseteq Reply
<1> SUFFICES ASSUME NEW rep \in Refusals(codes) PROVE rep \in Reply
    OBVIOUS
<1>1. PICK m \in Message : /\ m.run \in codes
                           /\ rep = [name |-> "exception", msg |-> m, cause |-> m.run,
                                     found |-> {}]
    BY DEF Refusals
<1> QED  BY <1>1 DEF Reply

LEMMA FailuresTyped == Failures \subseteq Reply
<1> SUFFICES ASSUME NEW rep \in Failures PROVE rep \in Reply
    OBVIOUS
<1>1. CASE rep \in Refusals(OtherCodes)
    BY <1>1, RefusalsTyped
<1>2. CASE rep \notin Refusals(OtherCodes)
    <2>1. PICK m \in Message, name \in {"exception", "bus"} :
             rep = [name |-> name, msg |-> m, cause |-> "none", found |-> {}]
        BY <1>2 DEF Failures
    <2> QED  BY <2>1 DEF Reply
<1> QED  BY <1>1, <1>2

LEMMA RepliesTyped ==
    ASSUME NEW r \in Request, placed \in [Element -> Zone \cup {Nowhere}]
    PROVE  RepliesTo(r) \subseteq Reply
<1>1. NoMessage \in Message
    BY DEF NoMessage, Message, TooShort
<1>2. \A S \in SUBSET (Element \X Zone) : Ok(S) \in Reply
    BY <1>1 DEF Ok, Reply
<1>3. \A codes \in SUBSET (DOMAIN exceptionMap \cup OtherCodes) : Refusals(codes) \subseteq Reply
    BY RefusalsTyped
<1>4. Failures \subseteq Reply
    BY FailuresTyped
<1>5. {"ZONE_CONFLICT", "ZONE_ALREADY_SET", "ALREADY_ENABLED", "NOT_ENABLED"}
        \subseteq DOMAIN exceptionMap
    BY DEF exceptionMap
<1>6. \A S \in SUBSET Element, Z \in SUBSET Zone : Found(S, Z) \in SUBSET (Element \X Zone)
    BY DEF Found
<1>r. /\ r.elems \in SUBSET Element
      /\ r.op \in {"query", "list"} => r.zone \in Zone
    BY RequestTyped, ElementOps DEF daemonWide
<1>7. CASE r.op = "add"
    <2> DEFINE At(e) == IF placed[e] = Nowhere THEN {Ok({})}
                        ELSE IF placed[e] # r.zone THEN Refusals({"ZONE_CONFLICT"})
                        ELSE Refusals({IF kind = "binding" THEN "ZONE_ALREADY_SET"
                                       ELSE "ALREADY_ENABLED"})
    <2>1. \A e \in r.elems : At(e) \subseteq Reply
        BY <1>2, <1>3, <1>5
    <2>2. RepliesTo(r) = Failures \cup UNION {At(e) : e \in r.elems}
        BY <1>7 DEF RepliesTo
    <2> QED
        <3> HIDE DEF At
        <3> QED  BY <2>1, <2>2, <1>4
<1>8. CASE r.op = "remove"
    <2> DEFINE At(e) == IF placed[e] = r.zone THEN {Ok({})} ELSE Refusals({"NOT_ENABLED"})
    <2>1. \A e \in r.elems : At(e) \subseteq Reply
        BY <1>2, <1>3, <1>5
    <2>2. RepliesTo(r) = Failures \cup UNION {At(e) : e \in r.elems}
        BY <1>8 DEF RepliesTo
    <2> QED
        <3> HIDE DEF At
        <3> QED  BY <2>1, <2>2, <1>4
<1>9. CASE r.op = "change"
    <2> DEFINE At(e) == IF placed[e] = r.zone THEN Refusals({"ZONE_ALREADY_SET"}) ELSE {}
    <2>1. \A e \in r.elems : At(e) \subseteq Reply
        BY <1>3, <1>5
    <2>2. RepliesTo(r) = Failures \cup {Ok({})} \cup UNION {At(e) : e \in r.elems}
        BY <1>9 DEF RepliesTo
    <2> QED
        <3> HIDE DEF At
        <3> QED  BY <2>1, <2>2, <1>4, <1>2
<1>10. CASE r.op \in {"query", "list", "locate"}
    <2>1. \/ r.op = "query" /\ RepliesTo(r) = Failures \cup {Ok(Found(r.elems, {r.zone}))}
          \/ r.op = "list" /\ RepliesTo(r) = Failures \cup {Ok(Found(Element, {r.zone}))}
          \/ r.op = "locate" /\ RepliesTo(r) = Failures \cup {Ok(Found(r.elems, Zone))}
        BY <1>10 DEF RepliesTo
    <2> QED  BY <2>1, <1>2, <1>4, <1>6, <1>r
<1>11. CASE r.op \notin {"add", "remove", "change", "query", "list", "locate"}
    <2>1. RepliesTo(r) = Failures \cup {Ok({})}
        BY <1>11 DEF RepliesTo
    <2> QED  BY <2>1, <1>2, <1>4
<1> QED  BY <1>7, <1>8, <1>9, <1>10, <1>11

DaemonTyped ==
    /\ placed \in [Element -> Zone \cup {Nowhere}]
    /\ saved \in [Element -> Zone \cup {Nowhere}]
    /\ due \in [Element -> Nat \cup {Never}]
    /\ asked \in [Element -> {0} \cup Durations]
    /\ age \in [Element -> 0 .. MaxAge]

\* The timeout of an Add is the one it was asked for, converted.
Converted(r) == r.op = "add" => r.t = timeoutSeconds(r.asked)

\* Most requests are about one element.
Proper(r) ==
    /\ Converted(r)
    /\ r.op \in {"add", "remove", "query", "change", "locate"} => \E e \in Element : r.elems = {e}

(***************************************************************************)
(* What a step may do to an element: nothing; place it without timer or    *)
(* remove it; or add it with the timeout that was asked for.               *)
(***************************************************************************)
Same(e) ==
    placed'[e] = placed[e] /\ due'[e] = due[e] /\ asked'[e] = asked[e] /\ age'[e] = age[e]

Untimed(e) ==
    placed'[e] \in Zone \cup {Nowhere} /\ due'[e] = Never /\ asked'[e] = 0 /\ age'[e] = 0

Timed(e) ==
    /\ placed'[e] \in Zone /\ asked'[e] \in {0} \cup Durations /\ age'[e] = 0
    /\ due'[e] = IF timeoutSeconds(asked'[e]) > 0
                 THEN timeoutSeconds(asked'[e]) * Second ELSE Never

Each ==
    /\ \A f \in {placed', due', asked', age'} : f = [e \in Element |-> f[e]]
    /\ saved' \in [Element -> Zone \cup {Nowhere}]
    /\ \A e \in Element : Same(e) \/ Untimed(e) \/ Timed(e)

LEMMA BecomeEach ==
    ASSUME DaemonTyped, NEW p \in [Element -> Zone \cup {Nowhere}], Become(p)
    PROVE  Each
BY DEF DaemonTyped, Become, Each, Same, Untimed

LEMMA RestoredEach ==
    ASSUME DaemonTyped, NEW kept \in SUBSET Element, Restored(kept)
    PROVE  Each
BY DEF DaemonTyped, Restored, Each, Same, Untimed, Timed

LEMMA EffectEach ==
    ASSUME DaemonTyped, NEW r, Converted(r), Effect(r),
           r.elems \in SUBSET Element, r.t \in Int, r.asked \in {0} \cup Durations,
           r.op \in {"add", "change", "set", "clear"} => r.zone \in Zone
    PROVE  Each
<1>t. /\ r.elems \in SUBSET Element /\ r.t \in Int /\ r.asked \in {0} \cup Durations
      /\ r.op \in {"add", "change", "set", "clear"} => r.zone \in Zone
    OBVIOUS
<1>1. CASE r.op = "add"
    BY <1>1, <1>t DEF Effect, DaemonTyped, Converted, Each, Same, Timed
<1>2. CASE r.op = "remove"
    <2> DEFINE p == [e \in Element |-> IF e \in r.elems THEN Nowhere ELSE placed[e]]
    <2>1. Become(p)
        BY <1>2 DEF Effect
    <2> QED  BY <2>1, BecomeEach DEF DaemonTyped
<1>3. CASE r.op = "change"
    <2> DEFINE p == [e \in Element |-> IF e \in r.elems THEN r.zone ELSE placed[e]]
    <2>1. Become(p)
        BY <1>3 DEF Effect
    <2> QED  BY <2>1, <1>3, <1>t, BecomeEach DEF DaemonTyped
<1>4. CASE r.op \in {"set", "clear"}
    <2> DEFINE p == [e \in Element |->
                       IF r.op = "set" /\ e \in r.elems THEN r.zone
                       ELSE IF placed[e] = r.zone THEN Nowhere ELSE placed[e]]
    <2>1. Become(p)
        BY <1>4 DEF Effect
    <2> QED  BY <2>1, <1>4, <1>t, BecomeEach DEF DaemonTyped
<1>5. CASE r.op \in {"reload", "completeReload"}
    <2>1. PICK kept \in SUBSET Element : Restored(kept)
        BY <1>5 DEF Effect
    <2> QED  BY <2>1, RestoredEach
<1>6. CASE r.op \in {"runtimeToPermanent", "resetToDefaults"}
    BY <1>6 DEF Effect, DaemonTyped, Each, Same
<1>7. CASE r.op \in {"query", "list", "locate"}
    BY <1>7 DEF Effect, daemonVars, DaemonTyped, Each, Same
<1> QED  BY <1>1, <1>2, <1>3, <1>4, <1>5, <1>6, <1>7 DEF Effect

LEMMA EachTyped ==
    ASSUME DaemonTyped, Each
    PROVE  DaemonTyped'
<1>1. ASSUME NEW e \in Element
      PROVE  /\ placed'[e] \in Zone \cup {Nowhere} /\ due'[e] \in Nat \cup {Never}
             /\ asked'[e] \in {0} \cup Durations /\ age'[e] \in 0 .. MaxAge
    <2>1. CASE Same(e)
        BY <2>1 DEF Same, DaemonTyped
    <2>2. CASE Untimed(e)
        BY <2>2 DEF Untimed
    <2>3. CASE Timed(e)
        <3> DEFINE d == asked'[e]
        <3>0. d \in Int
            <4>1. d \in {0} \cup Durations
                BY <2>3, Zenon DEF Timed
            <4>2. {0} \cup Durations \subseteq Int
                OBVIOUS
            <4> QED  BY <4>1, <4>2
        <3>1. timeoutSeconds(d) \in Int
            <4> HIDE DEF d
            <4> QED  BY <3>0, TimeoutRange
        <3>2. timeoutSeconds(asked'[e]) > 0 => timeoutSeconds(asked'[e]) * Second \in Nat
            <4> DEFINE k == timeoutSeconds(asked'[e])
            <4> HIDE DEF k
            <4>1. k \in Int => (k > 0 => k * Second \in Nat)
                OBVIOUS
            <4> QED  BY <3>1, <4>1 DEF k
        <3> QED  BY <2>3, <3>2 DEF Timed
    <2> QED  BY <2>1, <2>2, <2>3 DEF Each
<1> QED  BY <1>1 DEF Each, DaemonTyped

LEMMA ElementTyped ==
    ASSUME DaemonTyped, NEW e \in Element
    PROVE  age[e] \in 0 .. MaxAge /\ due[e] \in Nat \cup {Never} /\ asked[e] \in Int
<1>1. /\ age[e] \in 0 .. MaxAge /\ due[e] \in Nat \cup {Never}
      /\ asked[e] \in {0} \cup Durations
    BY DEF DaemonTyped
<1>2. {0} \cup Durations \subseteq Int
    OBVIOUS
<1>3. asked[e] \in Int
    BY <1>1, <1>2
<1> QED  BY <1>1, <1>3

(***************************************************************************)
(* TypeOK's other conjuncts.                                               *)
(***************************************************************************)
CallTyped ==
    /\ kind \in Kinds
    /\ wire \in Seq(Request)
    /\ call \in [at : {"idle", "waiting", "answered"}, req : Request, reply : Reply]
    /\ call.at = "waiting" => wire # <<>> /\ wire[Len(wire)] = call.req

SaidTyped ==
    /\ said \in [in : SUBSET (Element \X Zone), out : SUBSET (Element \X Zone)]
    /\ touched \subseteq Element

LEMMA TypeParts == TypeOK <=> DaemonTyped /\ CallTyped /\ SaidTyped
BY DEF TypeOK, DaemonTyped, CallTyped, SaidTyped

LEMMA TypePartsNext == TypeOK' <=> DaemonTyped' /\ CallTyped' /\ SaidTyped'
BY DEF TypeOK, DaemonTyped, CallTyped, SaidTyped

LEMMA NothingTyped ==
    /\ NoRequest \in Request /\ Ok({}) \in Reply
    /\ Idle \in [at : {"idle", "waiting", "answered"}, req : Request, reply : Reply]
    /\ NothingSaid \in [in : SUBSET (Element \X Zone), out : SUBSET (Element \X Zone)]
    /\ Idle.at = "idle"
<1>1. NoRequest \in Request
    BY DEF NoRequest, Request
<1>2. NoMessage \in Message
    BY DEF NoMessage, Message, TooShort
<1>3. Ok({}) \in Reply
    BY <1>2 DEF Ok, Reply
<1> QED  BY <1>1, <1>3 DEF Idle, NothingSaid

\* The requests the library sends.
LEMMA Sent ==
    ASSUME kind \in Kinds, Library, call.at = "idle"
    PROVE  \E r \in Request : Send(r) /\ Proper(r)
<1> DEFINE R(op, z, S, t, d) == [op |-> op, zone |-> z, elems |-> S, t |-> t, asked |-> d]
<1>1. \A op \in elementOps, z \in Zone, S \in SUBSET Element, d \in {0} \cup Durations,
         t \in -HalfRange .. HalfRange - 1 : R(op, z, S, t, d) \in Request
    BY DEF Request
<1>2. \A op \in daemonWide : R(op, Nowhere, {}, 0, 0) \in Request
    BY DEF Request
<1>3. \A op \in daemonWide : op \notin {"add", "remove", "query", "change", "locate"}
    BY DEF daemonWide
<1>4. 0 \in -HalfRange .. HalfRange - 1
    OBVIOUS
<1>5. ASSUME NEW z \in Zone, NEW e \in Element, NEW d \in Durations, Add(z, e, d)
      PROVE  \E r \in Request : Send(r) /\ Proper(r)
    <2> DEFINE a == IF d > 0 THEN d ELSE 0
               r == R("add", z, {e}, timeoutSeconds(d), a)
    <2>1. timeoutSeconds(d) \in -HalfRange .. HalfRange - 1
        BY TimeoutRange
    <2>2. r \in Request
        BY <2>1, <1>1, ElementOps
    <2>3. timeoutSeconds(d) = timeoutSeconds(a)
        BY DEF timeoutSeconds
    <2>4. Send(r) /\ Proper(r)
        BY <1>5, <2>3 DEF Add, Proper, Converted
    <2> QED  BY <2>2, <2>4
<1>6. ASSUME NEW z \in Zone, NEW e \in Element, AddUntimed(z, e)
      PROVE  \E r \in Request : Send(r) /\ Proper(r)
    <2> DEFINE r == R("add", z, {e}, 0, 0)
    <2>1. r \in Request
        BY <1>1, <1>4, ElementOps
    <2>2. Send(r) /\ Proper(r)
        BY <1>6 DEF AddUntimed, Proper, Converted, timeoutSeconds
    <2> QED  BY <2>1, <2>2
<1>7. ASSUME NEW z \in Zone, NEW e \in Element, NEW op, OnElement(op, z, e)
      PROVE  \E r \in Request : Send(r) /\ Proper(r)
    <2> DEFINE r == R(op, z, {e}, 0, 0)
    <2>1. r \in Request
        BY <1>1, <1>4, <1>7, ElementOps DEF OnElement
    <2>2. Send(r) /\ Proper(r)
        BY <1>7 DEF OnElement, Proper, Converted
    <2> QED  BY <2>1, <2>2
<1>8. ASSUME NEW z \in Zone, NEW op, OnAll(op, z)
      PROVE  \E r \in Request : Send(r) /\ Proper(r)
    <2> DEFINE r == R(op, z, {}, 0, 0)
    <2>1. r \in Request
        BY <1>1, <1>4, <1>8, ElementOps DEF OnAll
    <2>2. Send(r) /\ Proper(r)
        BY <1>8 DEF OnAll, Proper, Converted
    <2> QED  BY <2>1, <2>2
<1>9. ASSUME NEW z \in Zone, NEW S \in SUBSET Element, SetEntries(z, S)
      PROVE  \E r \in Request : Send(r) /\ Proper(r)
    <2> DEFINE r == R("set", z, S, 0, 0)
    <2>1. r \in Request
        BY <1>1, <1>4, ElementOps
    <2>2. Send(r) /\ Proper(r)
        BY <1>9 DEF SetEntries, Proper, Converted
    <2> QED  BY <2>1, <2>2
<1>10. ASSUME NEW op, Wide(op)
       PROVE  \E r \in Request : Send(r) /\ Proper(r)
    <2> DEFINE r == R(op, Nowhere, {}, 0, 0)
    <2>1. r \in Request
        BY <1>2, <1>10 DEF Wide
    <2>2. Proper(r)
        BY <1>10, <1>3 DEF Wide, Proper, Converted
    <2>3. Send(r)
        BY <1>10 DEF Wide
    <2> QED  BY <2>1, <2>2, <2>3
<1>11. ~Return /\ ~GiveUp
    BY DEF Return, GiveUp
<1> QED  BY <1>5, <1>6, <1>7, <1>8, <1>9, <1>10, <1>11 DEF Library

\* Requests are what the library sends, wherever they are.
Wired ==
    /\ \A i \in 1 .. Len(wire) : Proper(wire[i])
    /\ call.at # "idle" => Proper(call.req)

LEMMA HeadServed ==
    ASSUME TypeOK, Wired, wire # <<>>
    PROVE  /\ Head(wire) \in Request /\ Proper(Head(wire))
           /\ Len(wire) \in Nat \ {0}
           /\ Tail(wire) \in Seq(Request) /\ Len(Tail(wire)) = Len(wire) - 1
           /\ \A i \in 1 .. Len(Tail(wire)) : Tail(wire)[i] = wire[i + 1]
<1>1. wire \in Seq(Request)
    BY DEF TypeOK
<1>2. Len(wire) \in Nat \ {0} /\ Head(wire) = wire[1]
    BY <1>1
<1> QED  BY <1>1, <1>2 DEF Wired

\* Every step but Tick does one of the three things to each element.
LEMMA StepEach ==
    ASSUME TypeOK, Wired, [Next]_vars, ~Tick
    PROVE  Each
<1>1. DaemonTyped
    BY TypeParts
<1>2. ASSUME UNCHANGED daemonVars PROVE Each
    BY <1>1, <1>2 DEF daemonVars, Each, Same, DaemonTyped
<1>3. CASE Serve
    <2> DEFINE r == Head(wire)
    <2>1. PICK rep \in RepliesTo(r) : Execute(r, rep)
        BY <1>3 DEF Serve
    <2>2. r \in Request /\ Proper(r)
        BY <1>3, HeadServed DEF Serve
    <2>3. CASE Effect(r)
        <3>1. /\ r.elems \in SUBSET Element /\ r.t \in Int /\ r.asked \in {0} \cup Durations
              /\ r.op \in {"add", "change", "set", "clear"} => r.zone \in Zone
            <4> HIDE DEF r
            <4> QED  BY <2>2, RequestTyped, ElementOps DEF daemonWide
        <3> HIDE DEF r
        <3> QED  BY <3>1, <2>2, <2>3, <1>1, EffectEach DEF Proper
    <2> QED  BY <2>1, <2>3, <1>2 DEF Execute
<1>4. CASE \E e \in Element : Fire(e)
    <2>1. PICK e \in Element : Fire(e)
        BY <1>4
    <2>2. [placed EXCEPT ![e] = Nowhere] \in [Element -> Zone \cup {Nowhere}]
        BY <1>1 DEF DaemonTyped
    <2> QED  BY <2>1, <2>2, <1>1, BecomeEach DEF Fire
<1>5. CASE OutsideEdit
    <2>1. PICK op \in Operations[kind] \cup daemonWide, z \in Zone, e \in Element :
             Effect([op |-> op, zone |-> z, elems |-> {e}, t |-> 0, asked |-> 0])
        BY <1>5 DEF OutsideEdit
    <2> DEFINE r == [op |-> op, zone |-> z, elems |-> {e}, t |-> 0, asked |-> 0]
    <2>2. Converted(r)
        BY DEF Converted, timeoutSeconds
    <2>3. /\ r.elems \in SUBSET Element /\ r.t \in Int /\ r.asked \in {0} \cup Durations
          /\ r.zone \in Zone /\ Effect(r)
        BY <2>1
    <2> HIDE DEF r
    <2> QED  BY <2>2, <2>3, <1>1, EffectEach
<1>6. CASE Restart
    <2>1. Restored({})
        BY <1>6 DEF Restart
    <2> QED  BY <2>1, <1>1, RestoredEach
<1>7. CASE Library
    <2>1. UNCHANGED daemonVars
        BY <1>7 DEF Library, Add, AddUntimed, OnElement, OnAll, SetEntries, Wide, Send,
                    Return, GiveUp
    <2> QED  BY <2>1, <1>2
<1>8. CASE UNCHANGED vars
    BY <1>8, <1>2 DEF vars, daemonVars
<1> QED  BY <1>3, <1>4, <1>5, <1>6, <1>7, <1>8 DEF Next, Daemon

LEMMA TickTyped ==
    ASSUME DaemonTyped, Tick
    PROVE  DaemonTyped'
<1>1. ASSUME NEW e \in Element PROVE due'[e] \in Nat \cup {Never}
    BY <1>1 DEF DaemonTyped, Tick
<1>2. ASSUME NEW e \in Element PROVE age'[e] \in 0 .. MaxAge
    BY <1>2 DEF DaemonTyped, Tick
<1> QED  BY <1>1, <1>2 DEF DaemonTyped, Tick

LEMMA StepWired ==
    ASSUME TypeOK, Wired, [Next]_vars
    PROVE  CallTyped' /\ Wired'
<1>1. CallTyped
    BY TypeParts
<1>2. ASSUME UNCHANGED <<kind, wire, call>> PROVE CallTyped' /\ Wired'
    BY <1>1, <1>2 DEF CallTyped, Wired
<1>3. CASE Library /\ call.at = "idle"
    <2>1. PICK r \in Request : Send(r) /\ Proper(r)
        BY <1>1, <1>3, Sent DEF CallTyped
    <2>2. /\ wire' = Append(wire, r) /\ UNCHANGED kind
          /\ call' = [at |-> "waiting", req |-> r, reply |-> Ok({})]
        BY <2>1 DEF Send
    <2>3. /\ wire' \in Seq(Request) /\ Len(wire') = Len(wire) + 1 /\ wire'[Len(wire')] = r
          /\ \A i \in 1 .. Len(wire) : wire'[i] = wire[i]
        BY <2>2, <1>1 DEF CallTyped
    <2>4. CallTyped'
        BY <2>2, <2>3, <1>1, NothingTyped DEF CallTyped
    <2>5. \A i \in 1 .. Len(wire') : Proper(wire'[i])
        BY <2>1, <2>3, <1>1 DEF Wired, CallTyped
    <2> QED  BY <2>1, <2>2, <2>4, <2>5 DEF Wired
<1>4. CASE Library /\ call.at # "idle"
    <2>1. call' = Idle /\ UNCHANGED <<kind, wire>>
        BY <1>4 DEF Library, Add, AddUntimed, OnElement, OnAll, SetEntries, Wide, Send,
                    Return, GiveUp
    <2> QED  BY <2>1, <1>1, NothingTyped DEF CallTyped, Wired
<1>5. CASE Serve
    <2>1. PICK rep \in RepliesTo(Head(wire)) :
             call' = IF call.at = "waiting" /\ Len(wire) = 1
                     THEN [call EXCEPT !.at = "answered", !.reply = rep] ELSE call
        BY <1>5 DEF Serve
    <2>2. wire # <<>> /\ wire' = Tail(wire) /\ UNCHANGED kind
        BY <1>5 DEF Serve
    <2>3. rep \in Reply
        BY <2>2, HeadServed, RepliesTyped, <2>1 DEF TypeOK
    <2>4. call' \in [at : {"idle", "waiting", "answered"}, req : Request, reply : Reply]
        BY <2>1, <2>3, <1>1 DEF CallTyped
    <2>5. call'.req = call.req /\ (call'.at = "idle" <=> call.at = "idle")
        BY <2>1, <1>1 DEF CallTyped
    <2>6. ASSUME call'.at = "waiting" PROVE wire' # <<>> /\ wire'[Len(wire')] = call'.req
        <3>1. call.at = "waiting" /\ Len(wire) # 1
            BY <2>6, <2>1, <1>1 DEF CallTyped
        <3>2. Len(wire) \in Nat /\ Len(wire) > 1 /\ wire[Len(wire)] = call.req
            BY <3>1, <2>2, <1>1, HeadServed DEF CallTyped
        <3>3. Len(wire') = Len(wire) - 1 /\ wire'[Len(wire) - 1] = wire[Len(wire) - 1 + 1]
            BY <3>2, <2>2, HeadServed
        <3> QED  BY <3>2, <3>3, <2>2, <2>5
    <2>7. wire' \in Seq(Request) /\ \A i \in 1 .. Len(wire') : Proper(wire'[i])
        BY <2>2, HeadServed, <1>1 DEF Wired, CallTyped
    <2> QED  BY <2>2, <2>4, <2>5, <2>6, <2>7, <1>1 DEF CallTyped, Wired
<1>6. CASE Restart
    <2>1. /\ wire' \in Seq(Request) /\ \A i \in 1 .. Len(wire') : Proper(wire'[i])
          /\ UNCHANGED kind
        <3>1. wire' = <<>> /\ UNCHANGED kind
            BY <1>6 DEF Restart
        <3> QED  BY <3>1
    <2>2. CASE call.at = "waiting"
        <3>1. PICK rep \in Failures : call' = [call EXCEPT !.at = "answered", !.reply = rep]
            BY <1>6, <2>2 DEF Restart
        <3>2. rep \in Reply
            BY FailuresTyped
        <3>3. /\ call' \in [at : {"idle", "waiting", "answered"}, req : Request, reply : Reply]
              /\ call'.at = "answered" /\ call'.req = call.req
            BY <3>1, <3>2, <1>1 DEF CallTyped
        <3> QED  BY <2>1, <2>2, <3>3, <1>1 DEF CallTyped, Wired
    <2>3. CASE call.at # "waiting"
        <3>1. UNCHANGED call
            BY <1>6, <2>3 DEF Restart
        <3> QED  BY <2>1, <2>3, <3>1, <1>1 DEF CallTyped, Wired
    <2> QED  BY <2>2, <2>3
<1> QED
    BY <1>2, <1>3, <1>4, <1>5, <1>6 DEF Next, Daemon, Tick, Fire, OutsideEdit, vars

LEMMA SaidPartsTyped ==
    ASSUME NEW r \in Request, NEW rep \in Reply, Proper(r)
    PROVE  SaidIn(r, rep) \in SUBSET (Element \X Zone) /\ SaidOut(r, rep) \in SUBSET (Element \X Zone)
<1>1. r.elems \in SUBSET Element /\ rep.found \in SUBSET (Element \X Zone)
    BY RequestTyped DEF Reply
<1>2. \/ r.op \in elementOps /\ r.zone \in Zone
      \/ r.op \notin elementOps
    BY RequestTyped, ElementOps DEF daemonWide
<1>3. CASE r.op \in elementOps
    <2>1. /\ r.elems \X {r.zone} \in SUBSET (Element \X Zone)
          /\ Element \X {r.zone} \in SUBSET (Element \X Zone)
          /\ r.elems \X Zone \in SUBSET (Element \X Zone)
          /\ (Element \ r.elems) \X {r.zone} \in SUBSET (Element \X Zone)
        BY <1>1, <1>2, <1>3
    <2>2. SaidIn(r, rep) \in {r.elems \X {r.zone}, rep.found, {}}
        BY DEF SaidIn
    <2>3. \/ SaidOut(r, rep) \in {r.elems \X {r.zone}, Element \X {r.zone}, {}}
          \/ SaidOut(r, rep) = (r.elems \X {r.zone}) \ rep.found
          \/ SaidOut(r, rep) = (Element \X {r.zone}) \ rep.found
          \/ SaidOut(r, rep) = (r.elems \X Zone) \ rep.found
          \/ SaidOut(r, rep) = (Element \ r.elems) \X {r.zone}
        BY DEF SaidOut
    <2> QED  BY <2>1, <2>2, <2>3, <1>1
<1>4. CASE r.op \notin elementOps
    BY <1>4, ElementOps DEF SaidIn, SaidOut
<1> QED  BY <1>3, <1>4

LEMMA StepSaidTyped ==
    ASSUME TypeOK, Wired, [Next]_vars
    PROVE  SaidTyped'
<1>1. SaidTyped /\ CallTyped
    BY TypeParts
<1>2. touched' \subseteq Element
    BY <1>1 DEF Next, Library, Daemon, Add, AddUntimed, OnElement, OnAll, SetEntries, Wide, Send,
        Return, GiveUp, Serve, Tick, Fire, OutsideEdit, Restart, vars, SaidTyped
<1>3. CASE Return
    <2>1. call.req \in Request /\ call.reply \in Reply /\ Proper(call.req)
        BY <1>3, <1>1 DEF Return, CallTyped, Wired
    <2>2. said' = [in |-> SaidIn(call.req, call.reply), out |-> SaidOut(call.req, call.reply)]
        BY <1>3 DEF Return
    <2> QED  BY <2>1, <2>2, <1>2, SaidPartsTyped DEF SaidTyped
<1>4. CASE ~Return
    <2>1. said' \in {said, NothingSaid}
        BY <1>4 DEF Next, Library, Daemon, Add, AddUntimed, OnElement, OnAll, SetEntries, Wide,
            Send, GiveUp, Serve, Tick, Fire, OutsideEdit, Restart, vars
    <2> QED  BY <2>1, <1>1, <1>2, NothingTyped DEF SaidTyped
<1> QED  BY <1>3, <1>4

LEMMA InitTyped == Init => TypeOK /\ Wired
<1> SUFFICES ASSUME Init PROVE TypeOK /\ Wired
    OBVIOUS
<1>1. DaemonTyped
    BY DEF Init, DaemonTyped
<1>2. CallTyped /\ Wired
    BY NothingTyped DEF Init, CallTyped, Wired
<1>3. SaidTyped
    BY NothingTyped DEF Init, SaidTyped
<1> QED  BY <1>1, <1>2, <1>3, TypeParts

LEMMA StepTyped == TypeOK /\ Wired /\ [Next]_vars => TypeOK' /\ Wired'
<1> SUFFICES ASSUME TypeOK, Wired, [Next]_vars PROVE TypeOK' /\ Wired'
    OBVIOUS
<1>1. DaemonTyped'
    BY TypeParts, StepEach, EachTyped, TickTyped
<1> QED  BY <1>1, StepWired, StepSaidTyped, TypePartsNext

\* The timeouts sent fit an int32, whatever was asked for, and a caller that waits does so
\* for the youngest request on its way.
THEOREM TypeCorrect == Spec => []TypeOK
<1>1. Spec => [](TypeOK /\ Wired)
    BY InitTyped, StepTyped, PTL DEF Spec
<1> QED  BY <1>1, PTL

-------------------------------------------------------------------------------
(***************************************************************************)
(* Timers.  The inductive invariant: a timer is what was asked for without *)
(* the fraction of a second, less the age of its element.                  *)
(***************************************************************************)
Timer(e) ==
    /\ placed[e] # Nowhere /\ Expressible(asked[e]) =>
            due[e] \in Nat /\ due[e] + age[e] <= asked[e]
    /\ due[e] # Never => placed[e] # Nowhere
    /\ due[e] # Never /\ asked[e] < HalfRange * Second =>
            asked[e] >= Second /\ (due[e] + age[e] > asked[e] - Second \/ age[e] = MaxAge)

Timers == \A e \in Element : Timer(e)

LEMMA TimedTimer ==
    ASSUME NEW e \in Element, Timed(e)
    PROVE  Timer(e)'
<1> DEFINE d == asked'[e]
           k == timeoutSeconds(d)
<1>1. d \in {0} \cup Durations /\ placed'[e] \in Zone /\ age'[e] = 0
    BY Zenon DEF Timed
<1>2. due'[e] = IF k > 0 THEN k * Second ELSE Never
    BY Zenon DEF Timed
<1>3. d \in Int
    <2> HIDE DEF d
    <2>1. {0} \cup Durations \subseteq Int
        OBVIOUS
    <2> QED  BY <1>1, <2>1
<1>4. k \in Int
    <2> HIDE DEF d
    <2> QED  BY <1>3, TimeoutRange
<1>5. Expressible(d) => k > 0 /\ k * Second <= d /\ d < k * Second + Second
    <2> HIDE DEF d
    <2> QED  BY <1>3, TimeoutTruncates
<1>6. d < HalfRange * Second /\ ~Expressible(d) => k <= 0
    <2> HIDE DEF d
    <2>1. ASSUME d > 0, d < Second PROVE k = 0
        <3>1. d \div Second = 0
            BY <1>3, <2>1, WholeSeconds
        <3>2. int32(0) = 0
            BY Int32Exact
        <3> QED  BY <2>1, <3>1, <3>2, <1>3 DEF timeoutSeconds
    <2>2. d <= 0 => k = 0
        BY DEF timeoutSeconds
    <2> QED  BY <1>3, <2>1, <2>2 DEF Expressible
<1>7. k > 0 => k * Second \in Nat
    <2> HIDE DEF k
    <2> QED  BY <1>4
<1>8. Expressible(d) => d >= Second /\ d < HalfRange * Second
    BY DEF Expressible
<1>9. HalfRange * Second \in Nat
    OBVIOUS
<1> DEFINE s == k * Second
<1>10. /\ placed'[e] # Nowhere
       /\ Expressible(d) => due'[e] \in Nat /\ due'[e] <= d /\ due'[e] > d - Second
    <2>1. placed'[e] # Nowhere
        BY <1>1
    <2>2. Expressible(d) => due'[e] = s /\ s \in Nat /\ s <= d /\ d < s + Second
        <3> HIDE DEF d, k
        <3> QED  BY <1>2, <1>5, <1>7
    <2> HIDE DEF d, s
    <2> QED  BY <2>1, <2>2, <1>3
<1>11. due'[e] # Never /\ d < HalfRange * Second => Expressible(d)
    <2> HIDE DEF d, k
    <2> QED  BY <1>2, <1>6, <1>4
<1> QED
    <2>1. age'[e] = 0 /\ d = asked'[e]
        BY <1>1
    <2> HIDE DEF d, k
    <2> QED  BY <2>1, <1>3, <1>8, <1>10, <1>11 DEF Timer

LEMMA StepTimers ==
    ASSUME TypeOK, TypeOK', Wired, [Next]_vars, Timers
    PROVE  Timers'
<1> SUFFICES ASSUME NEW e \in Element PROVE Timer(e)'
    BY DEF Timers
<1>1. Timer(e) /\ DaemonTyped
    BY TypeParts DEF Timers
<1>2. CASE Tick
    <2>1. /\ due[e] # 0 /\ due'[e] = IF due[e] = Never THEN Never ELSE due[e] - 1
          /\ age'[e] = IF placed[e] # Nowhere /\ age[e] < MaxAge THEN age[e] + 1 ELSE age[e]
          /\ placed'[e] = placed[e] /\ asked'[e] = asked[e]
        BY <1>2, <1>1 DEF Tick, DaemonTyped
    <2>2. age[e] \in 0 .. MaxAge /\ due[e] \in Nat \cup {Never} /\ asked[e] \in Int
        BY <1>1, ElementTyped
    <2>3. HalfRange * Second \in Int
        OBVIOUS
    <2> QED  BY <2>1, <2>2, <2>3, <1>1 DEF Timer
<1>3. CASE ~Tick
    <2>1. Same(e) \/ Untimed(e) \/ Timed(e)
        BY <1>3, StepEach DEF Each
    <2>2. CASE Same(e)
        BY <2>2, <1>1 DEF Same, Timer
    <2>3. CASE Untimed(e)
        BY <2>3 DEF Untimed, Timer, Expressible
    <2> QED  BY <2>1, <2>2, <2>3, TimedTimer
<1> QED  BY <1>2, <1>3

LEMMA InitTimers == Init => Timers
BY DEF Init, Timers, Timer, Expressible

LEMMA TimersAlways == Spec => [](TypeOK /\ Wired /\ Timers)
BY InitTyped, InitTimers, StepTyped, StepTimers, PTL DEF Spec

\* A timed element is never older than the timeout its Add was given, whatever happens.
THEOREM EndsInTimeHolds == Spec => []EndsInTime
<1>1. TypeOK /\ Timers => EndsInTime
    <2> SUFFICES ASSUME TypeOK, Timers, NEW e \in Element, placed[e] # Nowhere,
                        Expressible(asked[e])
                 PROVE  age[e] <= asked[e]
        BY DEF EndsInTime
    <2>1. due[e] \in Nat /\ due[e] + age[e] <= asked[e]
        BY DEF Timers, Timer
    <2>2. age[e] \in 0 .. MaxAge /\ asked[e] \in Int
        BY TypeParts, ElementTyped
    <2> QED  BY <2>1, <2>2
<1> QED  BY <1>1, TimersAlways, PTL

\* Nor is it ended a second early, or ended at all where no timeout was asked for.
THEOREM NotCutShortHolds == Spec => NotCutShort
<1> DEFINE A == \A e \in Element : Fire(e) /\ asked[e] < HalfRange * Second =>
                    asked[e] >= Second /\ (age[e] > asked[e] - Second \/ age[e] = MaxAge)
<1>1. TypeOK /\ Timers => A
    <2> SUFFICES ASSUME TypeOK, Timers, NEW e \in Element, Fire(e),
                        asked[e] < HalfRange * Second
                 PROVE  asked[e] >= Second /\ (age[e] > asked[e] - Second \/ age[e] = MaxAge)
        OBVIOUS
    <2>1. due[e] = 0 /\ due[e] # Never
        BY DEF Fire
    <2>2. age[e] \in 0 .. MaxAge /\ asked[e] \in Int
        BY TypeParts, ElementTyped
    <2> QED  BY <2>1, <2>2 DEF Timers, Timer
<1>2. TypeOK /\ Timers /\ [Next]_vars => [A]_vars
    BY <1>1
<1> QED  BY <1>2, TimersAlways, PTL DEF Spec, NotCutShort

\* If every timeout that callers give is a second at least and fits, or none, "a zero or
\* negative duration means 'no timeout'" (zone.go) says all there is to say: a positive one
\* ends the element, and in time.
THEOREM PositiveTimeoutHolds ==
    ASSUME \A d \in Durations : d > 0 => Expressible(d)
    PROVE  Spec => []PositiveTimeoutEnds
<1>1. TypeOK /\ EndsInTime => PositiveTimeoutEnds
    <2> SUFFICES ASSUME TypeOK, EndsInTime, NEW e \in Element, placed[e] # Nowhere,
                        asked[e] > 0
                 PROVE  age[e] <= asked[e]
        BY DEF PositiveTimeoutEnds
    <2>1. asked[e] \in {0} \cup Durations
        BY DEF TypeOK
    <2>2. asked[e] # 0
        OBVIOUS
    <2>3. asked[e] \in Durations
        BY <2>1, <2>2
    <2>4. Expressible(asked[e])
        BY <2>3
    <2> QED  BY <2>4 DEF EndsInTime
<1> QED  BY <1>1, TypeCorrect, EndsInTimeHolds, PTL

\* What a shorter positive timeout does instead: none of its elements ever has a timer.
FractionsUntimed ==
    \A e \in Element : 0 < asked[e] /\ asked[e] < Second => due[e] = Never

\* A positive timeout of less than a second never ends its element (timeoutSeconds drops
\* the fraction, and 0 is no timeout), whatever else is added, moved or reloaded.
THEOREM FractionsNeverEnd == Spec => []FractionsUntimed
<1>1. TypeOK /\ Timers => FractionsUntimed
    <2> SUFFICES ASSUME TypeOK, Timers, NEW e \in Element, asked[e] < Second, due[e] # Never
                 PROVE  FALSE
        BY DEF FractionsUntimed
    <2>1. asked[e] \in Int
        BY TypeParts, ElementTyped
    <2>2. Second <= HalfRange * Second
        <3>1. PICK k \in Nat : HalfRange = k + 1
            <4>1. HalfRange - 1 \in Nat /\ HalfRange = (HalfRange - 1) + 1
                BY Parameters
            <4> QED  BY <4>1
        <3>2. k * Second \in Nat /\ HalfRange * Second = k * Second + Second
            BY <3>1, Parameters
        <3> QED  BY <3>2, Parameters
    <2>3. HalfRange * Second \in Int
        BY Parameters
    <2>4. asked[e] < HalfRange * Second => asked[e] >= Second
        BY DEF Timers, Timer
    <2> HIDE DEF Timers
    <2> QED  BY <2>1, <2>2, <2>3, <2>4, Parameters
<1> QED  BY <1>1, TimersAlways, PTL

-------------------------------------------------------------------------------
(***************************************************************************)
(* What errors mean.                                                       *)
(***************************************************************************)
PresenceSentinels == {"nil", "ErrAlreadyEnabled", "ErrAlreadySet", "ErrNotEnabled"}

LEMMA Codes ==
    /\ DOMAIN exceptionMap \cap (TooShort \cup {"none"}) = {}
    /\ Sentinel("") = "none" /\ Sentinel("none") = "none"
    /\ Sentinel("ALREADY_ENABLED") = "ErrAlreadyEnabled"
    /\ Sentinel("NOT_ENABLED") = "ErrNotEnabled"
    /\ Sentinel("ZONE_ALREADY_SET") = "ErrAlreadySet"
    /\ Sentinel("ZONE_CONFLICT") = "ErrZoneConflict"
BY DEF exceptionMap, TooShort, Sentinel

LEMMA OtherSentinels ==
    ASSUME NEW c \in OtherCodes
    PROVE  Sentinel(c) \notin PresenceSentinels
<1>1. c \notin PresenceCodes
    OBVIOUS
<1>2. CASE c \in DOMAIN exceptionMap
    BY <1>1, <1>2 DEF Sentinel, exceptionMap, PresenceCodes, PresenceSentinels
<1>3. CASE c \notin DOMAIN exceptionMap
    BY <1>3 DEF Sentinel, PresenceSentinels
<1> QED  BY <1>2, <1>3

LEMMA RefusalMeans ==
    ASSUME NEW codes \in SUBSET (DOMAIN exceptionMap \cup OtherCodes), NEW rep \in Refusals(codes)
    PROVE  /\ rep.name = "exception" /\ rep.cause \in codes
           /\ mapError(rep) = Sentinel(rep.cause)
<1>1. PICK m \in Message : /\ m.run \in codes
                           /\ rep = [name |-> "exception", msg |-> m, cause |-> m.run,
                                     found |-> {}]
    BY DEF Refusals
<1>2. m.run \notin TooShort
    BY <1>1, Codes
<1> QED  BY <1>1, <1>2 DEF mapError, leadingToken

LEMMA OkMeans ==
    ASSUME NEW found
    PROVE  Ok(found).name = "" /\ Ok(found).found = found /\ mapError(Ok(found)) = "nil"
BY DEF Ok, mapError

LEMMA RefusalOf ==
    ASSUME NEW c \in {"ZONE_CONFLICT", "ZONE_ALREADY_SET", "ALREADY_ENABLED", "NOT_ENABLED"},
           NEW rep \in Refusals({c})
    PROVE  rep.name = "exception" /\ rep.cause = c /\ mapError(rep) = Sentinel(c) /\ rep # Ok({})
<1>1. {c} \in SUBSET (DOMAIN exceptionMap \cup OtherCodes)
    BY DEF exceptionMap
<1>2. rep.name = "exception" /\ rep.cause \in {c} /\ mapError(rep) = Sentinel(rep.cause)
    BY <1>1, RefusalMeans
<1> QED  BY <1>2, OkMeans

LEMMA FailureMeans ==
    ASSUME NEW rep \in Failures
    PROVE  /\ rep.name # "" /\ mapError(rep) = Sentinel(rep.cause)
           /\ mapError(rep) \notin PresenceSentinels
<1>1. CASE rep \in Refusals(OtherCodes)
    <2>1. OtherCodes \in SUBSET (DOMAIN exceptionMap \cup OtherCodes)
        OBVIOUS
    <2>2. rep.name = "exception" /\ rep.cause \in OtherCodes
          /\ mapError(rep) = Sentinel(rep.cause)
        BY <1>1, <2>1, RefusalMeans
    <2> QED  BY <2>2, OtherSentinels
<1>2. CASE rep \notin Refusals(OtherCodes)
    <2>1. PICK m \in Message :
             \/ /\ m.run \in TooShort
                /\ rep = [name |-> "exception", msg |-> m, cause |-> "none", found |-> {}]
             \/ rep = [name |-> "bus", msg |-> m, cause |-> "none", found |-> {}]
        BY <1>2 DEF Failures
    <2>2. leadingToken(m) = "" \/ rep.name = "bus"
        <3>1. CASE m.run \in TooShort
            BY <3>1 DEF leadingToken
        <3>2. CASE m.run \notin TooShort
            <4>1. rep = [name |-> "bus", msg |-> m, cause |-> "none", found |-> {}]
                BY <2>1, <3>2
            <4> QED  BY <4>1
        <3> QED  BY <3>1, <3>2
    <2>3. rep.name \in {"exception", "bus"} /\ rep.cause = "none" /\ rep.msg = m
        BY <2>1
    <2>4. mapError(rep) = "none"
        BY <2>2, <2>3, Codes DEF mapError
    <2> QED  BY <2>3, <2>4, Codes DEF PresenceSentinels
<1> QED  BY <1>1, <1>2

\* The reply to any request is a success, a failure or a refusal of a known code.
LEMMA ReplyMeans ==
    ASSUME NEW r \in Request, NEW rep \in RepliesTo(r), rep.name # ""
    PROVE  mapError(rep) = Sentinel(rep.cause)
<1> DEFINE C == {"ZONE_CONFLICT", "ZONE_ALREADY_SET", "ALREADY_ENABLED", "NOT_ENABLED"}
<1>1. CASE rep \in Failures
    BY <1>1, FailureMeans
<1>2. CASE \E c \in C : rep \in Refusals({c})
    BY <1>2, RefusalOf
<1>3. CASE rep \notin Failures
    <2>1. ASSUME NEW S, rep = Ok(S) PROVE FALSE
        BY <2>1, OkMeans
    <2>2. CASE r.op = "add"
        <3>1. PICK e \in r.elems :
                 rep \in IF placed[e] = Nowhere THEN {Ok({})}
                        ELSE IF placed[e] # r.zone THEN Refusals({"ZONE_CONFLICT"})
                        ELSE Refusals({IF kind = "binding" THEN "ZONE_ALREADY_SET"
                                       ELSE "ALREADY_ENABLED"})
            BY <1>3, <2>2 DEF RepliesTo
        <3> QED  BY <3>1, <2>1, <1>2
    <2>3. CASE r.op = "remove"
        <3>1. PICK e \in r.elems :
                 rep \in IF placed[e] = r.zone THEN {Ok({})} ELSE Refusals({"NOT_ENABLED"})
            BY <1>3, <2>3 DEF RepliesTo
        <3> QED  BY <3>1, <2>1, <1>2
    <2>4. CASE r.op = "change"
        <3>1. \/ rep = Ok({})
              \/ \E e \in r.elems : rep \in IF placed[e] = r.zone
                                           THEN Refusals({"ZONE_ALREADY_SET"}) ELSE {}
            BY <1>3, <2>4 DEF RepliesTo
        <3> QED  BY <3>1, <2>1, <1>2
    <2>5. CASE r.op \notin {"add", "remove", "change"}
        <3>1. \E S : rep = Ok(S)
            BY <1>3, <2>5 DEF RepliesTo
        <3> QED  BY <3>1, <2>1
    <2> QED  BY <2>2, <2>3, <2>4, <2>5
<1> QED  BY <1>1, <1>3

(***************************************************************************)
(* What a reply says is so when the request has been executed.             *)
(***************************************************************************)
LEMMA AnswerTrue ==
    ASSUME TypeOK, NEW r \in Request, Proper(r), NEW rep \in RepliesTo(r), Execute(r, rep)
    PROVE  /\ \A p \in SaidIn(r, rep) : placed'[p[1]] = p[2]
           /\ \A p \in SaidOut(r, rep) : placed'[p[1]] # p[2]
<1> DEFINE err == mapError(rep)
<1>t. /\ placed \in [Element -> Zone \cup {Nowhere}] /\ r.elems \in SUBSET Element
      /\ r.op \in elementOps => r.zone \in Zone
    BY RequestTyped, ElementOps DEF TypeOK, daemonWide
<1>1. CASE rep \in Failures
    <2>1. err \notin PresenceSentinels
        BY <1>1, FailureMeans
    <2>2. SaidIn(r, rep) = {} /\ SaidOut(r, rep) = {}
        <3> HIDE DEF err
        <3>1. err = mapError(rep)
            BY DEF err
        <3> QED  BY <2>1, <3>1 DEF SaidIn, SaidOut, PresenceSentinels
    <2> QED  BY <2>2
<1>u. rep.name # "" => UNCHANGED placed
    BY DEF Execute, daemonVars
<1>s. rep.name = "" => Effect(r)
    BY DEF Execute
<1>2. CASE r.op = "add" /\ rep \notin Failures
    <2>1. PICK e \in Element : r.elems = {e}
        BY <1>2 DEF Proper
    <2>2. SaidOut(r, rep) = {}
        BY <1>2 DEF SaidOut
    <2>3. SaidIn(r, rep) \in {{}, {<<e, r.zone>>}}
        BY <1>2, <2>1 DEF SaidIn
    <2>4. ASSUME SaidIn(r, rep) # {} PROVE placed'[e] = r.zone
        <3>1. err \in {"nil", "ErrAlreadyEnabled", "ErrAlreadySet"}
            BY <2>4, <1>2 DEF SaidIn
        <3>2. \/ rep = Ok({})
              \/ placed[e] # r.zone /\ rep \in Refusals({"ZONE_CONFLICT"})
              \/ placed[e] = r.zone /\ \E c \in {"ZONE_ALREADY_SET", "ALREADY_ENABLED"} :
                                           rep \in Refusals({c})
            BY <1>2, <2>1 DEF RepliesTo
        <3>3. rep \notin Refusals({"ZONE_CONFLICT"})
            <4>1. err # "ErrZoneConflict"
                BY <3>1
            <4> HIDE DEF err
            <4>2. err = mapError(rep)
                BY DEF err
            <4> QED  BY <4>1, <4>2, RefusalOf, Codes
        <3>4. CASE rep = Ok({})
            <4>1. Effect(r)
                BY <3>4, <1>s, OkMeans
            <4> QED  BY <4>1, <1>2, <2>1, <1>t DEF Effect
        <3>5. CASE \E c \in {"ZONE_ALREADY_SET", "ALREADY_ENABLED"} : rep \in Refusals({c})
            <4>1. rep.name = "exception" /\ rep # Ok({})
                BY <3>5, RefusalOf
            <4> QED  BY <4>1, <3>2, <3>3, <1>u
        <3> QED  BY <3>2, <3>3, <3>4, <3>5
    <2> QED  BY <2>2, <2>3, <2>4
<1>3. CASE r.op = "remove" /\ rep \notin Failures
    <2>1. PICK e \in Element : r.elems = {e}
        BY <1>3 DEF Proper
    <2>2. SaidIn(r, rep) = {}
        BY <1>3 DEF SaidIn
    <2>3. SaidOut(r, rep) \in {{}, {<<e, r.zone>>}}
        BY <1>3, <2>1 DEF SaidOut
    <2>4. placed'[e] # r.zone
        <3>1. \/ rep = Ok({})
              \/ placed[e] # r.zone /\ rep \in Refusals({"NOT_ENABLED"})
            BY <1>3, <2>1 DEF RepliesTo
        <3>2. CASE rep = Ok({})
            <4>1. Effect(r)
                BY <3>2, <1>s, OkMeans
            <4>2. placed'[e] = Nowhere
                BY <4>1, <1>3, <2>1 DEF Effect, Become
            <4> QED  BY <4>2, <1>t, <1>3, ElementOps
        <3>3. CASE rep \in Refusals({"NOT_ENABLED"})
            <4>1. rep.name = "exception" /\ rep # Ok({})
                BY <3>3, RefusalOf
            <4> QED  BY <4>1, <3>1, <1>u
        <3> QED  BY <3>1, <3>2, <3>3
    <2> QED  BY <2>2, <2>3, <2>4
<1>4. CASE r.op = "change" /\ rep \notin Failures
    <2>1. PICK e \in Element : r.elems = {e}
        BY <1>4 DEF Proper
    <2>2. SaidOut(r, rep) = {} /\ SaidIn(r, rep) \in {{}, {<<e, r.zone>>}}
        BY <1>4, <2>1 DEF SaidIn, SaidOut
    <2>3. placed'[e] = r.zone
        <3>1. \/ rep = Ok({})
              \/ placed[e] = r.zone /\ rep \in Refusals({"ZONE_ALREADY_SET"})
            BY <1>4, <2>1 DEF RepliesTo
        <3>2. CASE rep = Ok({})
            <4>1. Effect(r)
                BY <3>2, <1>s, OkMeans
            <4> QED  BY <4>1, <1>4, <2>1 DEF Effect, Become
        <3>3. CASE rep \in Refusals({"ZONE_ALREADY_SET"})
            <4>1. rep.name = "exception" /\ rep # Ok({})
                BY <3>3, RefusalOf
            <4> QED  BY <4>1, <3>1, <1>u
        <3> QED  BY <3>1, <3>2, <3>3
    <2> QED  BY <2>2, <2>3
<1>5. CASE r.op \in {"query", "list", "locate"} /\ rep \notin Failures
    <2>1. PICK S \in SUBSET Element, Z \in {Zone, {r.zone}} :
             /\ rep = Ok(Found(S, Z))
             /\ SaidIn(r, rep) = rep.found
             /\ SaidOut(r, rep) = (S \X Z) \ rep.found
        <3>1. CASE r.op = "query"
            <4>1. rep = Ok(Found(r.elems, {r.zone}))
                BY <1>5, <3>1 DEF RepliesTo
            <4> QED  BY <4>1, <3>1, <1>t, OkMeans DEF SaidIn, SaidOut
        <3>2. CASE r.op = "list"
            <4>1. rep = Ok(Found(Element, {r.zone}))
                BY <1>5, <3>2 DEF RepliesTo
            <4> QED  BY <4>1, <3>2, <1>t, OkMeans DEF SaidIn, SaidOut
        <3>3. CASE r.op = "locate"
            <4>1. rep = Ok(Found(r.elems, Zone))
                BY <1>5, <3>3 DEF RepliesTo
            <4> QED  BY <4>1, <3>3, <1>t, OkMeans DEF SaidIn, SaidOut
        <3> QED  BY <1>5, <3>1, <3>2, <3>3
    <2>2. UNCHANGED placed
        <3>1. Effect(r)
            BY <2>1, <1>s, OkMeans
        <3> QED  BY <3>1, <1>5 DEF Effect, daemonVars
    <2>3. rep.found = {p \in S \X Z : placed[p[1]] = p[2]}
        BY <2>1, OkMeans DEF Found
    <2> QED  BY <2>1, <2>2, <2>3
<1>6. CASE r.op \in {"set", "clear"} /\ rep \notin Failures
    <2>1. rep = Ok({})
        BY <1>6 DEF RepliesTo
    <2>2. Effect(r)
        BY <2>1, <1>s, OkMeans
    <2>3. placed' = [e \in Element |-> IF r.op = "set" /\ e \in r.elems THEN r.zone
                                      ELSE IF placed[e] = r.zone THEN Nowhere ELSE placed[e]]
        BY <2>2, <1>6 DEF Effect, Become
    <2>4. r.zone # Nowhere
        BY <1>6, <1>t, ElementOps
    <2>5. CASE r.op = "set"
        <3>1. /\ SaidIn(r, rep) = r.elems \X {r.zone}
              /\ SaidOut(r, rep) = (Element \ r.elems) \X {r.zone}
            BY <2>1, <2>5, OkMeans DEF SaidIn, SaidOut
        <3>2. /\ \A e \in r.elems : placed'[e] = r.zone
              /\ \A e \in Element \ r.elems : placed'[e] # r.zone
            BY <2>3, <2>4, <2>5, <1>t
        <3> QED  BY <3>1, <3>2
    <2>6. CASE r.op = "clear"
        <3>1. SaidIn(r, rep) = {} /\ SaidOut(r, rep) = Element \X {r.zone}
            BY <2>1, <2>6, OkMeans DEF SaidIn, SaidOut
        <3>2. \A e \in Element : placed'[e] # r.zone
            BY <2>3, <2>4, <2>6
        <3> QED  BY <3>1, <3>2
    <2> QED  BY <1>6, <2>5, <2>6
<1>7. CASE r.op \notin {"add", "remove", "change", "query", "list", "locate", "set", "clear"}
    <2>1. SaidIn(r, rep) = {} /\ SaidOut(r, rep) = {}
        BY <1>7 DEF SaidIn, SaidOut
    <2> QED  BY <2>1
<1> QED  BY <1>1, <1>2, <1>3, <1>4, <1>5, <1>6, <1>7

(***************************************************************************)
(* The caller's knowledge.  The inductive invariant: nothing is claimed    *)
(* while requests are on their way, and what a reply is about to tell is   *)
(* so already.                                                             *)
(***************************************************************************)
Holds(in, out) ==
    /\ \A p \in in : p[1] \notin touched => placed[p[1]] = p[2]
    /\ \A p \in out : p[1] \notin touched => placed[p[1]] # p[2]

Silent == wire # <<>> => said = NothingSaid

Answered ==
    call.at = "answered" =>
        /\ wire = <<>> /\ said = NothingSaid
        /\ Holds(SaidIn(call.req, call.reply), SaidOut(call.req, call.reply))

Knowledge == Silent /\ Answered /\ AnswersHold /\ CausesTold

LEMMA NothingHolds == said = NothingSaid => AnswersHold
BY DEF NothingSaid, AnswersHold

LEMMA InitKnowledge == Init => Knowledge
<1> SUFFICES ASSUME Init PROVE Knowledge
    OBVIOUS
<1>1. call.at = "idle" /\ said = NothingSaid
    BY NothingTyped DEF Init
<1> QED  BY <1>1, NothingHolds DEF Knowledge, Silent, Answered, CausesTold

\* Others' steps change what was claimed only of the elements they touch.
LEMMA OthersTouch ==
    ASSUME TypeOK, Wired, Knowledge, UNCHANGED <<call, said>>, touched \subseteq touched',
           wire' \in {wire, <<>>},
           \A e \in Element : e \in touched' \/ placed'[e] = placed[e]
    PROVE  Knowledge'
<1>1. ASSUME NEW in \in SUBSET (Element \X Zone), NEW out \in SUBSET (Element \X Zone),
             Holds(in, out)
      PROVE  /\ \A p \in in : p[1] \notin touched' => placed'[p[1]] = p[2]
             /\ \A p \in out : p[1] \notin touched' => placed'[p[1]] # p[2]
    BY <1>1 DEF Holds
<1>2. said.in \in SUBSET (Element \X Zone) /\ said.out \in SUBSET (Element \X Zone)
    BY DEF TypeOK
<1>3. AnswersHold'
    <2>1. Holds(said.in, said.out)
        BY DEF Knowledge, AnswersHold, Holds
    <2> QED  BY <2>1, <1>1, <1>2 DEF AnswersHold
<1>4. Answered'
    <2> SUFFICES ASSUME call.at = "answered" PROVE Answered'
        BY DEF Answered
    <2>1. wire = <<>> /\ said = NothingSaid
          /\ Holds(SaidIn(call.req, call.reply), SaidOut(call.req, call.reply))
        BY DEF Knowledge, Answered
    <2>2. SaidIn(call.req, call.reply) \in SUBSET (Element \X Zone)
          /\ SaidOut(call.req, call.reply) \in SUBSET (Element \X Zone)
        BY SaidPartsTyped DEF Wired, TypeOK
    <2> QED  BY <2>1, <2>2, <1>1 DEF Answered, Holds
<1> QED  BY <1>3, <1>4 DEF Knowledge, Silent, CausesTold

LEMMA StepKnowledge ==
    ASSUME TypeOK, Wired, [Next]_vars, Knowledge
    PROVE  Knowledge'
<1>1. CASE Library /\ call.at = "idle"
    <2>1. PICK r \in Request : Send(r)
        BY <1>1, Sent DEF TypeOK
    <2>2. said' = NothingSaid /\ call'.at = "waiting"
        BY <2>1 DEF Send
    <2>3. AnswersHold'
        BY <2>2 DEF AnswersHold, NothingSaid
    <2> QED  BY <2>2, <2>3 DEF Knowledge, Silent, Answered, CausesTold
<1>2. CASE GiveUp
    <2>1. call' = Idle /\ UNCHANGED <<placed, wire, said, touched>>
        BY <1>2 DEF GiveUp, daemonVars
    <2>2. call'.at = "idle"
        BY <2>1, NothingTyped
    <2> QED  BY <2>1, <2>2 DEF Knowledge, Silent, Answered, AnswersHold, CausesTold
<1>3. CASE Return
    <2>1. /\ call.at = "answered" /\ call' = Idle /\ UNCHANGED <<placed, wire, touched>>
          /\ said' = [in |-> SaidIn(call.req, call.reply), out |-> SaidOut(call.req, call.reply)]
        BY <1>3 DEF Return, daemonVars
    <2>2. wire = <<>> /\ Holds(SaidIn(call.req, call.reply), SaidOut(call.req, call.reply))
        BY <2>1 DEF Knowledge, Answered
    <2>3. AnswersHold'
        BY <2>1, <2>2 DEF AnswersHold, Holds
    <2>4. call'.at = "idle"
        BY <2>1, NothingTyped
    <2> QED  BY <2>1, <2>2, <2>3, <2>4 DEF Knowledge, Silent, Answered, CausesTold
<1>4. CASE Serve
    <2> DEFINE r == Head(wire)
    <2>1. PICK rep \in RepliesTo(r) :
             /\ Execute(r, rep)
             /\ call' = IF call.at = "waiting" /\ Len(wire) = 1
                        THEN [call EXCEPT !.at = "answered", !.reply = rep] ELSE call
        BY <1>4 DEF Serve
    <2>2. wire # <<>> /\ wire' = Tail(wire) /\ touched' = {} /\ UNCHANGED said
        BY <1>4 DEF Serve
    <2>3. said = NothingSaid /\ call.at # "answered"
        BY <2>2 DEF Knowledge, Silent, Answered
    <2>4. AnswersHold' /\ Silent'
        BY <2>2, <2>3 DEF AnswersHold, NothingSaid, Silent
    <2>5. CASE call.at = "waiting" /\ Len(wire) = 1
        <3>1. /\ call' = [call EXCEPT !.at = "answered", !.reply = rep]
              /\ call'.req = call.req /\ call'.reply = rep
            BY <2>1, <2>5 DEF TypeOK
        <3>2. r = call.req /\ r \in Request /\ Proper(r)
            BY <2>2, <2>5, HeadServed DEF TypeOK
        <3>3. /\ \A p \in SaidIn(r, rep) : placed'[p[1]] = p[2]
              /\ \A p \in SaidOut(r, rep) : placed'[p[1]] # p[2]
            <4> HIDE DEF r
            <4> QED  BY <2>1, <3>2, AnswerTrue
        <3>4. wire' = <<>>
            BY <2>2, <2>5, HeadServed
        <3>5. Answered'
            BY <3>1, <3>2, <3>3, <3>4, <2>2, <2>3 DEF Answered, Holds
        <3>6. rep.name # "" => mapError(rep) = Sentinel(rep.cause)
            <4> HIDE DEF r
            <4> QED  BY <2>1, <3>2, ReplyMeans
        <3> QED  BY <2>4, <3>1, <3>5, <3>6 DEF Knowledge, CausesTold
    <2>6. CASE ~(call.at = "waiting" /\ Len(wire) = 1)
        BY <2>1, <2>3, <2>4, <2>6 DEF Knowledge, Answered, CausesTold
    <2> QED  BY <2>5, <2>6
<1>5. CASE Tick
    <2>1. UNCHANGED <<call, said, touched, wire, placed>>
        BY <1>5 DEF Tick
    <2> QED  BY <2>1, OthersTouch
<1>6. CASE \E e \in Element : Fire(e)
    <2>1. PICK e \in Element : Fire(e)
        BY <1>6
    <2>2. /\ UNCHANGED <<call, said, wire>> /\ touched' = touched \cup {e}
          /\ placed' = [placed EXCEPT ![e] = Nowhere]
        BY <2>1 DEF Fire, Become
    <2> QED  BY <2>2, OthersTouch DEF TypeOK
<1>7. CASE OutsideEdit
    <2>1. /\ UNCHANGED <<call, said, wire>>
          /\ touched' = touched \cup {e \in Element : placed'[e] # placed[e]}
        BY <1>7 DEF OutsideEdit
    <2> QED  BY <2>1, OthersTouch
<1>8. CASE Restart /\ call.at # "waiting"
    <2>1. UNCHANGED <<call, said>> /\ wire' = <<>> /\ touched' = Element
        BY <1>8 DEF Restart
    <2> QED  BY <2>1, OthersTouch DEF TypeOK
<1>9. CASE Restart /\ call.at = "waiting"
    <2>1. PICK rep \in Failures : call' = [call EXCEPT !.at = "answered", !.reply = rep]
        BY <1>9 DEF Restart
    <2>2. UNCHANGED said /\ wire' = <<>> /\ touched' = Element
        BY <1>9 DEF Restart
    <2>3. wire # <<>> /\ call.req \in Request /\ Proper(call.req)
        BY <1>9 DEF TypeOK, Wired
    <2>4. said = NothingSaid
        BY <2>3 DEF Knowledge, Silent
    <2>5. call'.req = call.req /\ call'.reply = rep
        BY <2>1 DEF TypeOK
    <2>6. rep \in Reply /\ rep.name # "" /\ mapError(rep) = Sentinel(rep.cause)
        BY FailuresTyped, FailureMeans
    <2>7. SaidIn(call.req, rep) \in SUBSET (Element \X Zone)
          /\ SaidOut(call.req, rep) \in SUBSET (Element \X Zone)
        BY <2>3, <2>6, SaidPartsTyped
    <2>8. Answered'
        BY <2>2, <2>4, <2>5, <2>7 DEF Answered, Holds
    <2>9. AnswersHold' /\ Silent' /\ CausesTold'
        BY <2>2, <2>4, <2>5, <2>6 DEF AnswersHold, NothingSaid, Silent, CausesTold
    <2> QED  BY <2>8, <2>9 DEF Knowledge
<1>10. CASE UNCHANGED vars
    <2>1. UNCHANGED <<call, said, touched, wire, placed>>
        BY <1>10 DEF vars
    <2> QED  BY <2>1, OthersTouch
<1>11. Library => call.at = "idle" \/ GiveUp \/ Return
    BY DEF Library, Add, AddUntimed, OnElement, OnAll, SetEntries, Wide, Send
<1> QED
    BY <1>1, <1>2, <1>3, <1>4, <1>5, <1>6, <1>7, <1>8, <1>9, <1>10, <1>11 DEF Next, Daemon

LEMMA KnowledgeAlways == Spec => []Knowledge
BY InitTyped, InitKnowledge, StepTyped, StepKnowledge, PTL DEF Spec

\* What a call's outcome tells the caller of an element is so until others change it, of
\* whatever collection, however many calls it gave up before, and through restarts.
THEOREM AnswersHoldAlways == Spec => []AnswersHold
<1>1. Knowledge => AnswersHold
    BY DEF Knowledge
<1> QED  BY <1>1, KnowledgeAlways, PTL

\* An exception is mapped to the sentinel of the code that was raised, nothing else to any.
THEOREM CausesToldAlways == Spec => []CausesTold
<1>1. Knowledge => CausesTold
    BY DEF Knowledge
<1> QED  BY <1>1, KnowledgeAlways, PTL
===============================================================================
