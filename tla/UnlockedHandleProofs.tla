------------------------- MODULE UnlockedHandleProofs -------------------------
(***************************************************************************)
(* Theorems about UnlockedHandle, for any goroutines, names, objects and   *)
(* paths: callers that take turns as the module says never race, and to    *)
(* them a handle without a mutex is a handle with one.                     *)
(***************************************************************************)
EXTENDS UnlockedHandle, PermHandleProofs

\* What the methods of UnlockedHandle make of one call.
LEMMA UnlockedTracks ==
    ASSUME NEW c \in Caller, Method(c)
    PROVE  Track
<1>1. Step(c) \/ Unsupported(c) \/ UnlockedLookup(c) \/ UnlockedReturn(c)
    BY DEF Method, Step
<1> QED  BY <1>1, StepTracks DEF Unsupported, UnlockedLookup, UnlockedReturn

-------------------------------------------------------------------------------
(***************************************************************************)
(* Type correctness.                                                       *)
(***************************************************************************)
LEMMA UnlockedStepTyped ==
    ASSUME TypeOK, NEW c \in Caller, Method(c)
    PROVE  TypeOK'
<1> USE HandleAssumption
<1>1. Track
    BY UnlockedTracks
<1>2. WellFormed(call[c]) /\ CallTyped /\ RestTyped /\ DaemonTyped
    BY TypeParts DEF CallTyped
<1>3. designated' \subseteq Zone
    BY <1>1 DEF Track
<1>4. UNCHANGED daemonVars => DaemonTyped'
    BY <1>2 DEF DaemonTyped, daemonVars
<1>5. UNCHANGED <<handleVars, orphans>> => RestTyped'
    BY <1>2, <1>3 DEF RestTyped, handleVars
<1>6. CASE Step(c)
    BY <1>1, <1>6, StepTyped
<1>7. CASE Unsupported(c)
    BY <1>4, <1>5, <1>7, FinishTyped, TypePartsNext DEF Unsupported
<1>8. CASE UnlockedLookup(c)
    <2> DEFINE v == [call[c] EXCEPT !.at = "lookup", !.key = name]
    <2>1. WellFormed(v)
        BY <1>2 DEF WellFormed, CallRecord, Stage, RestTyped
    <2>2. call' = [call EXCEPT ![c] = v]
        BY <1>8 DEF UnlockedLookup
    <2>3. CallTyped'
        BY <2>1, <2>2, CallUpdateTyped
    <2> QED  BY <1>4, <1>5, <1>8, <2>3, TypePartsNext DEF UnlockedLookup
<1>9. CASE UnlockedReturn(c)
    <2>1. CASE call[c].target = NoPath
        <3>1. Finish(c) /\ UNCHANGED path
            BY <1>9, <2>1 DEF UnlockedReturn
        <3>2. RestTyped'
            BY <1>2, <1>3, <1>9, <3>1 DEF UnlockedReturn, RestTyped
        <3> QED  BY <1>4, <1>9, <3>1, <3>2, FinishTyped, TypePartsNext DEF UnlockedReturn
    <2>2. CASE call[c].target # NoPath
        <3> DEFINE v == [call[c] EXCEPT !.at = "call", !.key = NoName]
        <3>1. WellFormed(v)
            BY <1>2, <2>2 DEF WellFormed, CallRecord, Stage
        <3>2. call' = [call EXCEPT ![c] = v] /\ path' = call[c].target
            BY <1>9, <2>2 DEF UnlockedReturn
        <3>3. CallTyped'
            BY <3>1, <3>2, CallUpdateTyped
        <3>4. RestTyped'
            BY <1>2, <1>3, <1>9, <3>2 DEF UnlockedReturn, RestTyped, WellFormed, CallRecord
        <3> QED  BY <1>4, <1>9, <3>3, <3>4, TypePartsNext DEF UnlockedReturn
    <2> QED  BY <2>1, <2>2
<1>10. Step(c) \/ Unsupported(c) \/ UnlockedLookup(c) \/ UnlockedReturn(c)
    BY DEF Method, Step
<1> QED  BY <1>6, <1>7, <1>8, <1>9, <1>10

LEMMA UnlockedNextTyped == TypeOK /\ [UnlockedNext]_unlockedVars => TypeOK'
<1> SUFFICES ASSUME TypeOK, [UnlockedNext]_unlockedVars PROVE TypeOK'
    OBVIOUS
<1>1. CASE UNCHANGED vars
    BY <1>1, NextTyped
<1>2. CASE Environment
    BY <1>2, EnvironmentTracks, EnvironmentTyped
<1>3. CASE \E c \in Caller : Method(c)
    BY <1>3, UnlockedStepTyped
<1> QED  BY <1>1, <1>2, <1>3 DEF UnlockedNext, StartName, EndName, unlockedVars

-------------------------------------------------------------------------------
(***************************************************************************)
(* Callers that keep to the rules do not race.                             *)
(***************************************************************************)
Busy(c) == call[c].at # "idle"
Looking(c) == call[c].at \in {"lookup", "looked"}

\* Without a mutex, calls overlap only on a cached path and never with a Rename, so that
\* who looks up or installs is alone.
TurnsTaken ==
    /\ \A c \in Caller : Looking(c) => path = NoPath
    /\ \A c, d \in Caller : c # d /\ Busy(c) /\ Busy(d) =>
            path # NoPath /\ call[c].op # "rename" /\ call[d].op # "rename"

\* Nobody renames while somebody asks for the name, which only zone handles have.
NamesApart ==
    /\ naming # {} => kind = "zone" /\ NoRename
    /\ kind \in AllKinds

RaceInv ==
    /\ TypeOK
    /\ NamesApart
    /\ kind # "zone" => mu = Nobody /\ TurnsTaken

\* What a call's step does to the other calls, and to its own operation.
LEMMA MethodLocal ==
    ASSUME TypeOK, NEW c \in Caller, Method(c)
    PROVE  /\ \A d \in Caller \ {c} : call'[d] = call[d]
           /\ call'[c].op = "rename" => call[c].op = "rename" \/ MayRename(c)
<1>1. /\ call \in [Caller -> CallRecord]
      /\ call[c] \in CallRecord
    BY DEF TypeOK
<1>2. \A d \in Caller \ {c} : call'[d] = call[d]
    BY <1>1 DEF Method, Unsupported, UnlockedLookup, UnlockedReturn, Edit, Rename, Remove,
        ResolveCached, ResolveLookup, ServeLookup, ResolveReturn, Serve, Return, Install,
        ExpireLookup, Expire, Goto, Finish
<1>3. CASE ~MayRename(c)
    <2>1. call'[c].op \in {call[c].op, "edit", "remove"}
        BY <1>1, <1>3 DEF Method, Unsupported, UnlockedLookup, UnlockedReturn, Edit, Remove,
            ResolveCached, ResolveLookup, ServeLookup, ResolveReturn, Serve, Return, Install,
            ExpireLookup, Expire, Goto, Finish, Idle, CallRecord
    <2> QED  BY <1>2, <2>1
<1> QED  BY <1>2, <1>3

LEMMA MethodNames ==
    ASSUME TypeOK, NamesApart, NEW c \in Caller, Method(c), UNCHANGED <<kindVars, naming>>
    PROVE  NamesApart'
<1>1. CASE naming = {}
    BY <1>1 DEF NamesApart, kindVars
<1>2. CASE naming # {}
    <2>1. ~MayRename(c)
        BY <1>2 DEF MayRename
    <2>2. \A d \in Caller : call'[d].op = "rename" => call[d].op = "rename"
        BY <2>1, MethodLocal
    <2> QED  BY <1>2, <2>2 DEF NamesApart, NoRename, kindVars
<1> QED  BY <1>1, <1>2

LEMMA MethodTurns ==
    ASSUME TypeOK, kind # "zone", mu = Nobody, TurnsTaken, NEW c \in Caller, Method(c)
    PROVE  mu' = Nobody /\ TurnsTaken'
<1>1. /\ call \in [Caller -> CallRecord]
      /\ call[c] \in CallRecord
      /\ call[c].at = "install" => call[c].op = "rename"
    BY DEF TypeOK
<1>2. \A d \in Caller \ {c} : call'[d] = call[d]
    BY MethodLocal
<1>3. CASE MayCall(c) /\ (Edit(c) \/ Remove(c))
    <2>1. UNCHANGED handleVars /\ call'[c].at = "lock"
        BY <1>1, <1>3 DEF Edit, Remove, Goto, CallRecord
    <2>2. call'[c].op \in {call[c].op, "remove"}
        BY <1>1, <1>3 DEF Edit, Remove, Goto, CallRecord
    <2>3. CASE Alone(c)
        BY <1>2, <2>1, <2>3 DEF TurnsTaken, Busy, Looking, Alone, handleVars
    <2>4. CASE path # NoPath /\ NoRename
        BY <1>2, <2>1, <2>2, <2>4 DEF TurnsTaken, Busy, Looking, NoRename, handleVars
    <2> QED  BY <1>3, <2>3, <2>4 DEF MayCall
<1>4. CASE MayRename(c) /\ \E n \in Name : Rename(c, n)
    <2>1. UNCHANGED handleVars /\ call'[c].at = "lock"
        BY <1>1, <1>4 DEF Rename, CallRecord
    <2> QED  BY <1>2, <1>4, <2>1 DEF MayRename, TurnsTaken, Busy, Looking, Alone, handleVars
<1>5. CASE Finish(c) /\ path' = path /\ mu' = Nobody
    <2>1. call'[c].at = "idle"
        BY <1>1, <1>5 DEF Finish, Idle
    <2> QED  BY <1>2, <1>5, <2>1 DEF TurnsTaken, Busy, Looking
<1>6. CASE ResolveCached(c) \/ UnlockedLookup(c) \/ ServeLookup(c) \/ Serve(c)
    <2>1. UNCHANGED handleVars /\ call'[c].op = call[c].op /\ Busy(c)
        BY <1>1, <1>6 DEF ResolveCached, UnlockedLookup, ServeLookup, Serve, Goto, Busy, CallRecord
    <2>2. call'[c].at \in {"lookup", "looked"} => path = NoPath
        BY <1>1, <1>6 DEF ResolveCached, UnlockedLookup, ServeLookup, Serve, Goto, CallRecord,
            TurnsTaken, Looking
    <2> QED  BY <1>2, <2>1, <2>2 DEF TurnsTaken, Busy, Looking, handleVars
<1>7. CASE Return(c)
    <2>1. CASE Finish(c)
        BY <1>5, <1>7, <2>1 DEF Return, handleVars
    <2>2. CASE Goto(c, "install")
        <3>1. UNCHANGED handleVars /\ call'[c].op = call[c].op /\ Busy(c) /\ call'[c].at = "install"
            BY <1>1, <1>7, <2>2 DEF Return, Goto, Busy, CallRecord
        <3> QED  BY <1>2, <3>1 DEF TurnsTaken, Busy, Looking, handleVars
    <2> QED  BY <1>7, <2>1, <2>2 DEF Return
<1>8. CASE UnlockedReturn(c)
    <2>1. CASE call[c].target = NoPath
        BY <1>5, <1>8, <2>1 DEF UnlockedReturn
    <2>2. CASE call[c].target # NoPath
        <3>1. mu' = Nobody /\ path' # NoPath /\ call'[c].at = "call"
            BY <1>1, <1>8, <2>2 DEF UnlockedReturn, CallRecord
        <3>2. \A d \in Caller \ {c} : ~Busy(d)
            BY <1>8 DEF UnlockedReturn, TurnsTaken, Looking, Busy
        <3> QED  BY <1>2, <3>1, <3>2 DEF TurnsTaken, Busy, Looking
    <2> QED  BY <2>1, <2>2
<1>9. CASE Install(c)
    <2>1. \A d \in Caller \ {c} : ~Busy(d)
        BY <1>1, <1>9 DEF Install, TurnsTaken, Busy
    <2>2. call'[c].at = "idle" /\ mu' = Nobody
        BY <1>1, <1>9 DEF Install, Finish, Idle
    <2> QED  BY <1>2, <2>1, <2>2 DEF TurnsTaken, Busy, Looking
<1>10. CASE Unsupported(c) \/ ExpireLookup(c) \/ Expire(c)
    BY <1>5, <1>10 DEF Unsupported, ExpireLookup, Expire, handleVars
<1> QED  BY <1>3, <1>4, <1>6, <1>7, <1>8, <1>9, <1>10 DEF Method

LEMMA NextRace == RaceInv /\ [UnlockedNext]_unlockedVars => RaceInv'
<1> SUFFICES ASSUME RaceInv, [UnlockedNext]_unlockedVars PROVE RaceInv'
    OBVIOUS
<1>1. TypeOK'
    BY UnlockedNextTyped DEF RaceInv
<1>2. UNCHANGED <<handleVars, call>> /\ UNCHANGED kindVars =>
        /\ kind # "zone" => mu' = Nobody /\ TurnsTaken'
        /\ kind' = kind
    BY DEF RaceInv, TurnsTaken, Busy, Looking, handleVars, kindVars
<1>3. CASE (Environment \/ UNCHANGED vars) /\ UNCHANGED <<kindVars, naming>>
    <2>1. UNCHANGED <<handleVars, call>>
        BY <1>3, EnvironmentLocal DEF vars, handleVars
    <2> QED  BY <1>1, <1>2, <1>3, <2>1 DEF RaceInv, NamesApart, NoRename, kindVars
<1>4. ASSUME NEW c \in Caller, StartName(c) \/ EndName(c) PROVE RaceInv'
    <2>1. UNCHANGED <<handleVars, call>> /\ UNCHANGED kindVars
        BY <1>4 DEF StartName, EndName, vars, handleVars
    <2>2. NamesApart'
        BY <1>4, <2>1 DEF StartName, EndName, RaceInv, NamesApart, NoRename, kindVars
    <2> QED  BY <1>1, <1>2, <2>1, <2>2 DEF RaceInv
<1>5. ASSUME NEW c \in Caller, Method(c), UNCHANGED <<kindVars, naming>> PROVE RaceInv'
    BY <1>1, <1>5, MethodNames, MethodTurns DEF RaceInv, kindVars
<1> QED  BY <1>3, <1>4, <1>5 DEF UnlockedNext, unlockedVars

LEMMA InitRace == UnlockedInit => RaceInv
<1> SUFFICES ASSUME UnlockedInit PROVE RaceInv
    OBVIOUS
<1>1. TypeOK
    BY InitTyped DEF UnlockedInit
<1>2. \A c \in Caller : call[c].at = "idle"
    BY DEF UnlockedInit, Init, Idle
<1> QED  BY <1>1, <1>2, KindAssumption
         DEF UnlockedInit, Init, RaceInv, NamesApart, TurnsTaken, Busy, Looking

LEMMA RaceInvariant == UnlockedSpec => []RaceInv
BY InitRace, NextRace, PTL DEF UnlockedSpec

\* Callers that keep to the rules never race on a handle's name and path, although five of
\* the six kinds of handle have no mutex and the sixth reads its name without it.
THEOREM RaceFree == UnlockedSpec => []NoRace
<1>1. RaceInv => NoRace
    BY DEF RaceInv, TypeOK, NamesApart, NoRename, TurnsTaken, Busy, Looking, NoRace, Reads,
        Writes
<1> QED  BY <1>1, RaceInvariant, PTL

-------------------------------------------------------------------------------
(***************************************************************************)
(* A handle without mutex implements one with a mutex.                     *)
(***************************************************************************)

\* A policy handle on a server without policies never gets past resolve; the history is
\* up to date.
Gated == ~Available => \A c \in Caller : call[c].at \in {"idle", "lock"}

Tracked ==
    /\ NameDesignated
    /\ \A z \in designated : nameOf[z] # NoName

MapInv == RaceInv /\ Gated /\ Tracked

LEMMA NextTracked ==
    ASSUME TypeOK, TypeOK', Tracked, [UnlockedNext]_unlockedVars
    PROVE  Tracked'
<1>1. CASE Track
    <2>1. name' # NoName
        BY HandleAssumption DEF TypeOK
    <2> QED  BY <1>1, <2>1 DEF Tracked, NameDesignated, Track
<1>2. CASE UNCHANGED vars
    BY <1>2 DEF Tracked, NameDesignated, vars
<1> QED  BY <1>1, <1>2, UnlockedTracks, EnvironmentTracks
         DEF UnlockedNext, StartName, EndName, unlockedVars

LEMMA NextGated ==
    ASSUME TypeOK, Gated, [UnlockedNext]_unlockedVars
    PROVE  Gated'
<1>1. CASE UNCHANGED call /\ UNCHANGED kindVars
    BY <1>1 DEF Gated, Available, kindVars
<1>2. ASSUME NEW c \in Caller, Method(c), UNCHANGED kindVars PROVE Gated'
    <2>1. call \in [Caller -> CallRecord]
        BY DEF TypeOK
    <2>2. \A d \in Caller \ {c} : call'[d] = call[d]
        BY <1>2, MethodLocal
    <2>3. ASSUME ~Available, call[c].at \in {"idle", "lock"}
          PROVE  call'[c].at \in {"idle", "lock"}
        <3>1. kind # "zone"
            BY <2>3 DEF Available
        <3>2. Edit(c) \/ Remove(c) \/ (\E n \in Name : Rename(c, n)) \/ Unsupported(c)
            BY <1>2, <2>3, <3>1 DEF Method, UnlockedLookup, UnlockedReturn, ServeLookup, Serve,
                Return, Install, ExpireLookup, Expire
        <3>3. call[c] \in CallRecord
            BY <2>1
        <3> QED  BY <2>1, <3>2, <3>3 DEF Edit, Remove, Rename, Unsupported, Goto, Finish, Idle,
                    CallRecord
    <2> QED  BY <1>2, <2>2, <2>3 DEF Gated, Available, kindVars
<1> QED  BY <1>1, <1>2, EnvironmentLocal
         DEF UnlockedNext, StartName, EndName, unlockedVars, vars

LEMMA MapInvariant == UnlockedSpec => []MapInv
<1>1. UnlockedInit => MapInv
    <2> SUFFICES ASSUME UnlockedInit PROVE MapInv
        OBVIOUS
    <2>1. Gated
        BY DEF UnlockedInit, Init, Gated, Idle
    <2>2. Tracked
        BY HandleAssumption DEF UnlockedInit, Init, Tracked, NameDesignated
    <2> QED  BY <2>1, <2>2, InitRace DEF MapInv
<1>2. MapInv /\ [UnlockedNext]_unlockedVars => MapInv'
    BY NextRace, NextTracked, NextGated DEF MapInv, RaceInv
<1> QED  BY <1>1, <1>2, PTL DEF UnlockedSpec

\* Who holds the mutex there would be.
LEMMA NoHolder ==
    ASSUME kind # "zone", \A c \in Caller : ~Looking(c)
    PROVE  Holder = Nobody
BY DEF Holder, Looking

LEMMA OneHolder ==
    ASSUME kind # "zone", NEW c \in Caller, Looking(c),
           \A d \in Caller \ {c} : ~Looking(d)
    PROVE  Holder = c
<1>1. \E d \in Caller : call[d].at \in {"lookup", "looked"}
    BY DEF Looking
<1>2. (CHOOSE d \in Caller : call[d].at \in {"lookup", "looked"}) = c
    BY <1>1 DEF Looking
<1> QED  BY <1>1, <1>2 DEF Holder

LEMMA NoHolderNext ==
    ASSUME kind' # "zone", \A c \in Caller : ~Looking(c)'
    PROVE  Holder' = Nobody
BY DEF Holder, Looking

LEMMA OneHolderNext ==
    ASSUME kind' # "zone", NEW c \in Caller, Looking(c)',
           \A d \in Caller \ {c} : ~Looking(d)'
    PROVE  Holder' = c
<1>1. \E d \in Caller : call'[d].at \in {"lookup", "looked"}
    BY DEF Looking
<1>2. (CHOOSE d \in Caller : call'[d].at \in {"lookup", "looked"}) = c
    BY <1>1 DEF Looking
<1> QED  BY <1>1, <1>2 DEF Holder

LEMMA LookersApart ==
    ASSUME TurnsTaken, NEW c \in Caller, Looking(c)
    PROVE  \A d \in Caller \ {c} : ~Busy(d) /\ ~Looking(d)
BY DEF TurnsTaken, Busy, Looking

LEMMA HolderStays ==
    ASSUME RaceInv, UNCHANGED kindVars,
           kind = "zone" => mu' = mu,
           kind # "zone" => \A c \in Caller : Looking(c)' <=> Looking(c)
    PROVE  Holder' = Holder
<1>1. kind' = kind
    BY DEF kindVars
<1>2. CASE kind = "zone"
    BY <1>1, <1>2 DEF Holder
<1>3. CASE kind # "zone" /\ \A c \in Caller : ~Looking(c)
    BY <1>1, <1>3, NoHolder, NoHolderNext
<1>4. ASSUME kind # "zone", NEW c \in Caller, Looking(c) PROVE Holder' = Holder
    <2>1. \A d \in Caller \ {c} : ~Looking(d)
        BY <1>4, LookersApart DEF RaceInv
    <2>2. Holder = c
        BY <1>4, <2>1, OneHolder
    <2>3. Holder' = c
        BY <1>1, <1>4, <2>1, OneHolderNext
    <2> QED  BY <2>2, <2>3
<1> QED  BY <1>2, <1>3, <1>4

\* How the steps of a method move the mutex there would be.
Takes(c) == (kind = "zone" /\ ResolveLookup(c)) \/ (kind # "zone" /\ UnlockedLookup(c))
Releases(c) ==
    \/ kind = "zone" /\ ResolveReturn(c)
    \/ kind # "zone" /\ UnlockedReturn(c)
    \/ ExpireLookup(c)
Needs(c) == ResolveCached(c) \/ Install(c)
Leaves(c) ==
    \/ Edit(c) \/ Remove(c) \/ \E n \in Name : Rename(c, n)
    \/ ServeLookup(c) \/ Serve(c) \/ Return(c) \/ Expire(c)

LEMMA MethodParts ==
    ASSUME NEW c \in Caller, Method(c), Available
    PROVE  Takes(c) \/ Releases(c) \/ Needs(c) \/ Leaves(c)
BY DEF Method, Unsupported, Takes, Releases, Needs, Leaves

LEMMA HolderTaken ==
    ASSUME RaceInv, NEW c \in Caller, Takes(c), UNCHANGED kindVars
    PROVE  Holder = Nobody /\ Holder' = c
<1>1. CASE kind = "zone"
    BY <1>1 DEF Takes, ResolveLookup, Holder, kindVars
<1>2. CASE kind # "zone"
    <2>1. /\ call[c].at = "lock" /\ path = NoPath
          /\ call' = [call EXCEPT ![c].at = "lookup", ![c].key = name]
        BY <1>2 DEF Takes, UnlockedLookup
    <2>2. call \in [Caller -> CallRecord] /\ call[c] \in CallRecord
        BY DEF RaceInv, TypeOK
    <2>3. \A d \in Caller : ~Looking(d)
        BY <1>2, <2>1 DEF RaceInv, TurnsTaken, Busy, Looking
    <2>4. Looking(c)' /\ \A d \in Caller \ {c} : ~Looking(d)'
        BY <2>1, <2>2, <2>3 DEF Looking, CallRecord
    <2> QED  BY <1>2, <2>3, <2>4, NoHolder, OneHolderNext DEF kindVars
<1> QED  BY <1>1, <1>2

LEMMA HolderReleased ==
    ASSUME RaceInv, NEW c \in Caller, Releases(c), UNCHANGED kindVars
    PROVE  Holder' = Nobody
<1>1. CASE kind = "zone"
    BY <1>1 DEF Releases, ResolveReturn, ExpireLookup, Holder, kindVars
<1>2. CASE kind # "zone"
    <2>1. UnlockedReturn(c) \/ ExpireLookup(c)
        BY <1>2 DEF Releases
    <2>2. call \in [Caller -> CallRecord] /\ call[c] \in CallRecord
        BY DEF RaceInv, TypeOK
    <2>3. \A d \in Caller \ {c} : ~Looking(d)
        BY <1>2, <2>1, LookersApart DEF RaceInv, UnlockedReturn, ExpireLookup, Looking
    <2>4. \A d \in Caller : ~Looking(d)'
        BY <2>1, <2>2, <2>3 DEF UnlockedReturn, ExpireLookup, Finish, Idle, Looking, CallRecord
    <2> QED  BY <1>2, <2>4, NoHolderNext DEF kindVars
<1> QED  BY <1>1, <1>2

LEMMA HolderNeeded ==
    ASSUME RaceInv, NEW c \in Caller, Needs(c), UNCHANGED kindVars
    PROVE  Holder = Nobody /\ Holder' = Nobody
<1>1. CASE kind = "zone"
    BY <1>1 DEF Needs, ResolveCached, Install, Holder, kindVars, handleVars
<1>2. CASE kind # "zone"
    <2>1. /\ call \in [Caller -> CallRecord] /\ call[c] \in CallRecord
          /\ call[c].at = "install" => call[c].op = "rename"
        BY DEF RaceInv, TypeOK
    <2>2. \A d \in Caller : ~Looking(d)
        <3>1. CASE ResolveCached(c)
            BY <1>2, <3>1 DEF ResolveCached, RaceInv, TurnsTaken
        <3>2. CASE Install(c)
            BY <1>2, <2>1, <3>2 DEF Install, RaceInv, TurnsTaken, Busy, Looking
        <3> QED  BY <3>1, <3>2 DEF Needs
    <2>3. \A d \in Caller : ~Looking(d)'
        BY <2>1, <2>2 DEF Needs, ResolveCached, Install, Finish, Idle, Looking, CallRecord
    <2> QED  BY <1>2, <2>2, <2>3, NoHolder, NoHolderNext DEF kindVars
<1> QED  BY <1>1, <1>2

LEMMA HolderLeft ==
    ASSUME RaceInv, NEW c \in Caller, Leaves(c), UNCHANGED kindVars
    PROVE  Holder' = Holder
<1>1. call \in [Caller -> CallRecord] /\ call[c] \in CallRecord
    BY DEF RaceInv, TypeOK
<1>2. mu' = mu
    BY DEF Leaves, Edit, Remove, Rename, ServeLookup, Serve, Return, Expire, handleVars
<1>3. \A d \in Caller : Looking(d)' <=> Looking(d)
    BY <1>1 DEF Leaves, Edit, Remove, Rename, ServeLookup, Serve, Return, Expire, Goto, Finish,
        Idle, Looking, CallRecord
<1> QED  BY <1>2, <1>3, HolderStays

\* A request's execution, and the history, are the same in both.
LEMMA SameExecute == ASSUME NEW r PROVE Locked!Execute(r) <=> Execute(r)
BY DEF Locked!Execute, Execute, Locked!RenameZone, RenameZone, Locked!RemoveZone, RemoveZone,
    Locked!NameFree, NameFree, Locked!daemonVars, daemonVars

LEMMA SameTrack == Locked!Track <=> Track
BY DEF Locked!Track, Track

\* The steps that leave the mutex alone.
LEMMA MapLeaves ==
    ASSUME NEW c \in Caller, Leaves(c), Calls = call, Calls' = call', Holder' = Holder
    PROVE  Locked!Step(c)
<1> USE DEF Locked!Idle, Idle, Locked!handleVars, handleVars, Locked!daemonVars, daemonVars,
        Locked!Goto, Goto, Locked!Finish, Finish
<1>1. CASE Edit(c)
    BY <1>1, SameTrack DEF Edit, Locked!Edit, Locked!Step
<1>2. CASE Remove(c)
    BY <1>2, SameTrack DEF Remove, Locked!Remove, Locked!Step
<1>3. ASSUME NEW n \in Name, Rename(c, n) PROVE Locked!Step(c)
    BY <1>3, SameTrack DEF Rename, Locked!Rename, Locked!Step
<1>4. CASE ServeLookup(c)
    BY <1>4, SameTrack DEF ServeLookup, Locked!ServeLookup, Locked!Step
<1>5. CASE Serve(c)
    <2>1. Locked!RequestOf(c) = RequestOf(c)
        BY DEF Locked!RequestOf, RequestOf
    <2> QED  BY <1>5, <2>1, SameTrack, SameExecute DEF Serve, Locked!Serve, Locked!Step
<1>6. CASE Return(c)
    BY <1>6, SameTrack DEF Return, Locked!Return, Locked!Step
<1>7. CASE Expire(c)
    <2>1. Locked!RequestOf(c) = RequestOf(c)
        BY DEF Locked!RequestOf, RequestOf
    <2>2. Locked!Cardinality(orphans) = Cardinality(orphans)
        BY DEF Locked!Cardinality, Cardinality
    <2> QED  BY <1>7, <2>1, <2>2, SameTrack DEF Expire, Locked!Expire, Locked!Step
<1> QED  BY <1>1, <1>2, <1>3, <1>4, <1>5, <1>6, <1>7 DEF Leaves

\* Those that take it, release it or need it free.
LEMMA MapOthers ==
    ASSUME NEW c \in Caller, Calls = call, Calls' = call',
           Takes(c) => Holder = Nobody /\ Holder' = c,
           Releases(c) => Holder' = Nobody,
           Needs(c) => Holder = Nobody /\ Holder' = Nobody,
           Takes(c) \/ Releases(c) \/ Needs(c)
    PROVE  Locked!Step(c)
<1> USE DEF Locked!Idle, Idle, Locked!handleVars, handleVars, Locked!daemonVars, daemonVars,
        Locked!Finish, Finish
<1>1. CASE Takes(c)
    BY <1>1, SameTrack DEF Takes, ResolveLookup, UnlockedLookup, Locked!ResolveLookup,
        Locked!Step
<1>2. CASE ExpireLookup(c)
    BY <1>2, SameTrack DEF ExpireLookup, Releases, Locked!ExpireLookup, Locked!Step
<1>3. CASE Releases(c) /\ (ResolveReturn(c) \/ UnlockedReturn(c))
    BY <1>3, SameTrack DEF ResolveReturn, UnlockedReturn, Locked!ResolveReturn, Locked!Step
<1>4. CASE ResolveCached(c)
    BY <1>4, SameTrack DEF Needs, ResolveCached, Locked!ResolveCached, Locked!Step
<1>5. CASE Install(c)
    BY <1>5, SameTrack DEF Needs, Install, Locked!Install, Locked!Step
<1> QED  BY <1>1, <1>2, <1>3, <1>4, <1>5 DEF Releases, Needs

LEMMA MapEnvironment ==
    ASSUME Environment, Calls' = Calls, Holder' = Holder
    PROVE  Locked!Environment
<1> USE SameTrack DEF Locked!handleVars, handleVars, Locked!daemonVars, daemonVars
<1>1. CASE ServeOrphan
    BY <1>1, SameExecute DEF ServeOrphan, Locked!ServeOrphan, Locked!Environment
<1>2. CASE OutsideAdd
    BY <1>2 DEF OutsideAdd, Locked!OutsideAdd, AddZone, Locked!AddZone, NameFree,
        Locked!NameFree, Locked!Environment
<1>3. CASE OutsideRemove
    BY <1>3 DEF OutsideRemove, Locked!OutsideRemove, RemoveZone, Locked!RemoveZone,
        Locked!Environment
<1>4. CASE OutsideRename
    BY <1>4 DEF OutsideRename, Locked!OutsideRename, RenameZone, Locked!RenameZone, NameFree,
        Locked!NameFree, Locked!Environment
<1>5. CASE Reexport
    BY <1>5 DEF Reexport, Locked!Reexport, Locked!Environment
<1> QED  BY <1>1, <1>2, <1>3, <1>4, <1>5 DEF Environment

\* A method on a server without the object's kind changes nothing.
LEMMA GatedStutters ==
    ASSUME TypeOK, Gated, Tracked, ~Available, NEW c \in Caller, Method(c)
    PROVE  UNCHANGED <<handleVars, orphans, daemonVars, designated>>
<1>1. kind # "zone" /\ call[c].at \in {"idle", "lock"}
    BY DEF Available, Gated
<1>2. Edit(c) \/ Remove(c) \/ (\E n \in Name : Rename(c, n)) \/ Unsupported(c)
    BY <1>1 DEF Method, UnlockedLookup, UnlockedReturn, ServeLookup, Serve,
        Return, Install, ExpireLookup, Expire
<1>3. UNCHANGED <<handleVars, orphans, daemonVars>> /\ Track
    BY <1>2 DEF Edit, Remove, Rename, Unsupported
<1>4. designated' = designated
    BY <1>3 DEF Track, TypeOK, Tracked, NameDesignated, handleVars, daemonVars
<1> QED  BY <1>3, <1>4

LEMMA MapNext ==
    ASSUME MapInv, MapInv', [UnlockedNext]_unlockedVars
    PROVE  [Locked!Next]_Locked!vars
<1>1. kindVars' = kindVars /\ (Available' <=> Available)
    BY DEF UnlockedNext, StartName, EndName, unlockedVars, kindVars, Available
<1>2. CASE UNCHANGED vars
    <2>1. Holder' = Holder
        BY <1>1, <1>2, HolderStays DEF vars, Looking, MapInv
    <2>2. Calls' = Calls
        BY <1>1, <1>2 DEF vars, Calls
    <2> QED  BY <1>2, <2>1, <2>2 DEF vars, Locked!vars
<1>3. CASE Environment
    <2>1. UNCHANGED <<handleVars, call>>
        BY <1>3, EnvironmentLocal
    <2>2. Holder' = Holder
        BY <1>1, <2>1, HolderStays DEF handleVars, Looking, MapInv
    <2>3. Calls' = Calls
        BY <1>1, <2>1 DEF Calls
    <2> QED  BY <1>3, <2>2, <2>3, MapEnvironment DEF Locked!Next
<1>4. ASSUME NEW c \in Caller, Method(c), Available PROVE Locked!Next
    <2>1. Calls = call /\ Calls' = call'
        BY <1>1, <1>4 DEF Calls
    <2>2. Takes(c) \/ Releases(c) \/ Needs(c) \/ Leaves(c)
        BY <1>4, MethodParts
    <2>3. CASE Leaves(c)
        BY <1>1, <2>1, <2>3, HolderLeft, MapLeaves DEF MapInv, Locked!Next
    <2>4. CASE Takes(c) \/ Releases(c) \/ Needs(c)
        <3>1. /\ Takes(c) => Holder = Nobody /\ Holder' = c
              /\ Releases(c) => Holder' = Nobody
              /\ Needs(c) => Holder = Nobody /\ Holder' = Nobody
            BY <1>1, HolderTaken, HolderReleased, HolderNeeded DEF MapInv
        <3> QED  BY <2>1, <2>4, <3>1, MapOthers DEF Locked!Next
    <2> QED  BY <2>2, <2>3, <2>4
<1>5. ASSUME NEW c \in Caller, Method(c), ~Available PROVE UNCHANGED Locked!vars
    <2>1. UNCHANGED <<handleVars, orphans, daemonVars, designated>>
        BY <1>5, GatedStutters DEF MapInv, RaceInv
    <2>2. \A d \in Caller : ~Looking(d) /\ ~Looking(d)'
        BY <1>1, <1>5 DEF MapInv, Gated, Looking
    <2>3. kind # "zone"
        BY <1>5 DEF Available
    <2>4. Holder' = Holder
        BY <1>1, <2>2, <2>3, HolderStays DEF MapInv
    <2>5. Calls' = Calls
        BY <1>1, <1>5 DEF Calls, Locked!Idle
    <2> QED  BY <2>1, <2>4, <2>5 DEF Locked!vars, handleVars, daemonVars
<1> QED  BY <1>2, <1>3, <1>4, <1>5 DEF UnlockedNext, StartName, EndName, unlockedVars

LEMMA MapInit == UnlockedInit => Locked!Init
<1> SUFFICES ASSUME UnlockedInit PROVE Locked!Init
    OBVIOUS
<1>1. Calls = [c \in Caller |-> Locked!Idle]
    BY DEF UnlockedInit, Init, Calls, Idle, Locked!Idle
<1>2. Holder = Nobody
    BY NoHolder DEF UnlockedInit, Init, Holder, Looking, Idle
<1> QED  BY <1>1, <1>2 DEF UnlockedInit, Init, Locked!Init

\* Of callers that keep to the rules, a handle without mutex is one with a mutex: whoever
\* looks up holds it.  What PermHandle says of zone handles holds of every kind.
THEOREM HandlesImplementLocked == UnlockedSpec => ImplementsLocked
<1>1. MapInv /\ MapInv' /\ [UnlockedNext]_unlockedVars => [Locked!Next]_Locked!vars
    BY MapNext
<1> QED  BY <1>1, MapInit, MapInvariant, PTL DEF UnlockedSpec, ImplementsLocked, Locked!Spec

-------------------------------------------------------------------------------
(***************************************************************************)
(* What is proved of the handle with a mutex, carried over to every kind.  *)
(***************************************************************************)
Proved == INSTANCE PermHandleProofs WITH mu <- Holder, call <- Calls

LEMMA SameSteps ==
    /\ Locked!Init <=> Proved!Init
    /\ Locked!Next <=> Proved!Next
    /\ Locked!vars = Proved!vars
<1> USE DEF Locked!Idle, Proved!Idle, Locked!Track, Proved!Track, Locked!Goto, Proved!Goto,
        Locked!Finish, Proved!Finish, Locked!handleVars, Proved!handleVars,
        Locked!daemonVars, Proved!daemonVars
<1>1. Locked!Init <=> Proved!Init
    BY DEF Locked!Init, Proved!Init
<1>2. ASSUME NEW r PROVE Locked!Execute(r) <=> Proved!Execute(r)
    BY DEF Locked!Execute, Proved!Execute, Locked!RenameZone, Proved!RenameZone,
        Locked!RemoveZone, Proved!RemoveZone, Locked!NameFree, Proved!NameFree
<1>3. ASSUME NEW c \in Caller PROVE Locked!Step(c) <=> Proved!Step(c)
    <2>1. Locked!Serve(c) <=> Proved!Serve(c)
        BY <1>2 DEF Locked!Serve, Proved!Serve, Locked!RequestOf, Proved!RequestOf
    <2>2. Locked!Expire(c) <=> Proved!Expire(c)
        BY DEF Locked!Expire, Proved!Expire, Locked!RequestOf, Proved!RequestOf,
            Locked!Cardinality, Proved!Cardinality
    <2> QED
        BY <2>1, <2>2 DEF Locked!Step, Proved!Step, Locked!Edit, Proved!Edit, Locked!Rename,
            Proved!Rename, Locked!Remove, Proved!Remove, Locked!ResolveCached,
            Proved!ResolveCached, Locked!ResolveLookup, Proved!ResolveLookup,
            Locked!ServeLookup, Proved!ServeLookup, Locked!ResolveReturn, Proved!ResolveReturn,
            Locked!Return, Proved!Return, Locked!Install, Proved!Install, Locked!ExpireLookup,
            Proved!ExpireLookup
<1>4. Locked!Environment <=> Proved!Environment
    BY <1>2 DEF Locked!Environment, Proved!Environment, Locked!ServeOrphan, Proved!ServeOrphan,
        Locked!OutsideAdd, Proved!OutsideAdd, Locked!AddZone, Proved!AddZone,
        Locked!OutsideRemove, Proved!OutsideRemove, Locked!RemoveZone, Proved!RemoveZone,
        Locked!OutsideRename, Proved!OutsideRename, Locked!RenameZone, Proved!RenameZone,
        Locked!NameFree, Proved!NameFree, Locked!Reexport, Proved!Reexport
<1>5. Locked!Next <=> Proved!Next
    BY <1>3, <1>4 DEF Locked!Next, Proved!Next
<1>6. Locked!vars = Proved!vars
    BY DEF Locked!vars, Proved!vars
<1> QED  BY <1>1, <1>5, <1>6

LEMMA LockedProved == UnlockedSpec => Proved!Spec
<1>1. [Locked!Next]_Locked!vars => [Proved!Next]_Proved!vars
    BY SameSteps DEF Locked!vars, Proved!vars
<1> QED  BY <1>1, SameSteps, HandlesImplementLocked, PTL
         DEF ImplementsLocked, Locked!Spec, Proved!Spec

\* No handle of any kind caches the answer to a lookup under another name than the one
\* it asked for, with or without a mutex (permpolicy.go, permipset.go, permservice.go,
\* permicmptype.go, permhelper.go: resolve).
THEOREM EveryLookupCurrent == UnlockedSpec => []LookupsAreCurrent
<1>1. MapInv /\ Proved!LookupsAreCurrent => LookupsAreCurrent
    BY DEF MapInv, Gated, Calls, Proved!LookupsAreCurrent, LookupsAreCurrent
<1>2. Proved!Spec => []Proved!LookupsAreCurrent
    BY Proved!LookupsStayCurrent, HandleAssumption, PTL
       DEF Proved!LookupsStayCurrent, Proved!HandleAssumption
<1> QED  BY <1>1, <1>2, LockedProved, MapInvariant, PTL

\* A handle of any kind resolves its path once and drops it only for a Rename, by callers
\* that keep to the rules.
THEOREM EveryCacheStable == UnlockedSpec => CachedUntilRename
<1>1. Proved!Spec => Proved!CachedUntilRename
    BY Proved!CacheStable, HandleAssumption, PTL
       DEF Proved!CacheStable, Proved!HandleAssumption
<1>2. ASSUME [path # NoPath /\ path' # path =>
                path' = NoPath /\ \E c \in Caller : Calls[c].at = "install"]_Proved!vars
      PROVE  [path # NoPath /\ path' # path =>
                path' = NoPath /\ \E c \in Caller : call[c].at = "install"]_vars
    <2>1. CASE path' = path
        BY <2>1
    <2>2. CASE path' # path
        BY <1>2, <2>2 DEF Calls, Idle, Proved!vars
    <2> QED  BY <2>1, <2>2
<1> QED  BY <1>1, <1>2, LockedProved, PTL DEF Proved!CachedUntilRename, CachedUntilRename

\* No method of any handle runs on an object that has never borne the handle's name, even
\* a request whose caller gave up long ago, while the daemon issues no path twice.
THEOREM EveryAddressDesignated ==
    ASSUME "reexport" \notin Outside
    PROVE  UnlockedSpec => []AddressesDesignated
<1>1. MapInv /\ Proved!AddressesDesignated => AddressesDesignated
    BY DEF MapInv, Gated, Calls, Proved!AddressesDesignated, AddressesDesignated,
        Proved!OnlyDesignatedAt, OnlyDesignatedAt
<1>2. Proved!Spec => []Proved!AddressesDesignated
    BY Proved!AddressesStayDesignated, HandleAssumption, PTL
       DEF Proved!AddressesStayDesignated, Proved!HandleAssumption
<1> QED  BY <1>1, <1>2, LockedProved, MapInvariant, PTL

\* When one goroutine alone renames, waiting for the answer, and nothing is removed, the
\* handle is on its object whenever no Rename is under way, whatever its kind.
THEOREM EveryHandleOnTarget ==
    ASSUME NEW r, SoleRenamer(r)
    PROVE  UnlockedSpec => []HandleOnTarget
<1>1. MapInv /\ Proved!HandleOnTarget => HandleOnTarget
    <2> SUFFICES ASSUME MapInv, Proved!HandleOnTarget, ~RenamePending PROVE HandleOnTarget
        BY DEF HandleOnTarget
    <2>1. \A c \in Caller : Calls[c].at # "idle" => Calls[c] = call[c]
        BY DEF Calls, Idle
    <2>2. ~Proved!RenamePending
        BY <2>1 DEF RenamePending, Proved!RenamePending
    <2> QED  BY <2>2 DEF Proved!HandleOnTarget, HandleOnTarget
<1>2. Proved!Spec => []Proved!HandleOnTarget
    BY Proved!HandleStaysOnTarget, HandleAssumption, PTL
       DEF Proved!HandleStaysOnTarget, Proved!HandleAssumption, SoleRenamer, Proved!SoleRenamer
<1> QED  BY <1>1, <1>2, LockedProved, MapInvariant, PTL
===============================================================================
