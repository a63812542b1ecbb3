--------------------------- MODULE PermHandleProofs ---------------------------
(***************************************************************************)
(* Theorems about PermHandle, for any number of goroutines, names, zones   *)
(* and paths, and any choice of what each of them may do.                  *)
(***************************************************************************)
EXTENDS PermHandle, TLAPS

\* Every step brings the history up to date.
LEMMA StepTracks ==
    ASSUME NEW c \in Caller, Step(c)
    PROVE  Track
BY DEF Step, Edit, Rename, Remove, ResolveCached, ResolveLookup, ServeLookup, ResolveReturn,
    Serve, Return, Install, ExpireLookup, Expire

LEMMA EnvironmentTracks == Environment => Track
BY DEF Environment, ServeOrphan, OutsideAdd, OutsideRemove, OutsideRename, Reexport

-------------------------------------------------------------------------------
(***************************************************************************)
(* Type correctness.                                                       *)
(***************************************************************************)

\* What a daemon step leaves behind is well typed.
DaemonTyped ==
    /\ nameOf \in [Zone -> Name \cup {NoName}]
    /\ pathOf \in [Zone -> Path \cup {NoPath}]
    /\ used \subseteq Path

LEMMA AddZoneTyped ==
    ASSUME TypeOK, NEW n \in Name, AddZone(n)
    PROVE  DaemonTyped'
BY DEF TypeOK, AddZone, DaemonTyped

LEMMA RemoveZoneTyped ==
    ASSUME TypeOK, NEW z \in Zone, RemoveZone(z)
    PROVE  DaemonTyped'
BY DEF TypeOK, RemoveZone, DaemonTyped

LEMMA RenameZoneTyped ==
    ASSUME TypeOK, NEW z \in Zone, NEW n \in Name, RenameZone(z, n)
    PROVE  DaemonTyped'
BY DEF TypeOK, RenameZone, DaemonTyped

LEMMA ExecuteTyped ==
    ASSUME TypeOK, NEW r \in Request, r.op = "rename" => r.arg \in Name, Execute(r)
    PROVE  DaemonTyped'
<1>1. PICK z \in Zone : \/ r.op = "edit" /\ UNCHANGED daemonVars
                        \/ r.op = "rename" /\ RenameZone(z, r.arg)
                        \/ r.op = "remove" /\ RemoveZone(z)
    BY DEF Execute
<1>2. CASE UNCHANGED daemonVars
    BY <1>2 DEF TypeOK, DaemonTyped, daemonVars
<1>3. CASE r.op = "rename" /\ RenameZone(z, r.arg)
    BY <1>3, RenameZoneTyped
<1>4. CASE RemoveZone(z)
    BY <1>4, RemoveZoneTyped
<1> QED  BY <1>1, <1>2, <1>3, <1>4

\* Every step of a goroutine keeps the types of the variables it owns.
WellFormed(v) ==
    /\ v \in CallRecord
    /\ v.op = "rename" => v.arg \in Name
    /\ v.at = "call" => v.target \in Path
    /\ v.at = "install" => v.op = "rename"

CallTyped ==
    /\ call \in [Caller -> CallRecord]
    /\ \A c \in Caller : WellFormed(call[c])

LEMMA CallUpdateTyped ==
    ASSUME TypeOK, NEW c \in Caller, NEW v, WellFormed(v),
           call' = [call EXCEPT ![c] = v]
    PROVE  CallTyped'
<1>1. call \in [Caller -> CallRecord] /\ \A d \in Caller : WellFormed(call[d])
    BY DEF TypeOK, WellFormed
<1>2. call' \in [Caller -> CallRecord]
    BY <1>1 DEF WellFormed
<1>3. \A d \in Caller : call'[d] = v \/ call'[d] = call[d]
    BY <1>1
<1> QED  BY <1>1, <1>2, <1>3 DEF CallTyped

LEMMA FinishTyped ==
    ASSUME TypeOK, NEW c \in Caller, Finish(c)
    PROVE  CallTyped'
<1>1. WellFormed(Idle)
    BY DEF WellFormed, Idle, CallRecord, Stage, Op
<1> QED  BY <1>1, CallUpdateTyped DEF Finish

LEMMA GotoTyped ==
    ASSUME TypeOK, NEW c \in Caller, NEW s \in Stage \ {"call", "install"}, Goto(c, s)
    PROVE  CallTyped'
<1> DEFINE v == [call[c] EXCEPT !.at = s]
<1>1. WellFormed(call[c])
    BY DEF TypeOK, WellFormed
<1>2. WellFormed(v)
    BY <1>1 DEF WellFormed, CallRecord
<1>3. call' = [call EXCEPT ![c] = v]
    BY DEF Goto
<1> QED  BY <1>2, <1>3, CallUpdateTyped

\* The variables other than those of the calls.
RestTyped ==
    /\ name \in Name
    /\ path \in Path \cup {NoPath}
    /\ mu \in Caller \cup {Nobody}
    /\ orphans \subseteq Request
    /\ \A r \in orphans : r.op = "rename" => r.arg \in Name
    /\ designated \subseteq Zone

LEMMA TypeParts == TypeOK <=> CallTyped /\ RestTyped /\ DaemonTyped
BY DEF TypeOK, CallTyped, RestTyped, DaemonTyped, WellFormed

LEMMA TypePartsNext == TypeOK' <=> CallTyped' /\ RestTyped' /\ DaemonTyped'
BY DEF TypeOK, CallTyped, RestTyped, DaemonTyped, WellFormed

LEMMA RequestTyped ==
    ASSUME TypeOK, NEW c \in Caller, call[c].at = "call"
    PROVE  /\ RequestOf(c) \in Request
           /\ RequestOf(c).op = "rename" => RequestOf(c).arg \in Name
BY DEF TypeOK, RequestOf, Request, CallRecord

LEMMA StepTyped ==
    ASSUME TypeOK, NEW c \in Caller, Step(c), Track
    PROVE  TypeOK'
<1> USE HandleAssumption
<1>1. WellFormed(call[c]) /\ CallTyped /\ RestTyped /\ DaemonTyped
    BY TypeParts DEF CallTyped
<1>2. designated' \subseteq Zone
    BY DEF Track
<1>3. UNCHANGED daemonVars => DaemonTyped'
    BY <1>1 DEF DaemonTyped, daemonVars
<1>4. UNCHANGED <<handleVars, orphans>> => RestTyped'
    BY <1>1, <1>2 DEF RestTyped, handleVars
<1>5. CASE Edit(c)
    <2>1. CallTyped'
        BY <1>5, GotoTyped DEF Edit, Stage
    <2> QED  BY <1>3, <1>4, <1>5, <2>1, TypePartsNext DEF Edit
<1>6. ASSUME NEW n \in Name, Rename(c, n) PROVE TypeOK'
    <2> DEFINE v == [call[c] EXCEPT !.at = "lock", !.op = "rename", !.arg = n]
    <2>1. WellFormed(v)
        BY <1>1 DEF WellFormed, CallRecord, Stage, Op
    <2>2. call' = [call EXCEPT ![c] = v]
        BY <1>6 DEF Rename
    <2>3. CallTyped'
        BY <2>1, <2>2, CallUpdateTyped
    <2> QED  BY <1>3, <1>4, <1>6, <2>3, TypePartsNext DEF Rename
<1>7. CASE Remove(c)
    <2> DEFINE v == [call[c] EXCEPT !.at = "lock", !.op = "remove"]
    <2>1. WellFormed(v)
        BY <1>1 DEF WellFormed, CallRecord, Stage, Op
    <2>2. call' = [call EXCEPT ![c] = v]
        BY <1>7 DEF Remove
    <2>3. CallTyped'
        BY <2>1, <2>2, CallUpdateTyped
    <2> QED  BY <1>3, <1>4, <1>7, <2>3, TypePartsNext DEF Remove
<1>8. CASE ResolveCached(c)
    <2> DEFINE v == [call[c] EXCEPT !.at = "call", !.target = path]
    <2>1. WellFormed(v)
        BY <1>1, <1>8 DEF WellFormed, CallRecord, Stage, RestTyped, ResolveCached
    <2>2. call' = [call EXCEPT ![c] = v]
        BY <1>8 DEF ResolveCached
    <2>3. CallTyped'
        BY <2>1, <2>2, CallUpdateTyped
    <2> QED  BY <1>3, <1>4, <1>8, <2>3, TypePartsNext DEF ResolveCached
<1>9. CASE ResolveLookup(c)
    <2> DEFINE v == [call[c] EXCEPT !.at = "lookup", !.key = name]
    <2>1. WellFormed(v)
        BY <1>1 DEF WellFormed, CallRecord, Stage, RestTyped
    <2>2. call' = [call EXCEPT ![c] = v]
        BY <1>9 DEF ResolveLookup
    <2>3. CallTyped'
        BY <2>1, <2>2, CallUpdateTyped
    <2>4. RestTyped'
        BY <1>1, <1>2, <1>9 DEF ResolveLookup, RestTyped
    <2> QED  BY <1>3, <1>9, <2>3, <2>4, TypePartsNext DEF ResolveLookup
<1>10. CASE ServeLookup(c)
    <2>1. PICK p \in Path \cup {NoPath} :
              call' = [call EXCEPT ![c].at = "looked", ![c].target = p]
        BY <1>1, <1>10 DEF ServeLookup, DaemonTyped
    <2> DEFINE v == [call[c] EXCEPT !.at = "looked", !.target = p]
    <2>2. WellFormed(v)
        BY <1>1 DEF WellFormed, CallRecord, Stage
    <2>3. call' = [call EXCEPT ![c] = v]
        BY <2>1
    <2>4. CallTyped'
        BY <2>2, <2>3, CallUpdateTyped
    <2> QED  BY <1>3, <1>4, <1>10, <2>4, TypePartsNext DEF ServeLookup
<1>11. CASE ResolveReturn(c)
    <2>1. CASE call[c].target = NoPath
        <3>1. Finish(c) /\ UNCHANGED path
            BY <1>11, <2>1 DEF ResolveReturn
        <3>2. RestTyped'
            BY <1>1, <1>2, <1>11, <3>1 DEF ResolveReturn, RestTyped
        <3> QED  BY <1>3, <1>11, <3>1, <3>2, FinishTyped, TypePartsNext DEF ResolveReturn
    <2>2. CASE call[c].target # NoPath
        <3> DEFINE v == [call[c] EXCEPT !.at = "call", !.key = NoName]
        <3>1. WellFormed(v)
            BY <1>1, <2>2 DEF WellFormed, CallRecord, Stage
        <3>2. call' = [call EXCEPT ![c] = v] /\ path' = call[c].target
            BY <1>11, <2>2 DEF ResolveReturn
        <3>3. CallTyped'
            BY <3>1, <3>2, CallUpdateTyped
        <3>4. RestTyped'
            BY <1>1, <1>2, <1>11, <3>2 DEF ResolveReturn, RestTyped, WellFormed, CallRecord
        <3> QED  BY <1>3, <1>11, <3>3, <3>4, TypePartsNext DEF ResolveReturn
    <2> QED  BY <2>1, <2>2
<1>12. CASE Serve(c)
    <2>1. CallTyped'
        BY <1>12, GotoTyped DEF Serve, Stage
    <2>2. DaemonTyped'
        BY <1>3, <1>12, RequestTyped, ExecuteTyped DEF Serve
    <2> QED  BY <1>4, <1>12, <2>1, <2>2, TypePartsNext DEF Serve
<1>13. CASE Return(c)
    <2>1. CASE Finish(c)
        BY <1>3, <1>4, <1>13, <2>1, FinishTyped, TypePartsNext DEF Return
    <2>2. CASE call[c].op = "rename" /\ Goto(c, "install")
        <3> DEFINE v == [call[c] EXCEPT !.at = "install"]
        <3>1. WellFormed(v)
            BY <1>1, <2>2 DEF WellFormed, CallRecord, Stage
        <3>2. call' = [call EXCEPT ![c] = v]
            BY <2>2 DEF Goto
        <3>3. CallTyped'
            BY <3>1, <3>2, CallUpdateTyped
        <3> QED  BY <1>3, <1>4, <1>13, <3>3, TypePartsNext DEF Return
    <2> QED  BY <1>13, <2>1, <2>2 DEF Return
<1>14. CASE Install(c)
    <2>1. call[c].arg \in Name
        BY <1>1, <1>14 DEF Install, WellFormed
    <2>2. RestTyped'
        BY <1>1, <1>2, <1>14, <2>1 DEF Install, RestTyped
    <2> QED  BY <1>3, <1>14, <2>2, FinishTyped, TypePartsNext DEF Install
<1>15. CASE ExpireLookup(c)
    <2>1. RestTyped'
        BY <1>1, <1>2, <1>15 DEF ExpireLookup, RestTyped
    <2> QED  BY <1>3, <1>15, <2>1, FinishTyped, TypePartsNext DEF ExpireLookup
<1>16. CASE Expire(c)
    <2>1. orphans' \subseteq Request /\ \A r \in orphans' : r.op = "rename" => r.arg \in Name
        BY <1>1, <1>16, RequestTyped DEF Expire, RestTyped
    <2>2. RestTyped'
        BY <1>1, <1>2, <1>16, <2>1 DEF Expire, RestTyped, handleVars
    <2> QED  BY <1>3, <1>16, <2>2, FinishTyped, TypePartsNext DEF Expire
<1> QED  BY <1>5, <1>6, <1>7, <1>8, <1>9, <1>10, <1>11, <1>12, <1>13, <1>14, <1>15, <1>16
         DEF Step

LEMMA EnvironmentTyped ==
    ASSUME TypeOK, Environment, Track
    PROVE  TypeOK'
<1>1. CallTyped /\ RestTyped /\ DaemonTyped
    BY TypeParts
<1>2. designated' \subseteq Zone
    BY DEF Track
<1>3. UNCHANGED call => CallTyped'
    BY <1>1 DEF CallTyped, WellFormed
<1>4. UNCHANGED <<handleVars, orphans>> => RestTyped'
    BY <1>1, <1>2 DEF RestTyped, handleVars
<1>5. CASE ServeOrphan
    <2>1. PICK r \in orphans : /\ orphans' = orphans \ {r}
                               /\ Execute(r) \/ UNCHANGED daemonVars
                               /\ UNCHANGED <<handleVars, call>>
        BY <1>5 DEF ServeOrphan
    <2>2. RestTyped'
        BY <1>1, <1>2, <2>1 DEF RestTyped, handleVars
    <2>3. CASE Execute(r)
        BY <1>1, <1>3, <2>1, <2>2, <2>3, ExecuteTyped, TypePartsNext DEF RestTyped
    <2>4. CASE UNCHANGED daemonVars
        BY <1>1, <1>3, <2>1, <2>2, <2>4, TypePartsNext DEF DaemonTyped, daemonVars
    <2> QED  BY <2>1, <2>3, <2>4
<1>6. CASE OutsideAdd
    BY <1>3, <1>4, <1>6, AddZoneTyped, TypePartsNext DEF OutsideAdd
<1>7. CASE OutsideRemove
    BY <1>3, <1>4, <1>7, RemoveZoneTyped, TypePartsNext DEF OutsideRemove
<1>8. CASE OutsideRename
    BY <1>3, <1>4, <1>8, RenameZoneTyped, TypePartsNext DEF OutsideRename
<1>9. CASE Reexport
    <2>1. DaemonTyped'
        BY <1>1, <1>9 DEF Reexport, DaemonTyped
    <2> QED  BY <1>3, <1>4, <1>9, <2>1, TypePartsNext DEF Reexport
<1> QED  BY <1>5, <1>6, <1>7, <1>8, <1>9 DEF Environment

LEMMA InitTyped == Init => TypeOK
<1> SUFFICES ASSUME Init PROVE TypeOK
    OBVIOUS
<1> USE HandleAssumption
<1>1. CallTyped
    BY DEF Init, CallTyped, WellFormed, CallRecord, Idle, Stage, Op
<1>2. RestTyped
    BY DEF Init, RestTyped
<1>3. DaemonTyped
    BY DEF Init, DaemonTyped
<1> QED  BY <1>1, <1>2, <1>3, TypeParts

LEMMA NextTyped == TypeOK /\ [Next]_vars => TypeOK'
<1> SUFFICES ASSUME TypeOK, [Next]_vars PROVE TypeOK'
    OBVIOUS
<1>1. CASE Next
    BY <1>1, StepTyped, EnvironmentTyped, StepTracks, EnvironmentTracks DEF Next
<1>2. CASE UNCHANGED vars
    BY <1>2 DEF TypeOK, vars
<1> QED  BY <1>1, <1>2

\* Whatever the goroutines, the other clients and the daemon do, the handle holds a
\* name and a path or none, a method is called on a path, and a Rename that reaches
\* its tail carries a name (permzone.go: PermZone, resolve, callOn, Rename).
THEOREM TypeCorrect == Spec => []TypeOK
BY InitTyped, NextTyped, PTL DEF Spec

-------------------------------------------------------------------------------
(***************************************************************************)
(* The mutex protects the lookup.                                          *)
(***************************************************************************)

LookupInv == TypeOK /\ MutexHeld /\ LookupsAreCurrent

LEMMA InitLookup == Init => LookupInv
BY InitTyped, HandleAssumption
   DEF Init, LookupInv, MutexHeld, LookingUp, LookupsAreCurrent, Idle

LEMMA StepLookup ==
    ASSUME LookupInv, NEW c \in Caller, Step(c), Track
    PROVE  MutexHeld' /\ LookupsAreCurrent'
<1> USE HandleAssumption
<1>1. TypeOK /\ MutexHeld /\ LookupsAreCurrent
    BY DEF LookupInv
<1>2. call \in [Caller -> CallRecord]
    BY <1>1 DEF TypeOK
<1>3. ASSUME UNCHANGED <<name, path, mu>>, ~LookingUp(c), ~LookingUp(c)',
             \A d \in Caller \ {c} : call'[d] = call[d]
      PROVE  MutexHeld' /\ LookupsAreCurrent'
    BY <1>1, <1>3 DEF MutexHeld, LookupsAreCurrent, LookingUp
<1>4. ASSUME mu = c, mu' = Nobody, name' = name, ~LookingUp(c)',
             \A d \in Caller \ {c} : call'[d] = call[d]
      PROVE  MutexHeld' /\ LookupsAreCurrent'
    BY <1>1, <1>4 DEF MutexHeld, LookupsAreCurrent, LookingUp
<1>5. CASE Edit(c)
    BY <1>2, <1>3, <1>5 DEF Edit, Goto, LookingUp, handleVars, CallRecord
<1>6. CASE \E n \in Name : Rename(c, n)
    BY <1>2, <1>3, <1>6 DEF Rename, LookingUp, handleVars, CallRecord
<1>7. CASE Remove(c)
    BY <1>2, <1>3, <1>7 DEF Remove, LookingUp, handleVars, CallRecord
<1>8. CASE ResolveCached(c)
    BY <1>2, <1>3, <1>8 DEF ResolveCached, LookingUp, handleVars, CallRecord
<1>9. CASE ResolveLookup(c)
    <2>1. /\ mu = Nobody /\ mu' = c /\ path = NoPath /\ UNCHANGED <<name, path>>
          /\ LookingUp(c)' /\ call'[c].key = name
          /\ \A d \in Caller \ {c} : call'[d] = call[d]
        BY <1>2, <1>9 DEF ResolveLookup, LookingUp, CallRecord
    <2>2. \A d \in Caller : ~LookingUp(d)
        BY <1>1, <2>1 DEF MutexHeld
    <2> QED  BY <2>1, <2>2 DEF MutexHeld, LookupsAreCurrent, LookingUp
<1>10. CASE ServeLookup(c)
    <2>1. /\ UNCHANGED <<name, path, mu>>
          /\ LookingUp(c) /\ LookingUp(c)' /\ call'[c].key = call[c].key
          /\ \A d \in Caller \ {c} : call'[d] = call[d]
        BY <1>2, <1>10 DEF ServeLookup, LookingUp, handleVars, CallRecord
    <2> QED  BY <1>1, <2>1 DEF MutexHeld, LookupsAreCurrent, LookingUp
<1>11. CASE ResolveReturn(c)
    <2>1. mu = c
        BY <1>1, <1>11 DEF ResolveReturn, MutexHeld, LookingUp
    <2>2. mu' = Nobody /\ name' = name
        BY <1>11 DEF ResolveReturn
    <2>3. ~LookingUp(c)' /\ \A d \in Caller \ {c} : call'[d] = call[d]
        BY <1>2, <1>11 DEF ResolveReturn, Finish, Idle, LookingUp, CallRecord
    <2> QED  BY <1>4, <2>1, <2>2, <2>3
<1>12. CASE Serve(c)
    BY <1>2, <1>3, <1>12 DEF Serve, Goto, LookingUp, handleVars, CallRecord
<1>13. CASE Return(c)
    BY <1>2, <1>3, <1>13 DEF Return, Goto, Finish, Idle, LookingUp, handleVars, CallRecord
<1>14. CASE Install(c)
    <2>1. \A d \in Caller : ~LookingUp(d)
        BY <1>1, <1>14 DEF Install, MutexHeld
    <2>2. mu' = mu /\ \A d \in Caller : ~LookingUp(d)'
        BY <1>2, <1>14, <2>1 DEF Install, Finish, Idle, LookingUp
    <2> QED  BY <1>14, <2>2 DEF Install, MutexHeld, LookupsAreCurrent, LookingUp
<1>15. CASE ExpireLookup(c)
    <2>1. mu = c
        BY <1>1, <1>15 DEF ExpireLookup, MutexHeld, LookingUp
    <2> QED  BY <1>2, <1>4, <1>15, <2>1 DEF ExpireLookup, Finish, Idle, LookingUp
<1>16. CASE Expire(c)
    BY <1>2, <1>3, <1>16 DEF Expire, Finish, Idle, LookingUp, handleVars
<1> QED  BY <1>5, <1>6, <1>7, <1>8, <1>9, <1>10, <1>11, <1>12, <1>13, <1>14, <1>15, <1>16
         DEF Step

LEMMA EnvironmentLocal == Environment => UNCHANGED <<handleVars, call>>
BY DEF Environment, ServeOrphan, OutsideAdd, OutsideRemove, OutsideRename, Reexport

LEMMA NextLookup == LookupInv /\ [Next]_vars => LookupInv'
<1> SUFFICES ASSUME LookupInv, [Next]_vars PROVE LookupInv'
    OBVIOUS
<1>1. TypeOK'
    BY NextTyped DEF LookupInv
<1>2. CASE UNCHANGED <<handleVars, call>>
    BY <1>1, <1>2 DEF LookupInv, MutexHeld, LookupsAreCurrent, LookingUp, handleVars
<1>3. CASE Next
    BY <1>1, <1>2, <1>3, StepLookup, EnvironmentLocal, StepTracks DEF Next, LookupInv
<1> QED  BY <1>2, <1>3 DEF vars, handleVars

LEMMA LookupInvariant == Spec => []LookupInv
BY InitLookup, NextLookup, PTL DEF Spec

\* No goroutine leaves the mutex locked behind it, and the holder of it always has its
\* answer to wait for: nobody waits for a goroutine that waits for the mutex.
THEOREM MutexReleased == Spec => []MutexHeld
BY LookupInvariant, PTL DEF LookupInv

\* The answer to getZoneByName is never cached under another name than the one that
\* was asked for, because resolve and Rename exclude each other through z.mu.
THEOREM LookupsStayCurrent == Spec => []LookupsAreCurrent
BY LookupInvariant, PTL DEF LookupInv

LEMMA NextCached ==
    ASSUME LookupInv, Next, path # NoPath, path' # path
    PROVE  path' = NoPath /\ \E c \in Caller : call[c].at = "install"
<1>1. PICK c \in Caller : Step(c)
    BY EnvironmentLocal DEF Next, handleVars
<1>2. ~ResolveReturn(c)
    BY DEF ResolveReturn, LookupInv, LookupsAreCurrent
<1>3. Install(c)
    BY <1>1, <1>2 DEF Step, Edit, Rename, Remove, ResolveCached, ResolveLookup, ServeLookup,
        Serve, Return, ExpireLookup, Expire, handleVars
<1> QED  BY <1>3 DEF Install

\* A cached path is dropped by a Rename and by nothing else, and it is never
\* overwritten by a second lookup (permzone.go: "resolved once ... and cached").
THEOREM CacheStable == Spec => CachedUntilRename
<1>1. LookupInv /\ [Next]_vars =>
        [path # NoPath /\ path' # path =>
             path' = NoPath /\ \E c \in Caller : call[c].at = "install"]_vars
    BY NextCached
<1> QED  BY <1>1, LookupInvariant, PTL DEF Spec, CachedUntilRename

-------------------------------------------------------------------------------
(***************************************************************************)
(* No method runs on a stranger's zone.                                    *)
(***************************************************************************)

\* The daemon: a zone exists exactly if it has a path, paths are its own, and every
\* path in use is among those issued.
DaemonInv ==
    /\ \A z \in Zone : nameOf[z] = NoName <=> pathOf[z] = NoPath
    /\ \A z \in Zone : pathOf[z] \in used \cup {NoPath}
    /\ \A y, z \in Zone : pathOf[y] = pathOf[z] => y = z \/ pathOf[y] = NoPath

NameDesignated == \A z \in Zone : nameOf[z] = name => z \in designated

\* A path the library may hold: issued, and of no zone but a designated one.
Known(p) == p \in used \cup {NoPath} /\ OnlyDesignatedAt(p)

PathsKnown ==
    /\ Known(path)
    /\ \A c \in Caller : Known(call[c].target)
    /\ \A r \in orphans : Known(r.path)

AddressInv == LookupInv /\ DaemonInv /\ NameDesignated /\ PathsKnown

\* A daemon that does not number afresh: paths are issued once.
Monotone ==
    /\ used \subseteq used'
    /\ \A z \in Zone : pathOf'[z] \in {pathOf[z], NoPath} \/ pathOf'[z] \notin used

LEMMA InitAddress == Init => AddressInv
<1> SUFFICES ASSUME Init PROVE AddressInv
    OBVIOUS
<1> USE HandleAssumption
<1>1. LookupInv
    BY InitLookup
<1>2. DaemonInv /\ NameDesignated
    BY DEF Init, DaemonInv, NameDesignated
<1>3. PathsKnown
    BY DEF Init, PathsKnown, Known, OnlyDesignatedAt, Idle
<1> QED  BY <1>1, <1>2, <1>3 DEF AddressInv

LEMMA AddZoneSafe ==
    ASSUME TypeOK, DaemonInv, NEW n \in Name, AddZone(n)
    PROVE  DaemonInv' /\ Monotone
<1> USE HandleAssumption
<1>1. PICK z \in Zone, p \in Path \ used :
        /\ nameOf[z] = NoName
        /\ nameOf' = [nameOf EXCEPT ![z] = n]
        /\ pathOf' = [pathOf EXCEPT ![z] = p]
        /\ used' = used \cup {p}
    BY DEF AddZone
<1> QED  BY <1>1 DEF TypeOK, DaemonInv, Monotone

LEMMA RemoveZoneSafe ==
    ASSUME TypeOK, DaemonInv, NEW z \in Zone, RemoveZone(z)
    PROVE  DaemonInv' /\ Monotone
BY DEF RemoveZone, TypeOK, DaemonInv, Monotone

LEMMA RenameZoneSafe ==
    ASSUME TypeOK, DaemonInv, NEW z \in Zone, NEW n \in Name, pathOf[z] # NoPath,
           RenameZone(z, n)
    PROVE  DaemonInv' /\ Monotone
<1> USE HandleAssumption
<1>1. CASE UNCHANGED <<pathOf, used>>
    BY <1>1 DEF RenameZone, TypeOK, DaemonInv, Monotone
<1>2. CASE \E p \in Path \ used : /\ pathOf' = [pathOf EXCEPT ![z] = p]
                                  /\ used' = used \cup {p}
    BY <1>2 DEF RenameZone, TypeOK, DaemonInv, Monotone
<1> QED  BY <1>1, <1>2 DEF RenameZone

LEMMA ExecuteSafe ==
    ASSUME TypeOK, DaemonInv, NEW r \in Request, r.op = "rename" => r.arg \in Name, Execute(r)
    PROVE  DaemonInv' /\ Monotone
<1>1. PICK z \in Zone : /\ pathOf[z] = r.path
                        /\ \/ r.op = "edit" /\ UNCHANGED daemonVars
                           \/ r.op = "rename" /\ RenameZone(z, r.arg)
                           \/ r.op = "remove" /\ RemoveZone(z)
    BY DEF Execute
<1>2. pathOf[z] # NoPath
    BY <1>1, HandleAssumption DEF Request
<1>3. CASE UNCHANGED daemonVars
    BY <1>3 DEF DaemonInv, Monotone, daemonVars
<1>4. CASE r.op = "rename" /\ RenameZone(z, r.arg)
    BY <1>2, <1>4, RenameZoneSafe
<1>5. CASE RemoveZone(z)
    BY <1>5, RemoveZoneSafe
<1> QED  BY <1>1, <1>3, <1>4, <1>5

LEMMA UnchangedSafe ==
    ASSUME DaemonInv, UNCHANGED daemonVars
    PROVE  DaemonInv' /\ Monotone
BY DEF DaemonInv, Monotone, daemonVars

\* A known path stays known while the daemon issues every path once: the object it
\* leads to is the same one, or none.
LEMMA KnownStays ==
    ASSUME DaemonInv', Monotone, Track, NEW p, Known(p)
    PROVE  Known(p)'
<1>1. ASSUME NEW z \in Zone, pathOf'[z] = p, p # NoPath PROVE z \in designated'
    <2>1. pathOf[z] = p
        BY <1>1 DEF Known, Monotone
    <2>2. z \in designated
        BY <1>1, <2>1 DEF Known, OnlyDesignatedAt
    <2>3. nameOf'[z] # NoName
        BY <1>1 DEF DaemonInv
    <2> QED  BY <2>2, <2>3 DEF Track
<1> QED  BY <1>1 DEF Known, OnlyDesignatedAt, Monotone

LEMMA StepDaemon ==
    ASSUME AddressInv, NEW c \in Caller, Step(c)
    PROVE  DaemonInv' /\ Monotone
<1>1. CASE Serve(c)
    <2>1. RequestOf(c) \in Request /\ (RequestOf(c).op = "rename" => RequestOf(c).arg \in Name)
        BY <1>1, RequestTyped DEF Serve, AddressInv, LookupInv
    <2> QED  BY <1>1, <2>1, ExecuteSafe, UnchangedSafe DEF Serve, AddressInv, LookupInv
<1>2. CASE ~Serve(c)
    <2>1. UNCHANGED daemonVars
        BY <1>2 DEF Step, Edit, Rename, Remove, ResolveCached, ResolveLookup, ServeLookup,
            ResolveReturn, Return, Install, ExpireLookup, Expire
    <2> QED  BY <2>1, UnchangedSafe DEF AddressInv
<1> QED  BY <1>1, <1>2

LEMMA EnvironmentDaemon ==
    ASSUME AddressInv, Environment, "reexport" \notin Outside
    PROVE  DaemonInv' /\ Monotone
<1>1. TypeOK /\ DaemonInv
    BY DEF AddressInv, LookupInv
<1>2. CASE ServeOrphan
    BY <1>1, <1>2, ExecuteSafe, UnchangedSafe DEF ServeOrphan, TypeOK
<1>3. CASE OutsideAdd
    BY <1>1, <1>3, AddZoneSafe DEF OutsideAdd
<1>4. CASE OutsideRemove
    BY <1>1, <1>4, RemoveZoneSafe DEF OutsideRemove
<1>5. CASE OutsideRename
    BY <1>1, <1>5, RenameZoneSafe DEF OutsideRename, DaemonInv
<1> QED  BY <1>2, <1>3, <1>4, <1>5 DEF Environment, Reexport

\* The answer to a lookup of the handle's own name leads to a designated zone.
LEMMA AnswerKnown ==
    ASSUME AddressInv, NEW z \in Zone, nameOf[z] = name
    PROVE  Known(pathOf[z])
BY DEF AddressInv, DaemonInv, NameDesignated, Known, OnlyDesignatedAt

\* Where a step takes the paths it stores from.
LEMMA StepPaths ==
    ASSUME AddressInv, NEW c \in Caller, Step(c)
    PROVE  /\ Known(path')
           /\ \A d \in Caller : Known(call'[d].target)
           /\ \A r \in orphans' : Known(r.path)
<1> USE HandleAssumption
<1>1. /\ PathsKnown
      /\ call \in [Caller -> CallRecord]
      /\ call[c] \in CallRecord
    BY DEF AddressInv, LookupInv, TypeOK
<1>2. Known(NoPath)
    BY DEF Known, OnlyDesignatedAt
<1>3. Known(path')
    BY <1>1, <1>2 DEF PathsKnown, Step, Edit, Rename, Remove, ResolveCached, ResolveLookup,
        ServeLookup, ResolveReturn, Serve, Return, Install, ExpireLookup, Expire, handleVars
<1>4. Known(call'[c].target)
    <2>1. CASE ServeLookup(c)
        <3>1. PICK p \in {pathOf[z] : z \in {y \in Zone : nameOf[y] = call[c].key}} \cup {NoPath} :
                  call' = [call EXCEPT ![c].at = "looked", ![c].target = p]
            BY <2>1 DEF ServeLookup
        <3>2. call[c].key = name
            BY <2>1 DEF ServeLookup, AddressInv, LookupInv, LookupsAreCurrent
        <3>3. Known(p)
            BY <1>2, <3>1, <3>2, AnswerKnown
        <3>4. call'[c].target = p
            BY <1>1, <3>1 DEF CallRecord
        <3> QED  BY <3>3, <3>4
    <2>2. CASE ResolveCached(c)
        <3>1. call'[c].target = path
            BY <1>1, <2>2 DEF ResolveCached, CallRecord
        <3> QED  BY <1>1, <3>1 DEF PathsKnown
    <2>3. CASE ~ServeLookup(c) /\ ~ResolveCached(c)
        <3>1. call'[c].target \in {call[c].target, NoPath}
            BY <1>1, <2>3 DEF Step, Edit, Rename, Remove, ResolveLookup, ResolveReturn, Serve,
                Return, Install, ExpireLookup, Expire, Goto, Finish, Idle, CallRecord
        <3> QED  BY <1>1, <1>2, <3>1 DEF PathsKnown
    <2> QED  BY <2>1, <2>2, <2>3
<1>5. \A d \in Caller \ {c} : call'[d] = call[d]
    BY <1>1 DEF Step, Edit, Rename, Remove, ResolveCached, ResolveLookup, ServeLookup,
        ResolveReturn, Serve, Return, Install, ExpireLookup, Expire, Goto, Finish
<1>6. orphans' \subseteq orphans \cup {RequestOf(c)}
    BY DEF Step, Edit, Rename, Remove, ResolveCached, ResolveLookup, ServeLookup,
        ResolveReturn, Serve, Return, Install, ExpireLookup, Expire
<1>7. Known(RequestOf(c).path)
    BY <1>1 DEF PathsKnown, RequestOf
<1> QED  BY <1>1, <1>3, <1>4, <1>5, <1>6, <1>7 DEF PathsKnown

LEMMA NextAddress ==
    ASSUME "reexport" \notin Outside, AddressInv, [Next]_vars
    PROVE  AddressInv'
<1>1. LookupInv'
    BY NextLookup DEF AddressInv
<1>2. CASE UNCHANGED vars
    BY <1>1, <1>2 DEF AddressInv, DaemonInv, NameDesignated, PathsKnown, Known,
        OnlyDesignatedAt, vars
<1>3. CASE Next
    <2>1. Track
        BY <1>3, StepTracks, EnvironmentTracks DEF Next
    <2>2. NameDesignated'
        BY <2>1 DEF Track, NameDesignated
    <2>3. DaemonInv' /\ Monotone
        BY <1>3, StepDaemon, EnvironmentDaemon DEF Next
    <2>4. /\ Known(path')
          /\ \A d \in Caller : Known(call'[d].target)
          /\ \A r \in orphans' : Known(r.path)
        <3>1. CASE \E c \in Caller : Step(c)
            BY <3>1, StepPaths
        <3>2. CASE Environment
            <4>1. orphans' \subseteq orphans
                BY <3>2 DEF Environment, ServeOrphan, OutsideAdd, OutsideRemove, OutsideRename,
                    Reexport
            <4> QED  BY <3>2, <4>1, EnvironmentLocal DEF AddressInv, PathsKnown, handleVars
        <3> QED  BY <1>3, <3>1, <3>2 DEF Next
    <2>5. ASSUME NEW p, Known(p) PROVE Known(p)'
        BY <2>1, <2>3, <2>5, KnownStays
    <2>6. PathsKnown'
        BY <2>4, <2>5 DEF PathsKnown, Known, OnlyDesignatedAt
    <2> QED  BY <1>1, <2>2, <2>3, <2>6 DEF AddressInv
<1> QED  BY <1>2, <1>3

LEMMA AddressInvariant ==
    ASSUME "reexport" \notin Outside
    PROVE  Spec => []AddressInv
BY InitAddress, NextAddress, PTL DEF Spec

\* While the daemon never issues a path twice, no request, not even one whose caller
\* has given up, is addressed to a zone that has never borne the handle's name
\* (permzone.go: callOn uses the path resolve found, however old it is by then).
THEOREM AddressesStayDesignated ==
    ASSUME "reexport" \notin Outside
    PROVE  Spec => []AddressesDesignated
<1>1. AddressInv => AddressesDesignated
    BY DEF AddressInv, PathsKnown, Known, AddressesDesignated
<1> QED  BY <1>1, AddressInvariant, PTL
-------------------------------------------------------------------------------
(***************************************************************************)
(* With one renamer the handle stays on its zone.                          *)
(***************************************************************************)

\* One goroutine alone renames, without a deadline; nobody removes; other clients
\* only add zones.
SoleRenamer(r) ==
    /\ r \in Caller \ Bounded
    /\ Renamer \subseteq {r} /\ Remover = {}
    /\ Outside \subseteq {"add"}

\* The daemon has executed r's Rename, and the handle has not taken it over.
Renamed(r) == call[r].op = "rename" /\ call[r].at \in {"acked", "install"}

\* The zone z is the handle's: it has the handle's name, or the one r is about to install,
\* and until r has renamed it every path that matters is its own.
Holds(z, r) ==
    /\ nameOf[z] = IF Renamed(r) THEN call[r].arg ELSE name
    /\ Renamed(r) \/
        /\ path \in {NoPath, pathOf[z]}
        /\ \A c \in Caller : call[c].at = "looked" => call[c].target \in {NoPath, pathOf[z]}
        /\ call[r].op = "rename" /\ call[r].at = "call" => call[r].target = pathOf[z]

NamesUnique == \A y, z \in Zone : nameOf[y] = nameOf[z] => y = z \/ nameOf[y] = NoName

OnlyOneRenames(r) ==
    /\ \A c \in Caller : call[c].op = "edit" \/ (call[c].op = "rename" /\ c = r)
    /\ \A q \in orphans : q.op = "edit"

TargetInv(r) ==
    /\ AddressInv /\ NamesUnique /\ OnlyOneRenames(r)
    /\ \E z \in Zone : Holds(z, r)

LEMMA InitTarget ==
    ASSUME NEW r, SoleRenamer(r), Init
    PROVE  TargetInv(r)
<1> USE HandleAssumption DEF SoleRenamer
<1>1. AddressInv
    BY InitAddress
<1>2. NamesUnique /\ OnlyOneRenames(r)
    BY DEF Init, NamesUnique, OnlyOneRenames, Idle
<1>3. \E z \in Zone : Holds(z, r)
    BY DEF Init, Holds, Renamed, Idle
<1> QED  BY <1>1, <1>2, <1>3 DEF TargetInv

LEMMA StepOneRenames ==
    ASSUME NEW r, SoleRenamer(r), TypeOK, OnlyOneRenames(r), NEW c \in Caller, Step(c)
    PROVE  OnlyOneRenames(r)'
<1>1. call \in [Caller -> CallRecord] /\ call[c] \in CallRecord
    BY DEF TypeOK
<1>2. \A d \in Caller \ {c} : call'[d] = call[d]
    BY <1>1 DEF Step, Edit, Rename, Remove, ResolveCached, ResolveLookup, ServeLookup,
        ResolveReturn, Serve, Return, Install, ExpireLookup, Expire, Goto, Finish
<1>3. call'[c].op \in {"edit", call[c].op} \/ (c = r /\ call'[c].op = "rename")
    BY <1>1 DEF SoleRenamer, Step, Edit, Rename, Remove, ResolveCached, ResolveLookup,
        ServeLookup, ResolveReturn, Serve, Return, Install, ExpireLookup, Expire, Goto, Finish,
        Idle, CallRecord
<1>4. orphans' \subseteq orphans \/ (Expire(c) /\ orphans' \subseteq orphans \cup {RequestOf(c)})
    BY DEF Step, Edit, Rename, Remove, ResolveCached, ResolveLookup, ServeLookup,
        ResolveReturn, Serve, Return, Install, ExpireLookup, Expire
<1>5. Expire(c) => RequestOf(c).op = "edit"
    BY DEF Expire, SoleRenamer, OnlyOneRenames, RequestOf
<1> QED  BY <1>2, <1>3, <1>4, <1>5 DEF OnlyOneRenames

\* A step that leaves zones, name and path alone, and of the calls only c's, none of
\* whose parts that Holds looks at it changes for the worse.
LEMMA HoldsLocally ==
    ASSUME NEW r \in Caller, NEW z \in Zone, Holds(z, r), NEW c \in Caller,
           UNCHANGED <<name, path, nameOf, pathOf>>,
           \A d \in Caller \ {c} : call'[d] = call[d],
           c = r => (Renamed(r)' <=> Renamed(r)) /\ (Renamed(r) => call'[r].arg = call[r].arg),
           Renamed(r) \/ (call'[c].at # "looked" \/ call'[c].target \in {NoPath, pathOf[z]}),
           Renamed(r) \/ c # r \/ call'[c].op # "rename" \/ call'[c].at # "call"
               \/ call'[c].target = pathOf[z]
    PROVE  Holds(z, r)'
<1>1. Renamed(r)' <=> Renamed(r)
    BY DEF Renamed
<1>2. Renamed(r) => call'[r].arg = call[r].arg
    OBVIOUS
<1> QED  BY <1>1, <1>2 DEF Holds

LEMMA StepHolds ==
    ASSUME NEW r, SoleRenamer(r), AddressInv, NamesUnique, OnlyOneRenames(r),
           NEW z \in Zone, Holds(z, r), NEW c \in Caller, Step(c)
    PROVE  Holds(z, r)'
<1> USE HandleAssumption
<1>1. /\ r \in Caller
      /\ call \in [Caller -> CallRecord] /\ call[c] \in CallRecord
      /\ name \in Name /\ path \in Path \cup {NoPath}
      /\ pathOf \in [Zone -> Path \cup {NoPath}]
      /\ nameOf \in [Zone -> Name \cup {NoName}]
    BY DEF SoleRenamer, AddressInv, LookupInv, TypeOK
<1>2. CASE Edit(c) \/ Remove(c)
    BY <1>1, <1>2, HoldsLocally DEF Edit, Remove, Goto, Renamed, CallRecord, handleVars, daemonVars
<1>3. ASSUME NEW n \in Name, Rename(c, n) PROVE Holds(z, r)'
    BY <1>1, <1>3, HoldsLocally DEF Rename, Renamed, CallRecord, handleVars, daemonVars
<1>4. CASE ResolveCached(c)
    <2>1. Renamed(r) \/ path = pathOf[z]
        BY <1>4 DEF ResolveCached, Holds
    <2> QED  BY <1>1, <1>4, <2>1, HoldsLocally DEF ResolveCached, Renamed, CallRecord,
                 handleVars, daemonVars
<1>5. CASE ResolveLookup(c)
    BY <1>1, <1>5, HoldsLocally DEF ResolveLookup, Renamed, CallRecord, daemonVars
<1>6. CASE ServeLookup(c)
    <2>1. PICK p \in {pathOf[y] : y \in {x \in Zone : nameOf[x] = call[c].key}} \cup {NoPath} :
              call' = [call EXCEPT ![c].at = "looked", ![c].target = p]
        BY <1>6 DEF ServeLookup
    <2>2. call[c].key = name
        BY <1>6 DEF ServeLookup, AddressInv, LookupInv, LookupsAreCurrent
    <2>3. Renamed(r) \/ p \in {NoPath, pathOf[z]}
        BY <1>1, <2>1, <2>2 DEF Holds, NamesUnique
    <2> QED  BY <1>1, <1>6, <2>1, <2>3, HoldsLocally DEF ServeLookup, Renamed, CallRecord,
                 handleVars, daemonVars
<1>7. CASE ResolveReturn(c)
    <2>1. ~Renamed(r)' <=> ~Renamed(r)
        BY <1>1, <1>7 DEF ResolveReturn, Renamed, Finish, Idle, CallRecord
    <2>2. Renamed(r) => call'[r] = call[r]
        BY <1>1, <1>7 DEF ResolveReturn, Renamed, Finish
    <2>3. UNCHANGED <<name, nameOf, pathOf>> /\ \A d \in Caller \ {c} : call'[d] = call[d]
        BY <1>1, <1>7 DEF ResolveReturn, Finish, daemonVars
    <2>4. CASE Renamed(r)
        BY <2>1, <2>2, <2>3, <2>4 DEF Holds
    <2>5. CASE ~Renamed(r)
        <3>1. call[c].target \in {NoPath, pathOf[z]}
            BY <1>7, <2>5 DEF ResolveReturn, Holds
        <3>2. path' \in {NoPath, pathOf[z]}
            BY <1>7, <2>5, <3>1 DEF ResolveReturn, Holds
        <3>3. call'[c].at # "looked" /\ (call'[c].at = "call" => call'[c].target = pathOf[z])
            BY <1>1, <1>7, <3>1 DEF ResolveReturn, Finish, Idle, CallRecord
        <3> QED  BY <1>1, <2>1, <2>3, <2>5, <3>2, <3>3 DEF Holds
    <2> QED  BY <2>4, <2>5
<1>8. CASE Serve(c)
    <2>1. /\ UNCHANGED <<name, path>> /\ \A d \in Caller \ {c} : call'[d] = call[d]
          /\ call[c].at = "call" /\ call'[c].at \in {"acked", "nacked"}
          /\ call'[c].op = call[c].op /\ call'[c].arg = call[c].arg
        BY <1>1, <1>8 DEF Serve, Goto, CallRecord, handleVars
    <2>2. CASE UNCHANGED daemonVars /\ (call[c].op = "rename" => call'[c].at = "nacked")
        BY <1>1, <2>1, <2>2, HoldsLocally DEF Renamed, daemonVars, OnlyOneRenames
    <2>3. CASE Execute(RequestOf(c)) /\ call[c].op = "rename" /\ call'[c].at = "acked"
        <3>1. c = r /\ call[r].target = pathOf[z] /\ pathOf[z] # NoPath
            BY <1>1, <2>1, <2>3 DEF OnlyOneRenames, Holds, Renamed, AddressInv, LookupInv, TypeOK
        <3>2. RenameZone(z, call[r].arg)
            BY <1>1, <2>3, <3>1 DEF Execute, RequestOf, AddressInv, DaemonInv
        <3>3. nameOf'[z] = call[r].arg
            BY <1>1, <3>2 DEF RenameZone
        <3> QED  BY <2>1, <2>3, <3>1, <3>3 DEF Holds, Renamed
    <2>4. CASE Execute(RequestOf(c)) /\ call[c].op = "edit"
        <3>1. UNCHANGED daemonVars
            BY <2>4 DEF Execute, RequestOf
        <3> QED  BY <2>2, <2>4, <3>1
    <2>5. call[c].op \in {"edit", "rename"}
        BY DEF OnlyOneRenames
    <2> QED  BY <1>1, <1>8, <2>2, <2>3, <2>4, <2>5 DEF Serve, Goto, CallRecord
<1>9. CASE Return(c)
    BY <1>1, <1>9, HoldsLocally DEF Return, Goto, Finish, Idle, Renamed, CallRecord,
        handleVars, daemonVars
<1>10. CASE Install(c)
    <2>1. call[c].op = "rename" /\ c = r /\ Renamed(r)
        BY <1>10 DEF Install, OnlyOneRenames, AddressInv, LookupInv, TypeOK, Renamed
    <2>2. \A d \in Caller : call[d].at # "looked"
        BY <1>10 DEF Install, AddressInv, LookupInv, MutexHeld, LookingUp
    <2>3. nameOf'[z] = name' /\ path' = NoPath
        BY <1>10, <2>1 DEF Install, Holds, daemonVars
    <2>4. call'[c] = Idle /\ \A d \in Caller \ {c} : call'[d] = call[d]
        BY <1>1, <1>10 DEF Install, Finish
    <2> QED  BY <2>1, <2>2, <2>3, <2>4 DEF Holds, Renamed, Idle
<1>11. CASE ExpireLookup(c)
    BY <1>1, <1>11, HoldsLocally DEF ExpireLookup, Finish, Idle, Renamed, SoleRenamer, daemonVars
<1>12. CASE Expire(c)
    BY <1>1, <1>12, HoldsLocally DEF Expire, Finish, Idle, Renamed, SoleRenamer, handleVars,
        daemonVars
<1> QED  BY <1>2, <1>3, <1>4, <1>5, <1>6, <1>7, <1>8, <1>9, <1>10, <1>11, <1>12 DEF Step

\* A zone that another client adds takes a name nobody has and an unused identity.
LEMMA AddedApart ==
    ASSUME TypeOK, NamesUnique, NEW n \in Name, AddZone(n)
    PROVE  /\ NamesUnique'
           /\ \A z \in Zone : nameOf[z] # NoName =>
                  nameOf'[z] = nameOf[z] /\ pathOf'[z] = pathOf[z]
<1> USE HandleAssumption
<1>1. PICK y \in Zone, p \in Path \ used :
        /\ nameOf[y] = NoName
        /\ nameOf' = [nameOf EXCEPT ![y] = n]
        /\ pathOf' = [pathOf EXCEPT ![y] = p]
    BY DEF AddZone
<1>2. NameFree(n)
    BY DEF AddZone
<1> QED  BY <1>1, <1>2 DEF TypeOK, NamesUnique, NameFree

LEMMA ExecuteNames ==
    ASSUME TypeOK, NamesUnique, NEW q, Execute(q)
    PROVE  NamesUnique'
<1>1. CASE UNCHANGED daemonVars
    BY <1>1 DEF NamesUnique, daemonVars
<1>2. ASSUME NEW z \in Zone, RenameZone(z, q.arg) PROVE NamesUnique'
    BY <1>2 DEF RenameZone, NameFree, NamesUnique, TypeOK
<1>3. ASSUME NEW z \in Zone, RemoveZone(z) PROVE NamesUnique'
    BY <1>3 DEF RemoveZone, NamesUnique, TypeOK
<1> QED  BY <1>1, <1>2, <1>3 DEF Execute

LEMMA StepNames ==
    ASSUME TypeOK, NamesUnique, NEW c \in Caller, Step(c)
    PROVE  NamesUnique'
<1>1. UNCHANGED daemonVars \/ Execute(RequestOf(c))
    BY DEF Step, Edit, Rename, Remove, ResolveCached, ResolveLookup, ServeLookup,
        ResolveReturn, Serve, Return, Install, ExpireLookup, Expire
<1> QED  BY <1>1, ExecuteNames DEF NamesUnique, daemonVars

LEMMA EnvironmentHolds ==
    ASSUME NEW r, SoleRenamer(r), AddressInv, NamesUnique, OnlyOneRenames(r),
           NEW z \in Zone, Holds(z, r), Environment
    PROVE  NamesUnique' /\ OnlyOneRenames(r)' /\ Holds(z, r)'
<1>1. UNCHANGED <<handleVars, call>> /\ orphans' \subseteq orphans
    BY EnvironmentLocal
       DEF Environment, ServeOrphan, OutsideAdd, OutsideRemove, OutsideRename, Reexport
<1>2. OnlyOneRenames(r)'
    BY <1>1 DEF OnlyOneRenames
<1>3. nameOf[z] # NoName
    BY HandleAssumption
       DEF Holds, Renamed, SoleRenamer, AddressInv, LookupInv, TypeOK
<1>4. CASE UNCHANGED daemonVars
    BY <1>1, <1>2, <1>4 DEF NamesUnique, Holds, Renamed, daemonVars, handleVars
<1>5. CASE ServeOrphan
    <2>1. UNCHANGED daemonVars
        BY <1>5 DEF ServeOrphan, Execute, OnlyOneRenames
    <2> QED  BY <1>4, <2>1
<1>6. CASE OutsideAdd
    <2>1. PICK n \in Name : AddZone(n)
        BY <1>6 DEF OutsideAdd
    <2>2. NamesUnique' /\ nameOf'[z] = nameOf[z] /\ pathOf'[z] = pathOf[z]
        BY <1>3, <2>1, AddedApart DEF AddressInv, LookupInv
    <2> QED  BY <1>1, <1>2, <2>2 DEF Holds, Renamed, handleVars
<1> QED  BY <1>5, <1>6 DEF Environment, OutsideRemove, OutsideRename, Reexport, SoleRenamer

LEMMA NextTarget ==
    ASSUME NEW r, SoleRenamer(r), TargetInv(r), [Next]_vars
    PROVE  TargetInv(r)'
<1>1. AddressInv /\ TypeOK /\ NamesUnique /\ OnlyOneRenames(r)
    BY DEF TargetInv, AddressInv, LookupInv
<1>2. PICK z \in Zone : Holds(z, r)
    BY DEF TargetInv
<1>3. AddressInv'
    BY <1>1, NextAddress DEF SoleRenamer
<1>4. CASE UNCHANGED vars
    BY <1>1, <1>2, <1>3, <1>4
       DEF TargetInv, NamesUnique, OnlyOneRenames, Holds, Renamed, vars
<1>5. CASE Environment
    BY <1>1, <1>2, <1>3, <1>5, EnvironmentHolds DEF TargetInv
<1>6. ASSUME NEW c \in Caller, Step(c) PROVE TargetInv(r)'
    BY <1>1, <1>2, <1>3, <1>6, StepOneRenames, StepNames, StepHolds DEF TargetInv
<1> QED  BY <1>4, <1>5, <1>6 DEF Next

\* When one goroutine alone renames and waits for the answer, and nobody removes the
\* zone or renames it from outside, the handle is on its zone, by name and by path,
\* whenever no Rename is under way, whatever the other goroutines do and wherever
\* their contexts end (permzone.go: "The cached path is invalidated so subsequent
\* calls re-resolve under the new name").
THEOREM HandleStaysOnTarget ==
    ASSUME NEW r, SoleRenamer(r)
    PROVE  Spec => []HandleOnTarget
<1>1. Init => TargetInv(r)
    BY InitTarget
<1>2. TargetInv(r) /\ [Next]_vars => TargetInv(r)'
    BY NextTarget
<1>3. TargetInv(r) => HandleOnTarget
    <2> SUFFICES ASSUME TargetInv(r), ~RenamePending
                 PROVE  \E z \in Zone : nameOf[z] = name /\ path \in {NoPath, pathOf[z]}
        BY DEF HandleOnTarget
    <2>1. ~Renamed(r)
        BY DEF RenamePending, Renamed, SoleRenamer
    <2> QED  BY <2>1 DEF TargetInv, Holds
<1> QED  BY <1>1, <1>2, <1>3, PTL DEF Spec

LEMMA TargetReaches ==
    ASSUME NEW r, SoleRenamer(r), TargetInv(r)
    PROVE  HandleReachesNamedZone
<1> SUFFICES ASSUME \A c \in Caller : call[c].at = "idle",
                    NEW z \in Zone, nameOf[z] = name
             PROVE  path \in {NoPath, pathOf[z]}
    BY DEF HandleReachesNamedZone
<1>1. ~Renamed(r)
    BY DEF Renamed, SoleRenamer
<1>2. PICK y \in Zone : Holds(y, r)
    BY DEF TargetInv
<1>3. nameOf[y] = name /\ path \in {NoPath, pathOf[y]}
    BY <1>1, <1>2 DEF Holds
<1>4. name # NoName
    BY HandleAssumption DEF TargetInv, AddressInv, LookupInv, TypeOK
<1>5. y = z
    BY <1>3, <1>4 DEF TargetInv, NamesUnique
<1> QED  BY <1>3, <1>5

\* With one goroutine that renames and waits, and nobody who removes the zone, a handle at
\* rest reaches the zone of its name.  It is the removal, which leaves the path cached while
\* a new zone takes the name, that makes the promise of Zone ("a handle for permanent
\* operations on the named zone", permzone.go) fail.
THEOREM HandleReaches ==
    ASSUME NEW r, SoleRenamer(r)
    PROVE  Spec => []HandleReachesNamedZone
<1>1. Init => TargetInv(r)
    BY InitTarget
<1>2. TargetInv(r) /\ [Next]_vars => TargetInv(r)'
    BY NextTarget
<1>3. TargetInv(r) => HandleReachesNamedZone
    BY TargetReaches
<1> QED  BY <1>1, <1>2, <1>3, PTL DEF Spec
===============================================================================
