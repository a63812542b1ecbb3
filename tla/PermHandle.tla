------------------------------ MODULE PermHandle ------------------------------
(***************************************************************************)
(* A permanent-configuration handle (permzone.go) shared by goroutines.    *)
(*                                                                         *)
(* The handle pairs a name with the lazily resolved, cached D-Bus path of  *)
(* the daemon's config object.  Every method is callOn: resolve the path   *)
(* (under the handle's mutex, which is held across the getZoneByName call) *)
(* and then, with the mutex released, call the method on that path.        *)
(* Between the two, and between a request, its execution by the daemon and *)
(* its reply, other goroutines, other D-Bus clients and the caller's       *)
(* context may act.                                                        *)
(*                                                                         *)
(* The daemon is external.  Only what the library relies on is modelled:   *)
(* a zone has a name and an object path, lookups go by name, methods go by *)
(* path, a call to a path that no longer exists fails, and any call may be *)
(* refused.  Requests are served in any order.                             *)
(***************************************************************************)
EXTENDS Naturals, FiniteSets

CONSTANTS
    Caller,    \* goroutines that share the handle
    Renamer,   \* those that may call Rename
    Remover,   \* those that may call Remove
    Bounded,   \* those whose context may expire
    Name,      \* zone names
    InitName,  \* the name the handle was built with
    Zone,      \* identities of zones, whatever they are called
    Path,      \* object paths the daemon may issue: the bound on AddZone
    MaxOrphans, \* how many abandoned requests may await the daemon: a bound
    Outside,   \* what other D-Bus clients do: "add", "remove", "rename", "reexport"
    NoPath,    \* the empty path
    NoName,    \* the name of a zone that does not exist
    Nobody     \* the holder of a free mutex

ASSUME HandleAssumption ==
    /\ Renamer \subseteq Caller /\ Remover \subseteq Caller /\ Bounded \subseteq Caller
    /\ InitName \in Name
    /\ NoPath \notin Path /\ NoName \notin Name /\ Nobody \notin Caller
    /\ Outside \subseteq {"add", "remove", "rename", "reexport"}
    /\ MaxOrphans \in Nat

VARIABLES
    name,        \* PermZone.name
    path,        \* PermZone.path
    mu,          \* PermZone.mu: who holds it
    call,        \* where each goroutine's current method call stands
    orphans,     \* requests whose caller gave up before the daemon served them
                 \* (of two identical ones, one is kept)
    nameOf,      \* the daemon: what each zone is called
    pathOf,      \* the daemon: the object path of each zone
    used,        \* the daemon: paths issued so far
    designated   \* history: zones that have borne the handle's name since they exist

handleVars == <<name, path, mu>>
daemonVars == <<nameOf, pathOf, used>>
vars == <<name, path, mu, call, orphans, nameOf, pathOf, used, designated>>

Op == {"edit", "rename", "remove"}
Stage == {"idle", "lock", "lookup", "looked", "call", "acked", "nacked", "install"}
Request == [op : Op, path : Path, arg : Name \cup {NoName}]
Idle == [at |-> "idle", op |-> "edit", arg |-> NoName, key |-> NoName, target |-> NoPath]

(***************************************************************************)
(* The daemon.                                                             *)
(***************************************************************************)
NameFree(n) == \A z \in Zone : nameOf[z] # n

AddZone(n) ==
    /\ NameFree(n)
    /\ \E z \in Zone, p \in Path \ used :
        /\ nameOf[z] = NoName
        /\ nameOf' = [nameOf EXCEPT ![z] = n]
        /\ pathOf' = [pathOf EXCEPT ![z] = p]
        /\ used' = used \cup {p}

RemoveZone(z) ==
    /\ nameOf' = [nameOf EXCEPT ![z] = NoName]
    /\ pathOf' = [pathOf EXCEPT ![z] = NoPath]
    /\ UNCHANGED used

\* The library allows for a rename that moves the object: Rename drops the path.
RenameZone(z, n) ==
    /\ NameFree(n)
    /\ nameOf' = [nameOf EXCEPT ![z] = n]
    /\ \/ UNCHANGED <<pathOf, used>>
       \/ \E p \in Path \ used :
            /\ pathOf' = [pathOf EXCEPT ![z] = p]
            /\ used' = used \cup {p}

\* Executing a request whose path is that of a live object.
Execute(r) ==
    \E z \in Zone :
        /\ pathOf[z] = r.path
        /\ \/ r.op = "edit" /\ UNCHANGED daemonVars
           \/ r.op = "rename" /\ RenameZone(z, r.arg)
           \/ r.op = "remove" /\ RemoveZone(z)

\* The history follows every step: zones that are gone leave, a zone that bears
\* the handle's name enters.
Track ==
    designated' = {z \in Zone : \/ nameOf'[z] = name'
                                \/ z \in designated /\ nameOf'[z] # NoName}

(***************************************************************************)
(* One method call on the handle.                                          *)
(***************************************************************************)
RequestOf(c) == [op |-> call[c].op, path |-> call[c].target, arg |-> call[c].arg]

Goto(c, stage) == call' = [call EXCEPT ![c].at = stage]
Finish(c) == call' = [call EXCEPT ![c] = Idle]

\* An element method, setter, getter, Settings, Update or LoadDefaults.
Edit(c) ==
    /\ call[c].at = "idle"
    /\ Goto(c, "lock")
    /\ UNCHANGED <<handleVars, orphans, daemonVars>>
    /\ Track

Rename(c, n) ==
    /\ c \in Renamer
    /\ call[c].at = "idle"
    /\ call' = [call EXCEPT ![c].at = "lock", ![c].op = "rename", ![c].arg = n]
    /\ UNCHANGED <<handleVars, orphans, daemonVars>>
    /\ Track

Remove(c) ==
    /\ c \in Remover
    /\ call[c].at = "idle"
    /\ call' = [call EXCEPT ![c].at = "lock", ![c].op = "remove"]
    /\ UNCHANGED <<handleVars, orphans, daemonVars>>
    /\ Track

\* Variant, used by no specification: keeps the mutex of a cached resolve.
ResolveCachedKeepsLock(c) ==
    /\ call[c].at = "lock"
    /\ mu = Nobody
    /\ path # NoPath
    /\ mu' = c
    /\ call' = [call EXCEPT ![c].at = "call", ![c].target = path]
    /\ UNCHANGED <<name, path, orphans, daemonVars>>
    /\ Track

\* resolve finds the path cached: lock, read and unlock in one step.
ResolveCached(c) ==
    /\ call[c].at = "lock"
    /\ mu = Nobody
    /\ path # NoPath
    /\ call' = [call EXCEPT ![c].at = "call", ![c].target = path]
    /\ UNCHANGED <<handleVars, orphans, daemonVars>>
    /\ Track

\* Variant, used by no specification: looks up although a path is cached.
ResolveLookupUncached(c) ==
    /\ call[c].at = "lock"
    /\ mu = Nobody
    /\ mu' = c
    /\ call' = [call EXCEPT ![c].at = "lookup", ![c].key = name]
    /\ UNCHANGED <<name, path, orphans, daemonVars>>
    /\ Track

\* resolve asks the daemon, keeping the mutex locked meanwhile.
ResolveLookup(c) ==
    /\ path = NoPath
    /\ call[c].at = "lock"
    /\ mu = Nobody
    /\ mu' = c
    /\ call' = [call EXCEPT ![c].at = "lookup", ![c].key = name]
    /\ UNCHANGED <<name, path, orphans, daemonVars>>
    /\ Track

\* getZoneByName: the path of the zone so named, or an error.
ServeLookup(c) ==
    /\ call[c].at = "lookup"
    /\ \E p \in {pathOf[z] : z \in {y \in Zone : nameOf[y] = call[c].key}} \cup {NoPath} :
         call' = [call EXCEPT ![c].at = "looked", ![c].target = p]
    /\ UNCHANGED <<handleVars, orphans, daemonVars>>
    /\ Track

\* resolve returns: the path is cached, or the error ends the method.
ResolveReturn(c) ==
    /\ call[c].at = "looked"
    /\ mu' = Nobody
    /\ \/ /\ call[c].target # NoPath
          /\ path' = call[c].target
          /\ call' = [call EXCEPT ![c].at = "call", ![c].key = NoName]
       \/ /\ call[c].target = NoPath
          /\ Finish(c)
          /\ UNCHANGED path
    /\ UNCHANGED <<name, orphans, daemonVars>>
    /\ Track

\* The daemon executes the method, or refuses it.
Serve(c) ==
    /\ call[c].at = "call"
    /\ \/ Execute(RequestOf(c)) /\ Goto(c, "acked")
       \/ UNCHANGED daemonVars /\ Goto(c, "nacked")
    /\ UNCHANGED <<handleVars, orphans>>
    /\ Track

\* The reply arrives.  Only a successful Rename goes on, to wait for the mutex.
Return(c) ==
    /\ call[c].at \in {"acked", "nacked"}
    /\ IF call[c].at = "acked" /\ call[c].op = "rename"
       THEN Goto(c, "install")
       ELSE Finish(c)
    /\ UNCHANGED <<handleVars, orphans, daemonVars>>
    /\ Track

\* Variant, used by no specification: installs without the mutex.
InstallUnlocked(c) ==
    /\ call[c].at = "install"
    /\ name' = call[c].arg
    /\ path' = NoPath
    /\ Finish(c)
    /\ UNCHANGED <<mu, orphans, daemonVars>>
    /\ Track

\* Variant, used by no specification: keeps the path of the old name.
InstallKeepsPath(c) ==
    /\ call[c].at = "install"
    /\ mu = Nobody
    /\ name' = call[c].arg
    /\ Finish(c)
    /\ UNCHANGED <<path, mu, orphans, daemonVars>>
    /\ Track

\* Variant, used by no specification: installs the name of the lookup.
InstallWrongName(c) ==
    /\ call[c].at = "install"
    /\ mu = Nobody
    /\ name' = call[c].key
    /\ path' = NoPath
    /\ Finish(c)
    /\ UNCHANGED <<mu, orphans, daemonVars>>
    /\ Track

\* The tail of Rename: the new name, and no path, under the mutex.
Install(c) ==
    /\ call[c].at = "install"
    /\ mu = Nobody
    /\ name' = call[c].arg
    /\ path' = NoPath
    /\ Finish(c)
    /\ UNCHANGED <<mu, orphans, daemonVars>>
    /\ Track

\* The context ends while the caller waits for a reply.  A method request the
\* daemon has not served yet stays on its way (when MaxOrphans already do, it is
\* refused at once); the deferred unlock runs.
ExpireLookup(c) ==
    /\ c \in Bounded
    /\ call[c].at \in {"lookup", "looked"}
    /\ mu' = Nobody
    /\ Finish(c)
    /\ UNCHANGED <<name, path, orphans, daemonVars>>
    /\ Track

Expire(c) ==
    /\ c \in Bounded
    /\ call[c].at \in {"call", "acked", "nacked"}
    /\ orphans' = IF call[c].at = "call" /\ Cardinality(orphans) < MaxOrphans
                  THEN orphans \cup {RequestOf(c)}
                  ELSE orphans
    /\ Finish(c)
    /\ UNCHANGED <<handleVars, daemonVars>>
    /\ Track

ServeOrphan ==
    \E r \in orphans :
        /\ orphans' = orphans \ {r}
        /\ Execute(r) \/ UNCHANGED daemonVars
        /\ UNCHANGED <<handleVars, call>>
        /\ Track

(***************************************************************************)
(* Other clients of the daemon, and the daemon itself.                     *)
(***************************************************************************)
OutsideAdd ==
    /\ "add" \in Outside
    /\ \E n \in Name : AddZone(n)
    /\ UNCHANGED <<handleVars, call, orphans>>
    /\ Track

OutsideRemove ==
    /\ "remove" \in Outside
    /\ \E z \in Zone : nameOf[z] # NoName /\ RemoveZone(z)
    /\ UNCHANGED <<handleVars, call, orphans>>
    /\ Track

OutsideRename ==
    /\ "rename" \in Outside
    /\ \E z \in Zone, n \in Name : nameOf[z] # NoName /\ RenameZone(z, n)
    /\ UNCHANGED <<handleVars, call, orphans>>
    /\ Track

\* A daemon that starts numbering its config objects afresh.
Reexport ==
    /\ "reexport" \in Outside
    /\ pathOf' \in [Zone -> Path \cup {NoPath}]
    /\ \A z \in Zone : pathOf'[z] = NoPath <=> nameOf[z] = NoName
    /\ \A y, z \in Zone : pathOf'[y] = pathOf'[z] => y = z \/ pathOf'[y] = NoPath
    /\ used' = {pathOf'[z] : z \in Zone} \ {NoPath}
    /\ UNCHANGED <<nameOf, handleVars, call, orphans>>
    /\ Track

(***************************************************************************)
(* The specification.                                                      *)
(***************************************************************************)
Init ==
    /\ name = InitName /\ path = NoPath /\ mu = Nobody
    /\ call = [c \in Caller |-> Idle]
    /\ orphans = {}
    /\ \E z \in Zone, p \in Path :
        /\ nameOf = [y \in Zone |-> IF y = z THEN InitName ELSE NoName]
        /\ pathOf = [y \in Zone |-> IF y = z THEN p ELSE NoPath]
        /\ used = {p}
        /\ designated = {z}

Step(c) ==
    \/ Edit(c) \/ Remove(c) \/ \E n \in Name : Rename(c, n)
    \/ ResolveCached(c) \/ ResolveLookup(c) \/ ServeLookup(c) \/ ResolveReturn(c)
    \/ Serve(c) \/ Return(c) \/ Install(c)
    \/ ExpireLookup(c) \/ Expire(c)

Environment == ServeOrphan \/ OutsideAdd \/ OutsideRemove \/ OutsideRename \/ Reexport

Next == Environment \/ \E c \in Caller : Step(c)

\* The goroutines run, sync.Mutex starves nobody, a deadline passes.  Nothing is
\* assumed of the daemon: it may never answer.
Fairness ==
    \A c \in Caller :
        /\ SF_vars(ResolveCached(c))
        /\ SF_vars(ResolveLookup(c))
        /\ SF_vars(Install(c))
        /\ WF_vars(ResolveReturn(c))
        /\ WF_vars(Return(c))
        /\ WF_vars(ExpireLookup(c))
        /\ WF_vars(Expire(c))

Spec == Init /\ [][Next]_vars
FairSpec == Spec /\ Fairness

(***************************************************************************)
(* Properties.                                                             *)
(***************************************************************************)
CallRecord == [at : Stage, op : Op, arg : Name \cup {NoName},
               key : Name \cup {NoName}, target : Path \cup {NoPath}]

\* The variables have their types, a method is called only on a path, and a Rename
\* carries the name it is to install (the fields of PermZone and the locals of
\* resolve, callOn and Rename).
TypeOK ==
    /\ name \in Name
    /\ path \in Path \cup {NoPath}
    /\ mu \in Caller \cup {Nobody}
    /\ call \in [Caller -> CallRecord]
    /\ \A c \in Caller :
        /\ call[c].op = "rename" => call[c].arg \in Name
        /\ call[c].at = "call" => call[c].target \in Path
        /\ call[c].at = "install" => call[c].op = "rename"
    /\ orphans \subseteq Request
    /\ \A r \in orphans : r.op = "rename" => r.arg \in Name
    /\ nameOf \in [Zone -> Name \cup {NoName}]
    /\ pathOf \in [Zone -> Path \cup {NoPath}]
    /\ used \subseteq Path
    /\ designated \subseteq Zone

\* The zone living at p, if there is one, has borne the handle's name.
OnlyDesignatedAt(p) == \A z \in Zone : pathOf[z] = p => p = NoPath \/ z \in designated

\* No method is ever executed on a stranger's zone: a request that is waiting at
\* the daemon, even one whose caller gave up long ago, is addressed either to an
\* object that is gone or to a zone that has borne the handle's name (PermZone is
\* "a handle for permanent edits to a single zone").  It rests on the mutex being
\* held across the lookup, on Rename dropping the path together with the name, and
\* on the daemon not reissuing paths.
AddressesDesignated ==
    /\ \A c \in Caller : call[c].at = "call" => OnlyDesignatedAt(call[c].target)
    /\ \A r \in orphans : OnlyDesignatedAt(r.path)

LookingUp(c) == call[c].at \in {"lookup", "looked"}

\* z.mu is held as long as a getZoneByName is outstanding, by the goroutine that made it,
\* and never longer: not after an error, not after the end of its context, not by a resolve
\* that found the path cached and not after a Rename (resolve
\* unlocks when it returns, Rename after it has set the name).
MutexHeld == \A c \in Caller : LookingUp(c) <=> mu = c

\* While one goroutine's getZoneByName is outstanding the handle keeps the name
\* that was asked for and caches nothing, so the answer is never cached under
\* another name (resolve holds z.mu; Rename takes it).
LookupsAreCurrent ==
    \A c \in Caller : call[c].at \in {"lookup", "looked"} => call[c].key = name /\ path = NoPath

\* "The object path is resolved once from the zone name and cached": a cached path
\* gives way only to a completed Rename, never to a second lookup.
CachedUntilRename ==
    [][path # NoPath /\ path' # path =>
         path' = NoPath /\ \E c \in Caller : call[c].at = "install"]_vars

\* A Rename the daemon may have executed and the handle has not taken over.
RenamePending ==
    \/ \E c \in Caller : call[c].op = "rename" /\ call[c].at \in {"call", "acked", "install"}
    \/ \E r \in orphans : r.op = "rename"

\* "The cached path is invalidated so subsequent calls re-resolve under the new
\* name": once no Rename is under way, a zone bears the handle's name and the
\* cached path, if any, is that zone's.
HandleOnTarget ==
    ~RenamePending =>
        \E z \in Zone : nameOf[z] = name /\ path \in {NoPath, pathOf[z]}

\* "Zone returns a handle for permanent operations on the named zone": when nothing
\* is under way and a zone bears the handle's name, the handle reaches that zone.
HandleReachesNamedZone ==
    (\A c \in Caller : call[c].at = "idle") /\ orphans = {} =>
        \A z \in Zone : nameOf[z] = name => path \in {NoPath, pathOf[z]}

\* Every method call on the handle ends, whatever the daemon does, provided every
\* caller's context expires: no path through resolve or Rename leaves z.mu locked.
EveryCallReturns == \A c \in Caller : call[c].at # "idle" ~> call[c].at = "idle"
===============================================================================
