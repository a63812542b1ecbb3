----------------------------- MODULE UnlockedHandle -----------------------------
(***************************************************************************)
(* The permanent-configuration handles of every kind of object.  Only      *)
(* PermZone has a mutex; PermPolicy, PermIPSet, PermService, PermICMPType  *)
(* and PermHelper read and write their name and path without one, so their *)
(* callers must take turns.  They may overlap their calls once one of them *)
(* has cached the path, as long as none is a Rename (of policies only).    *)
(* And PermZone.Name reads the name without the mutex: it must not overlap *)
(* a Rename.                                                               *)
(*                                                                         *)
(* The module says what those rules are, and that by keeping to them the   *)
(* callers get from every handle what PermHandle describes.                *)
(***************************************************************************)
EXTENDS PermHandle

CONSTANT Kinds  \* the kinds of handles, of AllKinds

AllKinds == {"zone", "policy", "ipset", "service", "icmptype", "helper"}

ASSUME KindAssumption == Kinds \subseteq AllKinds

VARIABLES
    kind,       \* what this handle is for
    supported,  \* caps[Policies]: whether the server has policies
    naming      \* goroutines inside Name

kindVars == <<kind, supported>>
unlockedVars == <<vars, kindVars, naming>>

(***************************************************************************)
(* The callers' rules, for the start of a call.                            *)
(***************************************************************************)
Alone(c) == \A d \in Caller \ {c} : call[d].at = "idle"
NoRename == \A d \in Caller : call[d].op # "rename"

MayCall(c) ==
    /\ c \notin naming
    /\ kind = "zone" \/ Alone(c) \/ (path # NoPath /\ NoRename)

MayRename(c) ==
    /\ naming = {}
    /\ kind = "zone" \/ (kind = "policy" /\ Alone(c))

(***************************************************************************)
(* The methods.  callOn, Rename and Remove are those of PermHandle.        *)
(***************************************************************************)
Available == kind = "policy" => supported

\* PermPolicy.resolve: ErrUnsupported comes first.
Unsupported(c) ==
    /\ call[c].at = "lock" /\ ~Available
    /\ Finish(c)
    /\ UNCHANGED <<handleVars, orphans, daemonVars>>
    /\ Track

\* Variant, used by no specification: looks up although a path is cached.
UnlockedLookupAgain(c) ==
    /\ call[c].at = "lock" /\ Available
    /\ call' = [call EXCEPT ![c].at = "lookup", ![c].key = name]
    /\ UNCHANGED <<handleVars, orphans, daemonVars>>
    /\ Track

\* resolve without a mutex.
UnlockedLookup(c) ==
    /\ call[c].at = "lock" /\ Available
    /\ path = NoPath
    /\ call' = [call EXCEPT ![c].at = "lookup", ![c].key = name]
    /\ UNCHANGED <<handleVars, orphans, daemonVars>>
    /\ Track

UnlockedReturn(c) ==
    /\ call[c].at = "looked"
    /\ \/ /\ call[c].target # NoPath
          /\ path' = call[c].target
          /\ call' = [call EXCEPT ![c].at = "call", ![c].key = NoName]
       \/ /\ call[c].target = NoPath
          /\ Finish(c)
          /\ UNCHANGED path
    /\ UNCHANGED <<name, mu, orphans, daemonVars>>
    /\ Track

\* PermZone.Name, which takes its time.
StartName(c) ==
    /\ kind = "zone" /\ NoRename
    /\ call[c].at = "idle" /\ c \notin naming
    /\ naming' = naming \cup {c}
    /\ UNCHANGED <<vars, kindVars>>

EndName(c) ==
    /\ c \in naming
    /\ naming' = naming \ {c}
    /\ UNCHANGED <<vars, kindVars>>

(***************************************************************************)
(* The specification.                                                      *)
(***************************************************************************)
UnlockedInit ==
    /\ Init
    /\ kind \in Kinds /\ supported \in BOOLEAN /\ naming = {}

Method(c) ==
    \/ MayCall(c) /\ (Edit(c) \/ Remove(c))
    \/ MayRename(c) /\ \E n \in Name : Rename(c, n)
    \/ Unsupported(c)
    \/ Available /\ ResolveCached(c)
    \/ kind = "zone" /\ (ResolveLookup(c) \/ ResolveReturn(c))
    \/ kind # "zone" /\ (UnlockedLookup(c) \/ UnlockedReturn(c))
    \/ ServeLookup(c) \/ Serve(c) \/ Return(c) \/ Install(c)
    \/ ExpireLookup(c) \/ Expire(c)

UnlockedNext ==
    \/ (Environment \/ \E c \in Caller : Method(c)) /\ UNCHANGED <<kindVars, naming>>
    \/ \E c \in Caller : StartName(c) \/ EndName(c)

UnlockedSpec == UnlockedInit /\ [][UnlockedNext]_unlockedVars

(***************************************************************************)
(* Properties.                                                             *)
(***************************************************************************)
\* What a goroutine is about to do to the handle's fields, other than holding the mutex.
Reads(c) ==
    (IF kind # "zone" /\ call[c].at = "lock" THEN {"name", "path"} ELSE {})
    \cup (IF c \in naming THEN {"name"} ELSE {})

Writes(c) ==
    CASE kind # "zone" /\ call[c].at = "looked" -> {"path"}
      [] call[c].at = "install" -> {"name", "path"}
      [] OTHER -> {}

\* Callers that keep to the rules never race: while one is about to write the name or
\* the path, no other is about to read or write it without the mutex.
NoRace ==
    \A c, d \in Caller : c # d =>
        /\ Writes(c) \cap Reads(d) = {}
        /\ kind # "zone" => Writes(c) \cap Writes(d) = {}

\* The caller that would hold the mutex.
Holder ==
    IF kind = "zone" THEN mu
    ELSE IF \E c \in Caller : call[c].at \in {"lookup", "looked"}
         THEN CHOOSE c \in Caller : call[c].at \in {"lookup", "looked"}
         ELSE Nobody

\* Its calls: those that are not refused at once.
Calls == IF Available THEN call ELSE [c \in Caller |-> Idle]

Locked == INSTANCE PermHandle WITH mu <- Holder, call <- Calls

\* To such callers a handle without mutex is one with a mutex: everything that PermHandle
\* promises of zone handles is true of the other handles (and a policy handle on a server
\* without policies is one that is never used).
ImplementsLocked == Locked!Spec
===============================================================================
