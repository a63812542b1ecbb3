--------------------------- MODULE SettingsTransport ---------------------------
(***************************************************************************)
(* Reading and replacing settings wholesale: which transport each method   *)
(* chooses (the positional tuple of old servers, the dictionary of new     *)
(* ones, or none), what the two forms carry, and what the caller's         *)
(* read - change - Update cycle does to the object on the server.          *)
(*                                                                         *)
(* A setting is present or not and has one of two values, which is enough  *)
(* to tell a field that is carried from one that is lost, reset or mixed   *)
(* up with another.  nil and empty lists are the same value: both encode   *)
(* as an empty array.  Unwrapping variants (decode.go) does not change a   *)
(* value.  The handles' path cache is the subject of PermHandle.           *)
(*                                                                         *)
(* The server is external: its signatures, its dictionary keys, and        *)
(* whether an update resets or keeps the settings it does not mention.     *)
(***************************************************************************)
EXTENDS Naturals, Sequences, Functions

CONSTANTS
    Kinds,       \* the settings to read and replace, of KindOf
    Servers,     \* versions of firewalld, as <<major, minor>>
    Unmentioned, \* what an update does to other settings: "reset", "kept"
    Fault,       \* "garbled": version unreadable; "upgrade": server replaced;
                 \* "edit": other clients edit the object
    Contested,   \* the fields that others edit: a bound
    MaxChanges   \* changes the caller makes in a behaviour: a bound

\* The codec of each kind.
KindOf == [zone |-> "zone", runtimeZone |-> "zone", policy |-> "policy",
           runtimePolicy |-> "policy", service |-> "service", runtimeService |-> "service",
           ipset |-> "ipset", icmptype |-> "icmptype", helper |-> "helper", direct |-> "direct"]

ASSUME TransportAssumption ==
    /\ Kinds \subseteq DOMAIN KindOf
    /\ Servers \subseteq Nat \X Nat
    /\ Unmentioned \subseteq {"reset", "kept"}
    /\ Fault \subseteq {"garbled", "upgrade", "edit"}
    /\ MaxChanges \in Nat

VARIABLES
    kind,     \* the settings this behaviour is about
    server,   \* the version that is running
    rest,     \* what it does to settings an update does not mention
    caps,     \* Conn.caps
    store,    \* the object's settings on the server, or Nothing
    draft,    \* the settings value in the caller's hands, or Nothing
    touched,  \* history: fields of draft that the caller wrote, not the server
    theirs,   \* history: fields others wrote since the caller last read or updated
    changes,  \* changes the caller made so far
    outcome   \* of the last call

vars == <<kind, server, rest, caps, store, draft, touched, theirs, changes, outcome>>

Value == {"zero", "default", "other"}
Nothing == [f \in {} |-> "zero"]

(***************************************************************************)
(* Versions and capabilities.                                              *)
(***************************************************************************)
atLeast(v, since) == IF v[1] # since[1] THEN v[1] > since[1] ELSE v[2] >= since[2]

Since == [DictZoneSettings |-> <<0, 9>>, Policies |-> <<0, 9>>, AddZone2 |-> <<0, 9>>,
          ServiceSettings2 |-> <<1, 0>>, ResetToDefaults |-> <<1, 0>>]

capsFor(v) == {c \in DOMAIN Since : atLeast(v, Since[c])}

\* A version string is the sequence of its components, each <<>> if it does not begin with
\* a number or with one too large.
leadingInt(component) == IF component = <<>> THEN 0 ELSE component[1]

parseVersion(raw) == [i \in 1 .. 2 |-> IF i <= Len(raw) THEN leadingInt(raw[i]) ELSE 0]

\* The version property may be missing, cut off or unreadable in part.
VersionProperty(v) ==
    {<<<<v[1]>>, <<v[2]>>>>}
    \cup IF "garbled" \in Fault
         THEN {<<>>, <<<<v[1]>>>>} \cup {<<a, b>> : a \in {<<>>, <<v[1]>>}, b \in {<<>>, <<v[2]>>}}
         ELSE {}

readVersion(v) == {parseVersion(raw) : raw \in VersionProperty(v)}

(***************************************************************************)
(* The tuple form: the order in which the encoder's struct lists the       *)
(* fields, and the position at which the decoder looks for each.           *)
(***************************************************************************)
zoneTuple == <<"Version", "Short", "Description", "Unused", "Target", "Services", "Ports",
               "ICMPBlocks", "Masquerade", "ForwardPorts", "Interfaces", "Sources", "RichRules",
               "Protocols", "SourcePorts", "ICMPBlockInversion">>
zoneFromTuple == [Version |-> 0, Short |-> 1, Description |-> 2, Target |-> 4, Services |-> 5,
                  Ports |-> 6, ICMPBlocks |-> 7, Masquerade |-> 8, ForwardPorts |-> 9,
                  Interfaces |-> 10, Sources |-> 11, RichRules |-> 12, Protocols |-> 13,
                  SourcePorts |-> 14, ICMPBlockInversion |-> 15]

serviceTuple == <<"Version", "Short", "Description", "Ports", "Modules", "Destinations",
                  "Protocols", "SourcePorts">>
serviceFromTuple == [Version |-> 0, Short |-> 1, Description |-> 2, Ports |-> 3, Modules |-> 4,
                     Destinations |-> 5, Protocols |-> 6, SourcePorts |-> 7]

ipsetTuple == <<"Version", "Name", "Description", "Type", "Options", "Entries">>
ipsetFromTuple == [Version |-> 0, Name |-> 1, Description |-> 2, Type |-> 3, Options |-> 4,
                   Entries |-> 5]

icmpTuple == <<"Version", "Short", "Description", "Destinations">>
icmpFromTuple == [Version |-> 0, Short |-> 1, Description |-> 2, Destinations |-> 3]

helperTuple == <<"Version", "Short", "Description", "Family", "Module", "Ports">>
helperFromTuple == [Version |-> 0, Short |-> 1, Description |-> 2, Family |-> 3, Module |-> 4,
                    Ports |-> 5]

directTuple == <<"Chains", "Rules", "Passthroughs">>
directFromTuple == [Chains |-> 0, Rules |-> 1, Passthroughs |-> 2]

TupleOrder == [zone |-> zoneTuple, service |-> serviceTuple, ipset |-> ipsetTuple,
               icmptype |-> icmpTuple, helper |-> helperTuple, direct |-> directTuple,
               policy |-> <<>>]
TupleIndex == [zone |-> zoneFromTuple, service |-> serviceFromTuple, ipset |-> ipsetFromTuple,
               icmptype |-> icmpFromTuple, helper |-> helperFromTuple,
               direct |-> directFromTuple, policy |-> Nothing]

(***************************************************************************)
(* The dictionary form: the key of each field, and the keys the decoder    *)
(* tries for it in turn.                                                   *)
(***************************************************************************)
zoneDict == [Version |-> "version", Short |-> "short", Description |-> "description",
             Target |-> "target", Services |-> "services", Ports |-> "ports",
             ICMPBlocks |-> "icmp_blocks", Masquerade |-> "masquerade",
             ForwardPorts |-> "forward_ports", Interfaces |-> "interfaces",
             Sources |-> "sources", RichRules |-> "rules_str", Protocols |-> "protocols",
             SourcePorts |-> "source_ports", ICMPBlockInversion |-> "icmp_block_inversion",
             Forward |-> "forward", EgressPriority |-> "egress_priority",
             IngressPriority |-> "ingress_priority"]

\* Sent only when not zero: a server that does not know them would refuse the update.
sentIfSet == {"EgressPriority", "IngressPriority"}

zoneFromDict == [f \in DOMAIN zoneDict |->
                   IF f = "RichRules" THEN <<"rules_str", "rich_rules">> ELSE <<zoneDict[f]>>]

policyDict == [Version |-> "version", Short |-> "short", Description |-> "description",
               Target |-> "target", Priority |-> "priority", IngressZones |-> "ingress_zones",
               EgressZones |-> "egress_zones", Services |-> "services", Ports |-> "ports",
               SourcePorts |-> "source_ports", ICMPBlocks |-> "icmp_blocks",
               Masquerade |-> "masquerade", ForwardPorts |-> "forward_ports",
               RichRules |-> "rich_rules", Protocols |-> "protocols"]
policyFromDict == [f \in DOMAIN policyDict |->
                     IF f = "RichRules" THEN <<"rules_str", "rich_rules">> ELSE <<policyDict[f]>>]

serviceFromDict == [Version |-> <<"version">>, Short |-> <<"short">>,
                    Description |-> <<"description">>, Ports |-> <<"ports">>,
                    Modules |-> <<"module", "modules">>,
                    Destinations |-> <<"destination", "destinations">>,
                    Protocols |-> <<"protocols">>, SourcePorts |-> <<"source_ports">>,
                    Includes |-> <<"includes">>, Helpers |-> <<"helpers">>]

DictKey == [zone |-> zoneDict, policy |-> policyDict]
DictKeys == [zone |-> zoneFromDict, policy |-> policyFromDict, service |-> serviceFromDict,
             ipset |-> Nothing, icmptype |-> Nothing, helper |-> Nothing, direct |-> Nothing]

(***************************************************************************)
(* Encoding and decoding.  The target defaults to "default" ("CONTINUE").  *)
(***************************************************************************)
Fields(k) == DOMAIN TupleIndex[KindOf[k]] \cup DOMAIN DictKeys[KindOf[k]]

\* Variant, used by no specification: a policy's target, for zones too.
targetContinue(f, x) == IF f = "Target" /\ x = "zero" THEN "CONTINUE" ELSE x

target(f, x) == IF f = "Target" /\ x = "zero" THEN "default" ELSE x

toTuple(k, s) == LET order == TupleOrder[KindOf[k]] IN
    [i \in DOMAIN order |-> IF order[i] = "Unused" THEN "zero" ELSE target(order[i], s[order[i]])]

\* Variant, used by no specification: sends everything.
toDictAll(k, s) == LET key == DictKey[KindOf[k]] IN
    [n \in {key[f] : f \in DOMAIN key} |->
        LET f == CHOOSE g \in DOMAIN key : key[g] = n IN target(f, s[f])]

toDict(k, s) ==
    LET key == DictKey[KindOf[k]]
        sent == {f \in DOMAIN key : f \in sentIfSet => s[f] # "zero"}
    IN [n \in {key[f] : f \in sent} |->
          LET f == CHOOSE g \in sent : key[g] = n IN target(f, s[f])]

tupleField(raw, i) == IF i < Len(raw) THEN raw[i + 1] ELSE "zero"

\* Variant, used by no specification: leaves the last field unread.
fromTupleShort(k, raw) == LET at == TupleIndex[KindOf[k]] IN
    [f \in Fields(k) |->
        IF f \in DOMAIN at /\ at[f] + 1 < Len(raw) THEN tupleField(raw, at[f]) ELSE "zero"]

fromTuple(k, raw) == LET at == TupleIndex[KindOf[k]] IN
    [f \in Fields(k) |-> IF f \in DOMAIN at THEN tupleField(raw, at[f]) ELSE "zero"]

\* Variant, used by no specification: tries only the first of the keys.
fromDictFirstKey(k, d) == LET keys == DictKeys[KindOf[k]] IN
    [f \in Fields(k) |-> IF keys[f][1] \in DOMAIN d THEN d[keys[f][1]] ELSE "zero"]

fromDict(k, d) == LET keys == DictKeys[KindOf[k]] IN
    [f \in Fields(k) |->
        LET found == {i \in DOMAIN keys[f] : keys[f][i] \in DOMAIN d} IN
        IF found = {} THEN "zero" ELSE d[keys[f][CHOOSE i \in found : \A j \in found : i <= j]]]

(***************************************************************************)
(* The transport each method chooses.  "none": ErrUnsupported, no call;    *)
(* "absent": there is no such method.                                      *)
(***************************************************************************)
readForm(k) ==
    CASE k \in {"zone", "runtimeZone"} -> IF "DictZoneSettings" \in caps THEN "dict" ELSE "tuple"
      [] k \in {"policy", "runtimePolicy"} -> IF "Policies" \in caps THEN "dict" ELSE "none"
      [] k = "runtimeService" -> IF "ServiceSettings2" \in caps THEN "dict" ELSE "tuple"
      [] OTHER -> "tuple"

\* Variant, used by no specification: policies aside, always the tuple.
updateFormTuple(k) ==
    CASE k = "runtimeService" -> "absent"
      [] KindOf[k] = "policy" -> readForm(k)
      [] OTHER -> "tuple"

updateForm(k) ==
    CASE k = "runtimeZone" -> IF "DictZoneSettings" \in caps THEN "dict" ELSE "none"
      [] k = "runtimeService" -> "absent"
      [] OTHER -> readForm(k)

createForm(k) ==
    CASE k = "zone" -> IF "AddZone2" \in caps THEN "dict" ELSE "tuple"
      [] k \in {"runtimeZone", "runtimePolicy", "runtimeService", "direct"} -> "absent"
      [] OTHER -> readForm(k)

encode(form, k, s) == IF form = "dict" THEN toDict(k, s) ELSE toTuple(k, s)
decode(form, k, wire) == IF form = "dict" THEN fromDict(k, wire) ELSE fromTuple(k, wire)

(***************************************************************************)
(* The server.                                                             *)
(***************************************************************************)
WireOrder ==
    [zone |-> <<"Version", "Short", "Description", "Unused", "Target", "Services", "Ports",
                "ICMPBlocks", "Masquerade", "ForwardPorts", "Interfaces", "Sources", "RichRules",
                "Protocols", "SourcePorts", "ICMPBlockInversion">>,
     service |-> <<"Version", "Short", "Description", "Ports", "Modules", "Destinations",
                   "Protocols", "SourcePorts">>,
     ipset |-> <<"Version", "Name", "Description", "Type", "Options", "Entries">>,
     icmptype |-> <<"Version", "Short", "Description", "Destinations">>,
     helper |-> <<"Version", "Short", "Description", "Family", "Module", "Ports">>,
     direct |-> <<"Chains", "Rules", "Passthroughs">>]

WireKeys ==
    [Version |-> "version", Short |-> "short", Description |-> "description", Target |-> "target",
     Services |-> "services", Ports |-> "ports", ICMPBlocks |-> "icmp_blocks",
     Masquerade |-> "masquerade", ForwardPorts |-> "forward_ports", Interfaces |-> "interfaces",
     Sources |-> "sources", RichRules |-> "rules_str", Protocols |-> "protocols",
     SourcePorts |-> "source_ports", ICMPBlockInversion |-> "icmp_block_inversion",
     Forward |-> "forward", EgressPriority |-> "egress_priority",
     IngressPriority |-> "ingress_priority", Priority |-> "priority",
     IngressZones |-> "ingress_zones", EgressZones |-> "egress_zones", Modules |-> "module",
     Destinations |-> "destination", Includes |-> "includes", Helpers |-> "helpers"]

WireKey(k, f) == IF KindOf[k] = "policy" /\ f = "RichRules" THEN "rich_rules" ELSE WireKeys[f]

FieldSince == [Forward |-> <<0, 9>>, Includes |-> <<1, 0>>, Helpers |-> <<1, 0>>,
           EgressPriority |-> <<2, 0>>, IngressPriority |-> <<2, 0>>]

\* The fields a server of version v has.
Known(k, v) == {f \in Fields(k) : f \in DOMAIN FieldSince => atLeast(v, FieldSince[f])}

\* What a server sends: a dictionary may leave out what is unset.
Reply(form, k, v, s) ==
    IF form = "tuple"
    THEN {[i \in DOMAIN WireOrder[KindOf[k]] |->
            IF WireOrder[KindOf[k]][i] = "Unused" THEN "zero" ELSE s[WireOrder[KindOf[k]][i]]]}
    ELSE LET set == {f \in Known(k, v) : s[f] # "zero"} IN
         {[n \in {WireKey(k, f) : f \in sent} |-> s[CHOOSE f \in sent : WireKey(k, f) = n]] :
             sent \in {set, Known(k, v)}}

Mentions(form, k, v, wire) ==
    IF form = "tuple" THEN {f \in Fields(k) : \E i \in DOMAIN wire : WireOrder[KindOf[k]][i] = f}
    ELSE {f \in Known(k, v) : WireKey(k, f) \in DOMAIN wire}

Accepts(form, k, v, wire) ==
    form = "dict" => DOMAIN wire \subseteq {WireKey(k, f) : f \in Known(k, v)}

Blank(k) == [f \in Fields(k) |-> IF f = "Target" THEN "default" ELSE "zero"]

\* The settings after an update of old.
Updated(form, k, v, wire, old) ==
    [f \in Fields(k) |->
        IF f \in Mentions(form, k, v, wire)
        THEN IF form = "dict" THEN wire[WireKey(k, f)]
             ELSE wire[CHOOSE i \in DOMAIN wire : WireOrder[KindOf[k]][i] = f]
        ELSE IF rest = "kept" THEN old[f] ELSE Blank(k)[f]]

\* An object has at most one setting of its own to begin with.
Stored(k, v) ==
    {Nothing, Blank(k)} \cup {[Blank(k) EXCEPT ![f] = "other"] : f \in Known(k, v)}

HasObjects(k, v) == KindOf[k] = "policy" => atLeast(v, <<0, 9>>)

(***************************************************************************)
(* The caller.                                                             *)
(***************************************************************************)
Init ==
    /\ kind \in Kinds /\ server \in Servers /\ rest \in Unmentioned
    /\ \E v \in readVersion(server) : caps = capsFor(v)
    /\ store \in IF HasObjects(kind, server) THEN Stored(kind, server) ELSE {Nothing}
    /\ createForm(kind) = "absent" => (store # Nothing \/ ~HasObjects(kind, server))
    /\ draft = Nothing /\ touched = {} /\ theirs = {}
    /\ changes = 0 /\ outcome = "none"

\* Settings.
Read ==
    LET form == readForm(kind) IN
    /\ \/ /\ form # "none" /\ store # Nothing
          /\ \E wire \in Reply(form, kind, server, store) : draft' = decode(form, kind, wire)
          /\ touched' = {} /\ theirs' = {}
          /\ outcome' = "read"
       \/ /\ form = "none" \/ store = Nothing
          /\ outcome' = IF form = "none" THEN "unsupported" ELSE "missing"
          /\ UNCHANGED <<draft, touched, theirs>>
    /\ UNCHANGED <<kind, server, rest, caps, store, changes>>

\* The caller starts from an empty settings value.
Compose ==
    /\ draft' = [f \in Fields(kind) |-> "zero"]
    /\ touched' = Fields(kind) /\ theirs' = {}
    /\ outcome' = "none"
    /\ UNCHANGED <<kind, server, rest, caps, store, changes>>

Change ==
    /\ draft # Nothing /\ changes < MaxChanges
    /\ \E f \in Fields(kind), x \in {"zero", "other"} :
        /\ draft' = [draft EXCEPT ![f] = x]
        /\ touched' = touched \cup {f}
    /\ changes' = changes + 1 /\ outcome' = "none"
    /\ UNCHANGED <<kind, server, rest, caps, store, theirs>>

\* Update, SetSettings and SetPolicySettings.
Update ==
    LET form == updateForm(kind)
        wire == encode(form, kind, draft)
    IN /\ draft # Nothing /\ form # "absent"
       /\ \/ /\ form # "none" /\ store # Nothing /\ Accepts(form, kind, server, wire)
             /\ store' = Updated(form, kind, server, wire, store)
             /\ theirs' = {} /\ outcome' = "updated"
          \/ /\ form # "none" /\ store # Nothing /\ ~Accepts(form, kind, server, wire)
             /\ outcome' = "refused" /\ UNCHANGED <<store, theirs>>
          \/ /\ form = "none" \/ store = Nothing
             /\ outcome' = IF form = "none" THEN "unsupported" ELSE "missing"
             /\ UNCHANGED <<store, theirs>>
       /\ UNCHANGED <<kind, server, rest, caps, draft, touched, changes>>

\* AddZone, AddPolicy, AddService, AddIPSet, AddICMPType and AddHelper.
Create ==
    LET form == createForm(kind)
        wire == encode(form, kind, draft)
    IN /\ draft # Nothing /\ form # "absent"
       /\ \/ /\ form # "none" /\ store = Nothing /\ Accepts(form, kind, server, wire)
             /\ store' = Updated(form, kind, server, wire, Blank(kind))
             /\ outcome' = "created"
          \/ /\ form # "none" /\ store = Nothing /\ ~Accepts(form, kind, server, wire)
             /\ outcome' = "refused" /\ UNCHANGED store
          \/ /\ form = "none" \/ store # Nothing
             /\ outcome' = IF form = "none" THEN "unsupported" ELSE "conflict"
             /\ UNCHANGED store
       /\ UNCHANGED <<kind, server, rest, caps, draft, touched, theirs, changes>>

\* Another client writes a field, once, while the caller has in hand what it has read
\* (earlier it would only make for another initial state).
OutsideEdit ==
    /\ "edit" \in Fault
    /\ draft # Nothing /\ touched # Fields(kind) /\ store # Nothing
    /\ \E f \in (Contested \cap Known(kind, server)) \ theirs :
        /\ store' = [store EXCEPT ![f] = IF @ = "other" THEN Blank(kind)[f] ELSE "other"]
        /\ theirs' = theirs \cup {f}
    /\ outcome' = "none"
    /\ UNCHANGED <<kind, server, rest, caps, draft, touched, changes>>

\* firewalld is replaced by a newer version and restarted; Conn keeps its capabilities.
Upgrade ==
    /\ "upgrade" \in Fault
    /\ \E v \in Servers : v # server /\ atLeast(v, server) /\ server' = v
    /\ outcome' = "none"
    /\ UNCHANGED <<kind, rest, caps, store, draft, touched, theirs, changes>>

Next == Read \/ Compose \/ Change \/ Update \/ Create \/ OutsideEdit \/ Upgrade

Spec == Init /\ [][Next]_vars

(***************************************************************************)
(* Properties.                                                             *)
(***************************************************************************)
\* The variables have their types; the caller holds no more fields than the kind has.
TypeOK ==
    /\ kind \in Kinds /\ server \in Servers /\ rest \in Unmentioned
    /\ caps \subseteq DOMAIN Since
    /\ store \in {Nothing} \cup [Fields(kind) -> Value]
    /\ draft \in {Nothing} \cup [Fields(kind) -> Value]
    /\ touched \subseteq Fields(kind) /\ theirs \subseteq Fields(kind)
    /\ changes \in 0 .. MaxChanges
    /\ outcome \in {"none", "read", "updated", "created", "refused", "unsupported", "missing",
                    "conflict"}

\* The capabilities are those of the server that is running.
Current == caps = capsFor(server)

\* A handle that knows only the tuple, on a server whose object has more than that.
TupleOnly == kind = "service" /\ "Includes" \in Known(kind, server)

\* Read, change, Update: what the caller did not change is not changed on the server,
\* in any form and on any version (PermZone.Update and its siblings).  Two cases are excepted
\* on servers that reset what an update does not mention: capabilities that are no longer the
\* server's, and the permanent service's handle where services have more than a tuple.  Of
\* what other clients did, an Update undoes no more than what they wrote since the settings
\* were read.
EditKeepsTheRest ==
    [][ outcome' = "updated" /\ (rest = "kept" \/ (Current /\ ~TupleOnly)) =>
            \A f \in Fields(kind) \ (touched \cup theirs) : store'[f] = store[f] ]_vars

\* "Update replaces the zone's permanent settings wholesale" (permzone.go; its siblings say
\* the same): afterwards, and after creation, the object has the settings it was given, the
\* empty target meaning the default, whatever the server.
UpdateReplaces ==
    [][ outcome' \in {"updated", "created"} =>
            \A f \in Known(kind, server) : store'[f] = target(f, draft[f]) ]_vars

\* A field for which the chosen transport has no room: the permanent service's handle has
\* no other than the tuple, and zones are sent as one by a library that thinks the server old.
NoRoom(f) ==
    /\ f \notin DOMAIN TupleIndex[KindOf[kind]]
    /\ kind = "service" \/ ~({"DictZoneSettings", "AddZone2"} \subseteq caps)

\* A priority set to zero, which toDict leaves out.
Cleared(f) == f \in sentIfSet /\ draft[f] = "zero"

\* What an update or a creation fails to set on an object, whatever the server's version and
\* what it makes of omitted settings: a field without room, or, on a server that keeps
\* what is omitted, a priority set to zero.  Everything else replaces what was there
\* (toTuple and toDict of every codec; Update, SetSettings, SetPolicySettings and Add*).
OnlyUnsentLost ==
    [][ outcome' \in {"updated", "created"} =>
            \A f \in Known(kind, server) :
                \/ store'[f] = target(f, draft[f])
                \/ NoRoom(f)
                \/ Cleared(f) /\ rest = "kept" /\ store'[f] = store[f] ]_vars

\* "we never send a key an intermediate 0.9.x server would reject": settings are refused
\* only if the caller has set one that the server does not have.
RefusedForCause ==
    outcome = "refused" => \E f \in Fields(kind) \ Known(kind, server) : draft[f] # "zero"

\* What Settings returns is what the object has: every field that the transport has room
\* for arrives under its own name, whichever of its keys the server uses and whatever the
\* server leaves out, and the others are empty (fromTuple and fromDict of every codec).
ReadIntact ==
    outcome = "read" =>
        \A f \in Fields(kind) :
            draft[f] = IF readForm(kind) = "dict" \/ f \in DOMAIN TupleIndex[KindOf[kind]]
                       THEN store[f] ELSE "zero"
===============================================================================
