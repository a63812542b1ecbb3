------------------------- MODULE SettingsTransportProofs -------------------------
(***************************************************************************)
(* What SettingsTransport sends and what servers accept, for any versions  *)
(* of the server and any of the kinds.                                     *)
(***************************************************************************)
EXTENDS SettingsTransport, TLAPS

-------------------------------------------------------------------------------
(***************************************************************************)
(* The library never takes a server for newer than it is.                  *)
(***************************************************************************)
LEMMA AtLeastTransitive ==
    ASSUME NEW u \in Nat \X Nat, NEW v \in Nat \X Nat, NEW w \in Nat \X Nat,
           atLeast(u, v), atLeast(v, w)
    PROVE  atLeast(u, w)
BY DEF atLeast

LEMMA SinceTyped == \A c \in DOMAIN Since : Since[c] \in Nat \X Nat
BY DEF Since

LEMMA CapsGrow ==
    ASSUME NEW u \in Nat \X Nat, NEW v \in Nat \X Nat, atLeast(u, v)
    PROVE  capsFor(v) \subseteq capsFor(u)
BY AtLeastTransitive, SinceTyped DEF capsFor

\* A component that cannot be read counts as 0.
LEMMA ReadComponents ==
    ASSUME NEW v \in Nat \X Nat, NEW r \in readVersion(v)
    PROVE  r \in Nat \X Nat /\ r[1] \in {0, v[1]} /\ r[2] \in {0, v[2]}
<1>1. leadingInt(<<>>) = 0 /\ \A n \in Nat : leadingInt(<<n>>) = n
    BY DEF leadingInt
<1>2. v[1] \in Nat /\ v[2] \in Nat
    OBVIOUS
<1>3. PICK raw \in VersionProperty(v) : r = parseVersion(raw)
    BY DEF readVersion
<1>4. \/ raw = <<>> \/ raw = <<<<v[1]>>>>
      \/ \E a \in {<<>>, <<v[1]>>}, b \in {<<>>, <<v[2]>>} : raw = <<a, b>>
    BY <1>3 DEF VersionProperty
<1>5. CASE raw = <<>>
    BY <1>3, <1>5 DEF parseVersion
<1>6. CASE raw = <<<<v[1]>>>>
    BY <1>1, <1>2, <1>3, <1>6 DEF parseVersion
<1>7. ASSUME NEW a \in {<<>>, <<v[1]>>}, NEW b \in {<<>>, <<v[2]>>}, raw = <<a, b>>
      PROVE  r \in Nat \X Nat /\ r[1] \in {0, v[1]} /\ r[2] \in {0, v[2]}
    <2>1. r = [i \in 1 .. 2 |-> IF i = 1 THEN leadingInt(a) ELSE leadingInt(b)]
        BY <1>3, <1>7 DEF parseVersion
    <2>2. leadingInt(a) \in {0, v[1]} /\ leadingInt(b) \in {0, v[2]}
        BY <1>1, <1>2
    <2> QED  BY <1>2, <2>1, <2>2
<1> QED  BY <1>4, <1>5, <1>6, <1>7

LEMMA ReadIsNoNewer ==
    ASSUME NEW v \in Nat \X Nat, NEW r \in readVersion(v)
    PROVE  r \in Nat \X Nat /\ atLeast(v, r)
<1>1. r \in Nat \X Nat /\ r[1] \in {0, v[1]} /\ r[2] \in {0, v[2]}
    BY ReadComponents
<1> QED  BY <1>1 DEF atLeast

\* The server has every capability that Conn remembers.
CapsInv == kind \in Kinds /\ server \in Servers /\ caps \subseteq capsFor(server)

LEMMA InitCaps == Init => CapsInv
<1> SUFFICES ASSUME Init PROVE CapsInv
    OBVIOUS
<1>1. PICK v \in readVersion(server) : caps = capsFor(v)
    BY DEF Init
<1>2. server \in Nat \X Nat /\ kind \in Kinds /\ server \in Servers
    BY TransportAssumption DEF Init
<1> QED  BY <1>1, <1>2, ReadIsNoNewer, CapsGrow DEF CapsInv

LEMMA NextCaps == CapsInv /\ [Next]_vars => CapsInv'
<1> SUFFICES ASSUME CapsInv, [Next]_vars PROVE CapsInv'
    OBVIOUS
<1>1. CASE Upgrade
    <2>1. server \in Nat \X Nat /\ server' \in Nat \X Nat /\ server' \in Servers
          /\ atLeast(server', server) /\ UNCHANGED <<kind, caps>>
        BY <1>1, TransportAssumption DEF Upgrade, CapsInv
    <2> QED  BY <2>1, CapsGrow DEF CapsInv
<1>2. CASE UNCHANGED <<kind, server, caps>>
    BY <1>2 DEF CapsInv
<1> QED  BY <1>1, <1>2 DEF Next, vars, Read, Compose, Change, Update, Create, OutsideEdit

-------------------------------------------------------------------------------
(***************************************************************************)
(* Why settings are refused.                                               *)
(***************************************************************************)
\* The dictionary is sent only where the library knows the server to be 0.9 or newer,
\* and only for zones and policies.
LEMMA DictSince ==
    ASSUME CapsInv, updateForm(kind) = "dict" \/ createForm(kind) = "dict"
    PROVE  KindOf[kind] \in {"zone", "policy"} /\ atLeast(server, <<0, 9>>)
<1>1. kind \in DOMAIN KindOf
    BY TransportAssumption DEF CapsInv
<1>2. kind \in {"zone", "runtimeZone", "policy", "runtimePolicy"}
    BY <1>1 DEF updateForm, createForm, readForm, KindOf
<1>3. \E c \in caps : c \in {"DictZoneSettings", "Policies", "AddZone2"}
    BY <1>2 DEF updateForm, createForm, readForm
<1>4. \A c \in {"DictZoneSettings", "Policies", "AddZone2"} : Since[c] = <<0, 9>>
    BY DEF Since
<1>5. atLeast(server, <<0, 9>>)
    BY <1>3, <1>4 DEF CapsInv, capsFor
<1> QED  BY <1>2, <1>5 DEF KindOf

\* The key under which a field is sent is the server's, and of these fields only the
\* priorities are younger than 0.9.
LEMMA KeysAgree ==
    ASSUME NEW k \in DOMAIN KindOf, KindOf[k] \in {"zone", "policy"},
           NEW f \in DOMAIN DictKey[KindOf[k]]
    PROVE  /\ f \in Fields(k)
           /\ DictKey[KindOf[k]][f] = WireKey(k, f)
           /\ f \in DOMAIN FieldSince => f = "Forward" \/ f \in sentIfSet
<1>1. CASE KindOf[k] = "zone"
    <2>1. f \in DOMAIN zoneDict
        BY <1>1 DEF DictKey
    <2>2. f \in Fields(k)
        BY <1>1, <2>1 DEF Fields, DictKeys, zoneFromDict
    <2>3. DictKey[KindOf[k]][f] = WireKey(k, f)
        BY <1>1, <2>1 DEF DictKey, zoneDict, WireKey, WireKeys
    <2> QED  BY <2>1, <2>2, <2>3 DEF zoneDict, FieldSince, sentIfSet
<1>2. CASE KindOf[k] = "policy"
    <2>1. f \in DOMAIN policyDict
        BY <1>2 DEF DictKey
    <2>2. f \in Fields(k)
        BY <1>2, <2>1 DEF Fields, DictKeys, policyFromDict
    <2>3. DictKey[KindOf[k]][f] = WireKey(k, f)
        BY <1>2, <2>1 DEF DictKey, policyDict, WireKey, WireKeys
    <2> QED  BY <2>1, <2>2, <2>3 DEF policyDict, FieldSince, sentIfSet
<1> QED  BY <1>1, <1>2

\* A field that is sent to a server without it is a priority the caller has set.
LEMMA RefusedIsSet ==
    ASSUME CapsInv, KindOf[kind] \in {"zone", "policy"}, atLeast(server, <<0, 9>>),
           NEW s, ~Accepts("dict", kind, server, toDict(kind, s))
    PROVE  \E f \in Fields(kind) \ Known(kind, server) : s[f] # "zero"
<1> DEFINE key == DictKey[KindOf[kind]]
           sent == {f \in DOMAIN key : f \in sentIfSet => s[f] # "zero"}
<1>1. DOMAIN toDict(kind, s) = {key[f] : f \in sent}
    BY DEF toDict
<1>2. PICK f \in sent : key[f] \notin {WireKey(kind, g) : g \in Known(kind, server)}
    BY <1>1 DEF Accepts
<1>3. kind \in DOMAIN KindOf
    BY TransportAssumption DEF CapsInv
<1>4. f \in DOMAIN DictKey[KindOf[kind]]
    OBVIOUS
<1>5. /\ f \in Fields(kind) /\ key[f] = WireKey(kind, f)
      /\ f \in DOMAIN FieldSince => f = "Forward" \/ f \in sentIfSet
    BY <1>3, <1>4, KeysAgree
<1>6. f \notin Known(kind, server)
    BY <1>2, <1>5
<1>7. f # "Forward"
    BY <1>5, <1>6 DEF Known, FieldSince
<1>8. f \in sentIfSet
    BY <1>5, <1>6, <1>7 DEF Known
<1> QED  BY <1>5, <1>6, <1>8

LEMMA NextRefused ==
    ASSUME CapsInv, RefusedForCause, [Next]_vars
    PROVE  RefusedForCause'
<1>1. CASE UNCHANGED vars
    BY <1>1 DEF RefusedForCause, vars, Fields, Known
<1>2. CASE outcome' # "refused"
    BY <1>2 DEF RefusedForCause
<1>3. ASSUME NEW form, form \in {updateForm(kind), createForm(kind)},
             ~Accepts(form, kind, server, encode(form, kind, draft)),
             UNCHANGED <<kind, server, draft>>
      PROVE  RefusedForCause'
    <2>1. form = "dict"
        BY <1>3 DEF Accepts
    <2>2. \E f \in Fields(kind) \ Known(kind, server) : draft[f] # "zero"
        BY <1>3, <2>1, DictSince, RefusedIsSet DEF encode
    <2> QED  BY <1>3, <2>2 DEF RefusedForCause, Fields, Known
<1>4. CASE Update /\ outcome' = "refused"
    BY <1>3, <1>4 DEF Update
<1>5. CASE Create /\ outcome' = "refused"
    BY <1>3, <1>5 DEF Create
<1> QED  BY <1>1, <1>2, <1>4, <1>5 DEF Next, Read, Compose, Change, OutsideEdit, Upgrade

\* A server refuses settings only because of one the caller has set and it does not
\* have, whatever its version, however much of the version could be read, and though it
\* was replaced by a newer one under the connection (caps.go: an unreadable version
\* counts as 0; zonesettings.go: priorities are sent only when set).
THEOREM RefusedForCauseHolds == Spec => []RefusedForCause
<1>1. Init => RefusedForCause
    BY DEF Init, RefusedForCause
<1> QED  BY <1>1, InitCaps, NextCaps, NextRefused, PTL DEF Spec

-------------------------------------------------------------------------------
(***************************************************************************)
(* The tables: the encoder's order is the server's, the decoder's          *)
(* positions fall on it, and no two fields share a key.                    *)
(***************************************************************************)
\* The positions at are those of the fields in order, which has one unused place at most.
Aligned(at, order) ==
    /\ Len(order) \in Nat /\ DOMAIN order = 1 .. Len(order)
    /\ \A f \in DOMAIN at : f # "Unused" /\ at[f] \in 0 .. Len(order) - 1 /\ order[at[f] + 1] = f
    /\ \A i \in DOMAIN order : order[i] # "Unused" => order[i] \in DOMAIN at /\ at[order[i]] + 1 = i

LEMMA ZoneAligned == Aligned(zoneFromTuple, zoneTuple)
<1>1. Len(zoneTuple) = 16 /\ DOMAIN zoneTuple = 1 .. 16 /\ zoneTuple[4] = "Unused"
    BY DEF zoneTuple
<1>2. \A f \in DOMAIN zoneFromTuple :
        f # "Unused" /\ zoneFromTuple[f] \in 0 .. 15 /\ zoneTuple[zoneFromTuple[f] + 1] = f
    BY DEF zoneFromTuple, zoneTuple
<1>3. \A i \in (1 .. 16) \ {4} :
        zoneTuple[i] \in DOMAIN zoneFromTuple /\ zoneFromTuple[zoneTuple[i]] + 1 = i
    BY DEF zoneFromTuple, zoneTuple
<1> QED  BY <1>1, <1>2, <1>3 DEF Aligned

LEMMA ServiceAligned == Aligned(serviceFromTuple, serviceTuple)
<1>1. Len(serviceTuple) = 8 /\ DOMAIN serviceTuple = 1 .. 8
    BY DEF serviceTuple
<1>2. \A f \in DOMAIN serviceFromTuple :
        f # "Unused" /\ serviceFromTuple[f] \in 0 .. 7 /\ serviceTuple[serviceFromTuple[f] + 1] = f
    BY DEF serviceFromTuple, serviceTuple
<1>3. \A i \in 1 .. 8 :
        serviceTuple[i] \in DOMAIN serviceFromTuple /\ serviceFromTuple[serviceTuple[i]] + 1 = i
    BY DEF serviceFromTuple, serviceTuple
<1> QED  BY <1>1, <1>2, <1>3 DEF Aligned

LEMMA IPSetAligned == Aligned(ipsetFromTuple, ipsetTuple)
<1>1. Len(ipsetTuple) = 6 /\ DOMAIN ipsetTuple = 1 .. 6
    BY DEF ipsetTuple
<1>2. \A f \in DOMAIN ipsetFromTuple :
        f # "Unused" /\ ipsetFromTuple[f] \in 0 .. 5 /\ ipsetTuple[ipsetFromTuple[f] + 1] = f
    BY DEF ipsetFromTuple, ipsetTuple
<1>3. \A i \in 1 .. 6 :
        ipsetTuple[i] \in DOMAIN ipsetFromTuple /\ ipsetFromTuple[ipsetTuple[i]] + 1 = i
    BY DEF ipsetFromTuple, ipsetTuple
<1> QED  BY <1>1, <1>2, <1>3 DEF Aligned

LEMMA ICMPAligned == Aligned(icmpFromTuple, icmpTuple)
<1>1. Len(icmpTuple) = 4 /\ DOMAIN icmpTuple = 1 .. 4
    BY DEF icmpTuple
<1>2. \A f \in DOMAIN icmpFromTuple :
        f # "Unused" /\ icmpFromTuple[f] \in 0 .. 3 /\ icmpTuple[icmpFromTuple[f] + 1] = f
    BY DEF icmpFromTuple, icmpTuple
<1>3. \A i \in 1 .. 4 :
        icmpTuple[i] \in DOMAIN icmpFromTuple /\ icmpFromTuple[icmpTuple[i]] + 1 = i
    BY DEF icmpFromTuple, icmpTuple
<1> QED  BY <1>1, <1>2, <1>3 DEF Aligned

LEMMA HelperAligned == Aligned(helperFromTuple, helperTuple)
<1>1. Len(helperTuple) = 6 /\ DOMAIN helperTuple = 1 .. 6
    BY DEF helperTuple
<1>2. \A f \in DOMAIN helperFromTuple :
        f # "Unused" /\ helperFromTuple[f] \in 0 .. 5 /\ helperTuple[helperFromTuple[f] + 1] = f
    BY DEF helperFromTuple, helperTuple
<1>3. \A i \in 1 .. 6 :
        helperTuple[i] \in DOMAIN helperFromTuple /\ helperFromTuple[helperTuple[i]] + 1 = i
    BY DEF helperFromTuple, helperTuple
<1> QED  BY <1>1, <1>2, <1>3 DEF Aligned

LEMMA DirectAligned == Aligned(directFromTuple, directTuple)
<1>1. Len(directTuple) = 3 /\ DOMAIN directTuple = 1 .. 3
    BY DEF directTuple
<1>2. \A f \in DOMAIN directFromTuple :
        f # "Unused" /\ directFromTuple[f] \in 0 .. 2 /\ directTuple[directFromTuple[f] + 1] = f
    BY DEF directFromTuple, directTuple
<1>3. \A i \in 1 .. 3 :
        directTuple[i] \in DOMAIN directFromTuple /\ directFromTuple[directTuple[i]] + 1 = i
    BY DEF directFromTuple, directTuple
<1> QED  BY <1>1, <1>2, <1>3 DEF Aligned

LEMMA TupleTable ==
    ASSUME NEW k \in DOMAIN KindOf, KindOf[k] # "policy"
    PROVE  /\ TupleOrder[KindOf[k]] = WireOrder[KindOf[k]]
           /\ Aligned(TupleIndex[KindOf[k]], WireOrder[KindOf[k]])
           /\ "Unused" \notin Fields(k)
           /\ DOMAIN TupleIndex[KindOf[k]] \subseteq Fields(k)
<1> DEFINE c == KindOf[k]
<1>1. c \in {"zone", "service", "ipset", "icmptype", "helper", "direct"}
    BY DEF KindOf
<1>2. TupleOrder[c] = WireOrder[c]
    <2>1. CASE c = "zone"
        BY <2>1 DEF TupleOrder, WireOrder, zoneTuple
    <2>2. CASE c = "service"
        BY <2>2 DEF TupleOrder, WireOrder, serviceTuple
    <2>3. CASE c = "ipset"
        BY <2>3 DEF TupleOrder, WireOrder, ipsetTuple
    <2>4. CASE c = "icmptype"
        BY <2>4 DEF TupleOrder, WireOrder, icmpTuple
    <2>5. CASE c = "helper"
        BY <2>5 DEF TupleOrder, WireOrder, helperTuple
    <2>6. CASE c = "direct"
        BY <2>6 DEF TupleOrder, WireOrder, directTuple
    <2> QED  BY <1>1, <2>1, <2>2, <2>3, <2>4, <2>5, <2>6
<1>3. Aligned(TupleIndex[c], TupleOrder[c])
    BY <1>1, ZoneAligned, ServiceAligned, IPSetAligned, ICMPAligned, HelperAligned, DirectAligned
       DEF TupleOrder, TupleIndex
<1>4. "Unused" \notin DOMAIN TupleIndex[c]
    BY <1>3 DEF Aligned
<1>5. "Unused" \notin DOMAIN DictKeys[c]
    BY <1>1 DEF DictKeys, zoneFromDict, zoneDict, serviceFromDict, Nothing
<1> QED  BY <1>2, <1>3, <1>4, <1>5 DEF Fields

LEMMA KeyTable ==
    ASSUME NEW k \in DOMAIN KindOf, KindOf[k] \in {"zone", "policy", "service"}
    PROVE  LET keys == DictKeys[KindOf[k]] IN
           /\ Fields(k) = DOMAIN keys
           /\ \A f \in Fields(k) :
                /\ 1 \in DOMAIN keys[f] /\ DOMAIN keys[f] \subseteq {1, 2}
                /\ \E i \in DOMAIN keys[f] : keys[f][i] = WireKey(k, f)
                /\ \A g \in Fields(k), i \in DOMAIN keys[f] :
                        keys[f][i] = WireKey(k, g) => f = g
<1>1. CASE KindOf[k] = "zone"
    <2>1. Fields(k) = DOMAIN zoneDict /\ DictKeys[KindOf[k]] = zoneFromDict
        BY <1>1 DEF Fields, TupleIndex, DictKeys, zoneFromDict, zoneDict, zoneFromTuple
    <2>2. \A f \in DOMAIN zoneDict : zoneDict[f] = WireKey(k, f)
        BY <1>1 DEF zoneDict, WireKey, WireKeys
    <2>3. \A f, g \in DOMAIN zoneDict : zoneDict[f] = zoneDict[g] => f = g
        BY DEF zoneDict
    <2>4. \A f \in DOMAIN zoneDict : zoneDict[f] # "rich_rules"
        BY DEF zoneDict
    <2>5. zoneDict["RichRules"] = "rules_str"
        BY DEF zoneDict
    <2> QED  BY <2>1, <2>2, <2>3, <2>4, <2>5 DEF zoneFromDict
<1>2. CASE KindOf[k] = "policy"
    <2>1. Fields(k) = DOMAIN policyDict /\ DictKeys[KindOf[k]] = policyFromDict
        BY <1>2 DEF Fields, TupleIndex, DictKeys, policyFromDict, policyDict, Nothing
    <2>2. \A f \in DOMAIN policyDict : policyDict[f] = WireKey(k, f)
        BY <1>2 DEF policyDict, WireKey, WireKeys
    <2>3. \A f, g \in DOMAIN policyDict : policyDict[f] = policyDict[g] => f = g
        BY DEF policyDict
    <2>4. \A f \in DOMAIN policyDict : policyDict[f] # "rules_str"
        BY DEF policyDict
    <2>5. policyDict["RichRules"] = "rich_rules"
        BY DEF policyDict
    <2> QED  BY <2>1, <2>2, <2>3, <2>4, <2>5 DEF policyFromDict
<1>3. CASE KindOf[k] = "service"
    <2>1. Fields(k) = DOMAIN serviceFromDict /\ DictKeys[KindOf[k]] = serviceFromDict
        BY <1>3 DEF Fields, TupleIndex, DictKeys, serviceFromDict, serviceFromTuple
    <2>2. \A f \in DOMAIN serviceFromDict : WireKey(k, f) = WireKeys[f]
        BY <1>3 DEF WireKey
    <2>3. \A f \in DOMAIN serviceFromDict :
            /\ 1 \in DOMAIN serviceFromDict[f] /\ DOMAIN serviceFromDict[f] \subseteq {1, 2}
            /\ serviceFromDict[f][1] = WireKeys[f]
        BY DEF serviceFromDict, WireKeys
    <2>4. \A f, g \in DOMAIN serviceFromDict : \A i \in DOMAIN serviceFromDict[f] :
            serviceFromDict[f][i] = WireKeys[g] => f = g
        BY DEF serviceFromDict, WireKeys
    <2> QED  BY <2>1, <2>2, <2>3, <2>4
<1> QED  BY <1>1, <1>2, <1>3

-------------------------------------------------------------------------------
(***************************************************************************)
(* What reading and updating carry, in either form.                        *)
(***************************************************************************)
Ways == {"tuple", "dict"}

\* A form that there is a codec for.
Coded(form, k) ==
    /\ form \in Ways
    /\ form = "tuple" => KindOf[k] # "policy"
    /\ form = "dict" => KindOf[k] \in {"zone", "policy", "service"}

\* The fields that a form has room for.
Carried(form, k) == IF form = "tuple" THEN DOMAIN TupleIndex[KindOf[k]] ELSE Fields(k)

LEMMA TupleReadCarries ==
    ASSUME NEW k \in DOMAIN KindOf, KindOf[k] # "policy", NEW v, NEW s,
           NEW wire \in Reply("tuple", k, v, s)
    PROVE  fromTuple(k, wire) =
               [f \in Fields(k) |-> IF f \in Carried("tuple", k) THEN s[f] ELSE "zero"]
<1> DEFINE at == TupleIndex[KindOf[k]]
           order == WireOrder[KindOf[k]]
<1>1. wire = [i \in DOMAIN order |-> IF order[i] = "Unused" THEN "zero" ELSE s[order[i]]]
    BY DEF Reply
<1>2. /\ Len(order) \in Nat /\ DOMAIN order = 1 .. Len(order)
      /\ \A f \in DOMAIN at : f # "Unused" /\ at[f] \in 0 .. Len(order) - 1 /\ order[at[f] + 1] = f
    BY TupleTable DEF Aligned
<1>3. Len(wire) = Len(order)
    BY <1>1, <1>2
<1>4. \A f \in DOMAIN at : tupleField(wire, at[f]) = s[f]
    BY <1>1, <1>2, <1>3 DEF tupleField
<1> QED  BY <1>4 DEF fromTuple, Carried

LEMMA DictReadCarries ==
    ASSUME NEW k \in DOMAIN KindOf, KindOf[k] \in {"zone", "policy", "service"}, NEW v, NEW s,
           \A f \in Fields(k) \ Known(k, v) : s[f] = "zero",
           NEW wire \in Reply("dict", k, v, s)
    PROVE  fromDict(k, wire) = [f \in Fields(k) |-> s[f]]
<1> DEFINE keys == DictKeys[KindOf[k]]
<1>1. PICK sent \in SUBSET Fields(k) :
        /\ \A f \in Fields(k) \ sent : s[f] = "zero"
        /\ wire = [n \in {WireKey(k, f) : f \in sent} |-> s[CHOOSE f \in sent : WireKey(k, f) = n]]
    BY DEF Reply, Known
<1>2. ASSUME NEW f \in Fields(k)
      PROVE  LET found == {i \in DOMAIN keys[f] : keys[f][i] \in DOMAIN wire}
             IN (IF found = {} THEN "zero"
                 ELSE wire[keys[f][CHOOSE i \in found : \A j \in found : i <= j]]) = s[f]
    <2> DEFINE found == {i \in DOMAIN keys[f] : keys[f][i] \in DOMAIN wire}
               first == CHOOSE i \in found : \A j \in found : i <= j
    <2>1. /\ found \subseteq {1, 2}
          /\ \E i \in DOMAIN keys[f] : keys[f][i] = WireKey(k, f)
          /\ \A g \in Fields(k), i \in DOMAIN keys[f] : keys[f][i] = WireKey(k, g) => f = g
        BY KeyTable
    <2>2. \A g \in Fields(k) : WireKey(k, f) = WireKey(k, g) => f = g
        BY <2>1
    <2>3. CASE found = {}
        <3>1. f \notin sent
            BY <1>1, <2>1, <2>3
        <3> QED  BY <1>1, <2>3, <3>1
    <2>4. CASE found # {}
        <3>1. \E i \in found : \A j \in found : i <= j
            BY <2>1, <2>4
        <3> HIDE DEF found
        <3>2. first \in found
            BY <3>1
        <3>3. keys[f][first] \in DOMAIN wire /\ first \in DOMAIN keys[f]
            BY <3>2 DEF found
        <3> HIDE DEF first
        <3>4. PICK g \in sent : keys[f][first] = WireKey(k, g)
            BY <1>1, <3>3
        <3>5. f = g
            BY <2>1, <3>3, <3>4
        <3>6. (CHOOSE h \in sent : WireKey(k, h) = WireKey(k, f)) = f
            BY <2>2, <3>4, <3>5
        <3>7. wire[keys[f][first]] = s[f]
            BY <1>1, <3>3, <3>4, <3>5, <3>6
        <3> QED  BY <2>4, <3>7 DEF first, found
    <2> QED  BY <2>3, <2>4
<1> QED  BY <1>2 DEF fromDict

LEMMA ReadCarries ==
    ASSUME NEW k \in DOMAIN KindOf, NEW v, NEW s,
           \A f \in Fields(k) \ Known(k, v) : s[f] = "zero",
           NEW form, Coded(form, k), NEW wire \in Reply(form, k, v, s)
    PROVE  decode(form, k, wire) =
               [f \in Fields(k) |-> IF f \in Carried(form, k) THEN s[f] ELSE "zero"]
<1>1. CASE form = "tuple"
    BY <1>1, TupleReadCarries DEF decode, Coded
<1>2. CASE form = "dict"
    BY <1>2, DictReadCarries DEF decode, Coded, Carried
<1> QED  BY <1>1, <1>2 DEF Coded, Ways

\* What an update says of a field.
Said(form, k, v, s) ==
    IF form = "tuple" THEN DOMAIN TupleIndex[KindOf[k]]
    ELSE {f \in Known(k, v) : f \in sentIfSet => s[f] # "zero"}

LEMMA TupleUpdateCarries ==
    ASSUME NEW k \in DOMAIN KindOf, KindOf[k] # "policy", NEW v, NEW s, NEW old
    PROVE  Updated("tuple", k, v, toTuple(k, s), old) =
               [f \in Fields(k) |->
                   IF f \in Said("tuple", k, v, s) THEN target(f, s[f])
                   ELSE IF rest = "kept" THEN old[f] ELSE Blank(k)[f]]
<1> DEFINE at == TupleIndex[KindOf[k]]
           order == WireOrder[KindOf[k]]
           wire == toTuple(k, s)
<1>1. /\ TupleOrder[KindOf[k]] = order
      /\ "Unused" \notin Fields(k) /\ DOMAIN at \subseteq Fields(k)
      /\ \A f \in DOMAIN at : at[f] + 1 \in DOMAIN order /\ order[at[f] + 1] = f
      /\ \A i \in DOMAIN order :
            order[i] # "Unused" => order[i] \in DOMAIN at /\ at[order[i]] + 1 = i
    BY TupleTable DEF Aligned
<1>2. wire = [i \in DOMAIN order |->
                IF order[i] = "Unused" THEN "zero" ELSE target(order[i], s[order[i]])]
    BY <1>1 DEF toTuple
<1> HIDE DEF wire, order, at
<1>3. Mentions("tuple", k, v, wire) = Said("tuple", k, v, s)
    BY <1>1, <1>2 DEF Mentions, Said, order, at
<1>4. ASSUME NEW f \in DOMAIN at
      PROVE  wire[CHOOSE i \in DOMAIN wire : order[i] = f] = target(f, s[f])
    <2>1. (CHOOSE i \in DOMAIN wire : order[i] = f) = at[f] + 1
        BY <1>1, <1>2
    <2> QED  BY <1>1, <1>2, <2>1
<1> QED  BY <1>3, <1>4 DEF Updated, Said, order, at, wire

LEMMA DictUpdateCarries ==
    ASSUME NEW k \in DOMAIN KindOf, KindOf[k] \in {"zone", "policy"}, NEW v, NEW s, NEW old
    PROVE  Updated("dict", k, v, toDict(k, s), old) =
               [f \in Fields(k) |->
                   IF f \in Said("dict", k, v, s) THEN target(f, s[f])
                   ELSE IF rest = "kept" THEN old[f] ELSE Blank(k)[f]]
<1> DEFINE key == DictKey[KindOf[k]]
           wire == toDict(k, s)
           sent == {f \in DOMAIN key : f \in sentIfSet => s[f] # "zero"}
<1>1. DOMAIN key = Fields(k)
    BY DEF DictKey, Fields, DictKeys, TupleIndex, zoneFromDict, policyFromDict, zoneFromTuple,
           zoneDict, Nothing
<1>2. \A f \in Fields(k) : key[f] = WireKey(k, f)
    BY <1>1, KeysAgree
<1>3. \A f, g \in Fields(k) : WireKey(k, f) = WireKey(k, g) => f = g
    BY KeyTable
<1>4. wire = [n \in {key[f] : f \in sent} |->
                LET f == CHOOSE g \in sent : key[g] = n IN target(f, s[f])]
    BY DEF toDict
<1>5. sent = {f \in Fields(k) : f \in sentIfSet => s[f] # "zero"}
    BY <1>1
<1> HIDE DEF wire, key, sent
<1>6. Mentions("dict", k, v, wire) = Said("dict", k, v, s)
    BY <1>2, <1>3, <1>4, <1>5 DEF Mentions, Said, Known
<1>7. ASSUME NEW f \in Said("dict", k, v, s)
      PROVE  wire[WireKey(k, f)] = target(f, s[f])
    <2>1. f \in sent /\ f \in Fields(k)
        BY <1>5 DEF Said, Known
    <2>2. (CHOOSE g \in sent : key[g] = WireKey(k, f)) = f
        BY <1>2, <1>3, <1>5, <2>1
    <2> QED  BY <1>2, <1>4, <2>1, <2>2
<1> QED  BY <1>6, <1>7 DEF Updated, wire

LEMMA UpdateCarries ==
    ASSUME NEW k \in DOMAIN KindOf, NEW v, NEW s, NEW old,
           NEW form, Coded(form, k), form = "dict" => KindOf[k] # "service"
    PROVE  Updated(form, k, v, encode(form, k, s), old) =
               [f \in Fields(k) |->
                   IF f \in Said(form, k, v, s) THEN target(f, s[f])
                   ELSE IF rest = "kept" THEN old[f] ELSE Blank(k)[f]]
<1>1. CASE form = "tuple"
    BY <1>1, TupleUpdateCarries DEF encode, Coded
<1>2. CASE form = "dict"
    BY <1>2, DictUpdateCarries DEF encode, Coded
<1> QED  BY <1>1, <1>2 DEF Coded, Ways

-------------------------------------------------------------------------------
(***************************************************************************)
(* The inductive invariant: what the caller holds follows the store.       *)
(***************************************************************************)
LEMMA FieldsNotEmpty == ASSUME NEW k \in DOMAIN KindOf PROVE Fields(k) # {}
<1>1. \E f \in {"Version", "Chains"} : f \in Fields(k)
    BY DEF Fields, KindOf, TupleIndex, DictKeys, zoneFromTuple, serviceFromTuple, ipsetFromTuple,
           icmpFromTuple, helperFromTuple, directFromTuple, policyFromDict, policyDict
<1> QED  BY <1>1

\* An object has settings, so it is not the absent one.
LEMMA NotNothing ==
    ASSUME NEW k \in DOMAIN KindOf, NEW s, DOMAIN s = Fields(k)
    PROVE  s # Nothing
BY FieldsNotEmpty DEF Nothing

\* The tuple holds no field that came with a later version; it, and the dictionary,
\* always state the target.
LEMMA TupleFieldsKnown ==
    ASSUME NEW k \in DOMAIN KindOf, KindOf[k] # "policy", NEW v
    PROVE  /\ DOMAIN TupleIndex[KindOf[k]] \subseteq Known(k, v)
           /\ "Target" \in Fields(k) => "Target" \in DOMAIN TupleIndex[KindOf[k]]
<1>1. DOMAIN TupleIndex[KindOf[k]] \subseteq Fields(k)
    BY TupleTable
<1>2. DOMAIN TupleIndex[KindOf[k]] \cap DOMAIN FieldSince = {}
    BY DEF KindOf, FieldSince, TupleIndex, zoneFromTuple, serviceFromTuple, ipsetFromTuple,
           icmpFromTuple, helperFromTuple, directFromTuple
<1>3. "Target" \in Fields(k) => "Target" \in DOMAIN TupleIndex[KindOf[k]]
    BY DEF KindOf, Fields, DictKeys, serviceFromDict, Nothing, TupleIndex, zoneFromTuple
<1> QED  BY <1>1, <1>2, <1>3 DEF Known

LEMMA TargetKnown ==
    ASSUME NEW k, NEW v, "Target" \in Fields(k)
    PROVE  "Target" \in Known(k, v)
BY DEF Known, FieldSince

LEMMA SaidIsKnown ==
    ASSUME NEW k \in DOMAIN KindOf, NEW form, Coded(form, k), NEW v, NEW s
    PROVE  /\ Said(form, k, v, s) \subseteq Known(k, v)
           /\ Known(k, v) \subseteq Fields(k)
           /\ "Target" \in Fields(k) => "Target" \in Said(form, k, v, s)
BY TupleFieldsKnown, TargetKnown DEF Said, Coded, Ways, Known, sentIfSet

LEMMA KnownGrows ==
    ASSUME NEW k, NEW u \in Nat \X Nat, NEW v \in Nat \X Nat, atLeast(u, v)
    PROVE  Known(k, v) \subseteq Known(k, u)
<1>1. \A f \in DOMAIN FieldSince : FieldSince[f] \in Nat \X Nat
    BY DEF FieldSince
<1> QED  BY <1>1, AtLeastTransitive DEF Known

\* Every method has a codec for the form it chooses, and Update writes in the form
\* that Settings read.
LEMMA FormsCoded ==
    ASSUME NEW k \in DOMAIN KindOf
    PROVE  /\ readForm(k) # "none" => Coded(readForm(k), k)
           /\ updateForm(k) \notin {"absent", "none"} =>
                /\ Coded(updateForm(k), k) /\ updateForm(k) = readForm(k)
                /\ updateForm(k) = "dict" => KindOf[k] # "service"
           /\ createForm(k) \notin {"absent", "none"} =>
                Coded(createForm(k), k) /\ (createForm(k) = "dict" => KindOf[k] # "service")
BY DEF readForm, updateForm, createForm, Coded, Ways, KindOf

LEMMA FormsFixed ==
    ASSUME UNCHANGED <<kind, caps>>
    PROVE  readForm(kind)' = readForm(kind)
BY DEF readForm

\* A server has set no field that it does not have, and its objects have a target;
\* others write only fields that the server has.
StoreFits ==
    /\ theirs \subseteq Known(kind, server)
    /\ store # Nothing =>
        /\ \A f \in Fields(kind) \ Known(kind, server) : store[f] = "zero"
        /\ "Target" \in Fields(kind) => store["Target"] # "zero"

\* Settings that are not all the caller's own were read, from an object that is there.
InHand ==
    draft # Nothing /\ touched # Fields(kind) => store # Nothing /\ readForm(kind) # "none"

\* A field that neither the caller nor others wrote is the same in hand and on the server,
\* unless the server keeps it because an update cannot say that it is unset.
DraftFollows ==
    draft # Nothing =>
        \A f \in Carried(readForm(kind), kind) \ touched :
            /\ f = "Target" => draft[f] # "zero"
            /\ \/ f \in theirs
               \/ draft[f] = store[f]
               \/ f \in sentIfSet /\ draft[f] = "zero" /\ rest = "kept"

IInv == TypeOK /\ CapsInv /\ StoreFits /\ InHand /\ DraftFollows

LEMMA BlankFits ==
    ASSUME NEW k, NEW v
    PROVE  /\ Blank(k) \in [Fields(k) -> Value]
           /\ \A f \in Fields(k) : Blank(k)[f] # "zero" <=> f = "Target"
BY DEF Blank, Value

LEMMA TargetFits ==
    ASSUME NEW f, NEW x
    PROVE  /\ x \in Value => target(f, x) \in Value
           /\ f # "Target" \/ x # "zero" => target(f, x) = x
           /\ f = "Target" => target(f, x) # "zero"
BY DEF target, Value

LEMMA InitIInv == Init => IInv
<1> SUFFICES ASSUME Init PROVE IInv
    OBVIOUS
<1>1. CapsInv
    BY InitCaps
<1>2. kind \in DOMAIN KindOf
    BY <1>1, TransportAssumption DEF CapsInv
<1>3. store \in Stored(kind, server)
    BY DEF Init, Stored
<1>4. \/ store = Nothing
      \/ store = Blank(kind)
      \/ \E g \in Known(kind, server) : store = [Blank(kind) EXCEPT ![g] = "other"]
    BY <1>3 DEF Stored
<1>5. store \in {Nothing} \cup [Fields(kind) -> Value]
    BY <1>4, BlankFits DEF Value, Known
<1>6. caps \subseteq DOMAIN Since
    BY DEF Init, capsFor
<1>7. TypeOK
    BY <1>5, <1>6, TransportAssumption DEF Init, TypeOK
<1>8. StoreFits
    BY <1>4, BlankFits, TargetKnown DEF Init, StoreFits, Known
<1>9. InHand /\ DraftFollows
    BY DEF Init, InHand, DraftFollows
<1> QED  BY <1>1, <1>7, <1>8, <1>9 DEF IInv

LEMMA ReadInv == ASSUME IInv, Read PROVE IInv'
<1>1. CapsInv' /\ kind \in DOMAIN KindOf
    BY NextCaps, TransportAssumption DEF Next, IInv, CapsInv
<1>2. readForm(kind)' = readForm(kind)
    BY FormsFixed DEF Read
<1>3. CASE UNCHANGED <<draft, touched, theirs>>
    <2>1. TypeOK'
        BY <1>3 DEF Read, IInv, TypeOK
    <2> QED  BY <1>1, <1>2, <1>3, <2>1
             DEF Read, IInv, StoreFits, InHand, DraftFollows, Known, Fields, Carried
<1>4. CASE ~UNCHANGED <<draft, touched, theirs>>
    <2>1. /\ readForm(kind) # "none" /\ store # Nothing
          /\ touched' = {} /\ theirs' = {} /\ outcome' = "read"
          /\ UNCHANGED <<kind, server, rest, caps, store, changes>>
        BY <1>4 DEF Read
    <2>2. PICK wire \in Reply(readForm(kind), kind, server, store) :
                    draft' = decode(readForm(kind), kind, wire)
        BY <1>4 DEF Read
    <2>3. Coded(readForm(kind), kind)
        BY <1>1, <2>1, FormsCoded
    <2>4. draft' = [f \in Fields(kind) |->
                       IF f \in Carried(readForm(kind), kind) THEN store[f] ELSE "zero"]
        BY <1>1, <2>1, <2>2, <2>3, ReadCarries DEF IInv, StoreFits
    <2>5. store \in [Fields(kind) -> Value]
        BY <2>1 DEF IInv, TypeOK
    <2>6. draft' \in [Fields(kind) -> Value]
        BY <2>4, <2>5 DEF Value
    <2>7. TypeOK'
        BY <2>1, <2>6 DEF IInv, TypeOK, Fields
    <2>8. StoreFits' /\ InHand'
        BY <1>2, <2>1 DEF IInv, StoreFits, InHand, Known, Fields
    <2>9. Carried(readForm(kind), kind) \subseteq Fields(kind)
        BY <1>1, <2>3, TupleFieldsKnown DEF Carried, Coded, Known
    <2>10. DraftFollows'
        BY <1>2, <2>1, <2>4, <2>9 DEF IInv, StoreFits, DraftFollows, Carried, Fields
    <2> QED  BY <1>1, <2>7, <2>8, <2>10 DEF IInv
<1> QED  BY <1>3, <1>4

LEMMA ComposeInv == ASSUME IInv, Compose PROVE IInv'
<1>1. CapsInv' /\ kind \in DOMAIN KindOf
    BY NextCaps, TransportAssumption DEF Next, IInv, CapsInv
<1>2. TypeOK'
    BY DEF Compose, IInv, TypeOK, Value, Fields
<1>3. StoreFits' /\ InHand'
    BY DEF Compose, IInv, StoreFits, InHand, Known, Fields
<1>4. \A form : Coded(form, kind) => Carried(form, kind) \subseteq Fields(kind)
    BY <1>1, TupleFieldsKnown DEF Carried, Coded, Known
<1>5. readForm(kind) # "none" => Coded(readForm(kind), kind)
    BY <1>1, FormsCoded
<1>6. Carried(readForm(kind), kind) \subseteq Fields(kind)
    BY <1>4, <1>5 DEF Carried
<1>7. readForm(kind)' = readForm(kind)
    BY FormsFixed DEF Compose
<1>8. DraftFollows'
    BY <1>6, <1>7 DEF Compose, DraftFollows, Carried, Fields
<1> QED  BY <1>1, <1>2, <1>3, <1>8 DEF IInv

LEMMA ChangeInv == ASSUME IInv, Change PROVE IInv'
<1>1. CapsInv' /\ readForm(kind)' = readForm(kind)
    BY NextCaps, FormsFixed DEF Next, IInv, Change
<1>2. PICK f \in Fields(kind), x \in {"zero", "other"} :
        draft' = [draft EXCEPT ![f] = x] /\ touched' = touched \cup {f}
    BY DEF Change
<1>3. /\ draft # Nothing /\ changes < MaxChanges /\ changes' = changes + 1 /\ outcome' = "none"
      /\ UNCHANGED <<kind, server, rest, caps, store, theirs>>
    BY DEF Change
<1>4. draft \in [Fields(kind) -> Value] /\ draft' \in [Fields(kind) -> Value]
    BY <1>2, <1>3 DEF IInv, TypeOK, Value
<1>5. TypeOK'
    BY <1>2, <1>3, <1>4, TransportAssumption DEF IInv, TypeOK, Fields
<1>6. StoreFits' /\ InHand'
    BY <1>1, <1>2, <1>3 DEF IInv, TypeOK, StoreFits, InHand, Known, Fields
<1>7. \A g \in Carried(readForm(kind), kind) \ touched' : draft'[g] = draft[g]
    BY <1>2, <1>4 DEF IInv, TypeOK
<1>8. DraftFollows'
    BY <1>1, <1>2, <1>3, <1>7 DEF IInv, DraftFollows, Carried, Fields
<1> QED  BY <1>1, <1>5, <1>6, <1>8 DEF IInv

\* The object after an update or its creation.
LEMMA UpdatedFits ==
    ASSUME IInv, draft # Nothing, NEW form, Coded(form, kind),
           form = "dict" => KindOf[kind] # "service",
           NEW old, old = store \/ old = Blank(kind), old # Nothing,
           NEW new, new = Updated(form, kind, server, encode(form, kind, draft), old)
    PROVE  /\ new = [f \in Fields(kind) |->
                       IF f \in Said(form, kind, server, draft) THEN target(f, draft[f])
                       ELSE IF rest = "kept" THEN old[f] ELSE Blank(kind)[f]]
           /\ new \in [Fields(kind) -> Value] /\ new # Nothing
           /\ \A f \in Fields(kind) \ Known(kind, server) : new[f] = "zero"
           /\ "Target" \in Fields(kind) => new["Target"] # "zero"
<1>1. kind \in DOMAIN KindOf
    BY TransportAssumption DEF IInv, CapsInv
<1>2. new = [f \in Fields(kind) |->
               IF f \in Said(form, kind, server, draft) THEN target(f, draft[f])
               ELSE IF rest = "kept" THEN old[f] ELSE Blank(kind)[f]]
    BY <1>1, UpdateCarries
<1>3. draft \in [Fields(kind) -> Value] /\ old \in [Fields(kind) -> Value]
    BY BlankFits DEF IInv, TypeOK
<1>4. new \in [Fields(kind) -> Value] /\ new # Nothing
    BY <1>1, <1>2, <1>3, BlankFits, TargetFits, NotNothing
<1>5. \A f \in Fields(kind) \ Known(kind, server) :
        f # "Target" /\ f \notin Said(form, kind, server, draft) /\ old[f] = "zero"
    BY <1>1, SaidIsKnown, TargetKnown, BlankFits DEF IInv, StoreFits
<1>6. \A f \in Fields(kind) \ Known(kind, server) : new[f] = "zero"
    BY <1>2, <1>5, BlankFits
<1>7. "Target" \in Fields(kind) => new["Target"] # "zero"
    BY <1>1, <1>2, SaidIsKnown, TargetFits
<1> QED  BY <1>2, <1>4, <1>6, <1>7

LEMMA UpdateInv == ASSUME IInv, Update PROVE IInv'
<1>1. CapsInv' /\ kind \in DOMAIN KindOf /\ readForm(kind)' = readForm(kind)
    BY NextCaps, TransportAssumption, FormsFixed DEF Next, IInv, CapsInv, Update
<1>2. draft # Nothing /\ UNCHANGED <<kind, server, rest, caps, draft, touched, changes>>
    BY DEF Update
<1>3. CASE UNCHANGED <<store, theirs>>
    <2>1. TypeOK'
        BY <1>2, <1>3 DEF Update, IInv, TypeOK, Fields
    <2> QED  BY <1>1, <1>2, <1>3, <2>1
             DEF IInv, StoreFits, InHand, DraftFollows, Known, Fields, Carried
<1>4. CASE ~UNCHANGED <<store, theirs>>
    <2> DEFINE form == updateForm(kind)
    <2>1. /\ form \notin {"none", "absent"} /\ store # Nothing
          /\ store' = Updated(form, kind, server, encode(form, kind, draft), store)
          /\ theirs' = {} /\ outcome' = "updated"
        BY <1>4 DEF Update
    <2>2. Coded(form, kind) /\ form = readForm(kind) /\ (form = "dict" => KindOf[kind] # "service")
        BY <1>1, <2>1, FormsCoded
    <2> HIDE DEF form
    <2>3. /\ store' = [f \in Fields(kind) |->
                         IF f \in Said(form, kind, server, draft) THEN target(f, draft[f])
                         ELSE IF rest = "kept" THEN store[f] ELSE Blank(kind)[f]]
          /\ store' \in [Fields(kind) -> Value] /\ store' # Nothing
          /\ \A f \in Fields(kind) \ Known(kind, server) : store'[f] = "zero"
          /\ "Target" \in Fields(kind) => store'["Target"] # "zero"
        BY <1>2, <2>1, <2>2, UpdatedFits
    <2>4. TypeOK'
        BY <1>2, <2>1, <2>3 DEF IInv, TypeOK, Fields
    <2>5. StoreFits' /\ InHand'
        BY <1>1, <1>2, <2>1, <2>2, <2>3 DEF IInv, StoreFits, InHand, Known, Fields, Coded, Ways
    <2>6. ASSUME NEW f \in Carried(readForm(kind), kind) \ touched
          PROVE  /\ f = "Target" => draft[f] # "zero"
                 /\ \/ draft[f] = store'[f]
                    \/ f \in sentIfSet /\ draft[f] = "zero" /\ rest = "kept"
        <3>1. /\ f = "Target" => draft[f] # "zero"
              /\ \/ f \in theirs \/ draft[f] = store[f]
                 \/ f \in sentIfSet /\ draft[f] = "zero" /\ rest = "kept"
            BY <1>2 DEF IInv, DraftFollows
        <3>2. f \in Fields(kind)
            BY <1>1, <2>2, TupleFieldsKnown DEF Carried, Coded, Known
        <3>3. CASE f \in Said(form, kind, server, draft)
            BY <2>3, <3>1, <3>2, <3>3, TargetFits
        <3>4. CASE f \notin Known(kind, server)
            <4>1. f \notin Said(form, kind, server, draft) /\ f # "Target"
                BY <1>1, <2>2, <3>2, <3>4, SaidIsKnown, TargetKnown
            <4>2. store[f] = "zero" /\ draft[f] = "zero"
                BY <2>1, <3>1, <3>2, <3>4 DEF IInv, StoreFits
            <4>3. store'[f] = "zero"
                BY <2>3, <3>2, <4>1, <4>2, BlankFits
            <4> QED  BY <3>1, <4>2, <4>3
        <3>5. CASE f \notin Said(form, kind, server, draft) /\ f \in Known(kind, server)
            <4>1. f \in sentIfSet /\ draft[f] = "zero"
                BY <2>2, <3>5 DEF Said, Carried, Coded, Ways
            <4>2. f # "Target"
                BY <4>1 DEF sentIfSet
            <4>3. rest # "kept" => store'[f] = "zero"
                BY <2>3, <3>2, <3>5, <4>2, BlankFits
            <4> QED  BY <4>1, <4>2, <4>3
        <3> QED  BY <3>3, <3>4, <3>5
    <2>7. DraftFollows'
        BY <1>1, <1>2, <2>6 DEF DraftFollows, Carried, Fields
    <2> QED  BY <1>1, <2>4, <2>5, <2>7 DEF IInv
<1> QED  BY <1>3, <1>4

LEMMA CreateInv == ASSUME IInv, Create PROVE IInv'
<1>1. CapsInv' /\ kind \in DOMAIN KindOf /\ readForm(kind)' = readForm(kind)
    BY NextCaps, TransportAssumption, FormsFixed DEF Next, IInv, CapsInv, Create
<1>2. draft # Nothing /\ UNCHANGED <<kind, server, rest, caps, draft, touched, theirs, changes>>
    BY DEF Create
<1>3. CASE UNCHANGED store
    <2>1. TypeOK'
        BY <1>2, <1>3 DEF Create, IInv, TypeOK, Fields
    <2> QED  BY <1>1, <1>2, <1>3, <2>1
             DEF IInv, StoreFits, InHand, DraftFollows, Known, Fields, Carried
<1>4. CASE ~UNCHANGED store
    <2> DEFINE form == createForm(kind)
    <2>1. /\ form \notin {"none", "absent"} /\ store = Nothing
          /\ store' = Updated(form, kind, server, encode(form, kind, draft), Blank(kind))
          /\ outcome' = "created"
        BY <1>4 DEF Create
    <2>2. Coded(form, kind) /\ (form = "dict" => KindOf[kind] # "service")
        BY <1>1, <2>1, FormsCoded
    <2> HIDE DEF form
    <2>3. Blank(kind) # Nothing
        BY <1>1, NotNothing DEF Blank
    <2>4. /\ store' \in [Fields(kind) -> Value] /\ store' # Nothing
          /\ \A f \in Fields(kind) \ Known(kind, server) : store'[f] = "zero"
          /\ "Target" \in Fields(kind) => store'["Target"] # "zero"
        BY <1>2, <2>1, <2>2, <2>3, UpdatedFits
    <2>5. TypeOK'
        BY <1>2, <2>1, <2>4 DEF IInv, TypeOK, Fields
    <2>6. touched = Fields(kind)
        BY <1>2, <2>1 DEF IInv, InHand
    <2>7. StoreFits' /\ InHand'
        BY <1>1, <1>2, <2>4, <2>6 DEF IInv, StoreFits, InHand, Known, Fields
    <2>8. Carried(readForm(kind), kind) \subseteq Fields(kind)
        BY <1>1, FormsCoded, TupleFieldsKnown DEF Carried, Coded, Known
    <2>9. DraftFollows'
        BY <1>1, <1>2, <2>6, <2>8 DEF DraftFollows, Carried, Fields
    <2> QED  BY <1>1, <2>5, <2>7, <2>9 DEF IInv
<1> QED  BY <1>3, <1>4

LEMMA OutsideEditInv == ASSUME IInv, OutsideEdit PROVE IInv'
<1>1. CapsInv' /\ readForm(kind)' = readForm(kind)
    BY NextCaps, FormsFixed DEF Next, IInv, OutsideEdit
<1>2. PICK f \in Known(kind, server) :
        /\ store' = [store EXCEPT ![f] = IF @ = "other" THEN Blank(kind)[f] ELSE "other"]
        /\ theirs' = theirs \cup {f}
    BY DEF OutsideEdit
<1>3. /\ store # Nothing /\ outcome' = "none"
      /\ UNCHANGED <<kind, server, rest, caps, draft, touched, changes>>
    BY DEF OutsideEdit
<1>4. kind \in DOMAIN KindOf /\ f \in Fields(kind) /\ store \in [Fields(kind) -> Value]
    BY <1>3, TransportAssumption DEF IInv, CapsInv, TypeOK, Known
<1>5. /\ store' \in [Fields(kind) -> Value] /\ store' # Nothing
      /\ \A g \in Fields(kind) \ {f} : store'[g] = store[g]
      /\ f = "Target" => store'[f] # "zero"
    BY <1>2, <1>4, BlankFits, NotNothing DEF Value
<1>6. TypeOK'
    BY <1>2, <1>3, <1>4, <1>5 DEF IInv, TypeOK, Fields
<1>7. StoreFits' /\ InHand'
    BY <1>1, <1>2, <1>3, <1>5 DEF IInv, StoreFits, InHand, Known, Fields
<1>8. Carried(readForm(kind), kind) \subseteq Fields(kind)
    BY <1>4, FormsCoded, TupleFieldsKnown DEF Carried, Coded, Known
<1>9. DraftFollows'
    BY <1>1, <1>2, <1>3, <1>5, <1>8 DEF IInv, DraftFollows, Carried, Fields
<1> QED  BY <1>1, <1>6, <1>7, <1>9 DEF IInv

LEMMA UpgradeInv == ASSUME IInv, Upgrade PROVE IInv'
<1>1. CapsInv' /\ readForm(kind)' = readForm(kind)
    BY NextCaps, FormsFixed DEF Next, IInv, Upgrade
<1>2. /\ server' \in Servers /\ atLeast(server', server) /\ outcome' = "none"
      /\ UNCHANGED <<kind, rest, caps, store, draft, touched, theirs, changes>>
    BY DEF Upgrade
<1>3. TypeOK'
    BY <1>2 DEF IInv, TypeOK, Fields
<1>4. server \in Nat \X Nat /\ server' \in Nat \X Nat
    BY <1>2, TransportAssumption DEF IInv, CapsInv
<1>5. Known(kind, server) \subseteq Known(kind, server')
    BY <1>2, <1>4, KnownGrows
<1>6. StoreFits' /\ InHand' /\ DraftFollows'
    BY <1>1, <1>2, <1>5 DEF IInv, StoreFits, InHand, DraftFollows, Known, Fields, Carried
<1> QED  BY <1>1, <1>3, <1>6 DEF IInv

LEMMA NextIInv == IInv /\ [Next]_vars => IInv'
<1> SUFFICES ASSUME IInv, [Next]_vars PROVE IInv'
    OBVIOUS
<1>1. CASE UNCHANGED vars
    BY <1>1 DEF vars, IInv, TypeOK, CapsInv, StoreFits, InHand, DraftFollows, Known, Fields,
                Carried, readForm
<1> QED  BY <1>1, ReadInv, ComposeInv, ChangeInv, UpdateInv, CreateInv, OutsideEditInv, UpgradeInv
         DEF Next

LEMMA SpecIInv == Spec => []IInv
BY InitIInv, NextIInv, PTL DEF Spec

\* The variables have their types: whatever was read, sent or refused, the caller holds
\* and the server stores settings with exactly the fields of their kind.
THEOREM TypeCorrect == Spec => []TypeOK
BY SpecIInv, PTL DEF IInv

-------------------------------------------------------------------------------
(***************************************************************************)
(* What an update and a creation do to the object.                         *)
(***************************************************************************)
\* A handle that knows the server and still uses the tuple has no more fields to send.
LEMMA TupleHoldsAll ==
    ASSUME CapsInv, Current, ~TupleOnly,
           updateForm(kind) = "tuple" \/ createForm(kind) = "tuple"
    PROVE  Known(kind, server) \subseteq DOMAIN TupleIndex[KindOf[kind]]
<1>1. kind \in DOMAIN KindOf /\ server \in Nat \X Nat
    BY TransportAssumption DEF CapsInv
<1>2. CASE kind \in {"zone", "runtimeZone"}
    <2>1. "DictZoneSettings" \notin caps \/ "AddZone2" \notin caps
        BY <1>2 DEF updateForm, createForm, readForm
    <2>2. ~atLeast(server, <<0, 9>>)
        BY <2>1 DEF Current, capsFor, Since
    <2>3. ~atLeast(server, <<2, 0>>)
        BY <1>1, <2>2 DEF atLeast
    <2>4. Fields(kind) = DOMAIN zoneDict
        BY <1>2 DEF KindOf, Fields, TupleIndex, DictKeys, zoneFromDict, zoneFromTuple, zoneDict
    <2>5. \A f \in DOMAIN zoneDict \ DOMAIN zoneFromTuple :
            f \in DOMAIN FieldSince /\ FieldSince[f] \in {<<0, 9>>, <<2, 0>>}
        BY DEF zoneDict, zoneFromTuple, FieldSince
    <2>6. Known(kind, server) \subseteq DOMAIN zoneFromTuple
        BY <2>2, <2>3, <2>4, <2>5 DEF Known
    <2> QED  BY <1>2, <2>6 DEF KindOf, TupleIndex
<1>3. CASE kind = "service"
    <2>1. Fields(kind) = DOMAIN serviceFromDict
        BY <1>3 DEF KindOf, Fields, TupleIndex, DictKeys, serviceFromDict, serviceFromTuple
    <2>2. ~atLeast(server, <<1, 0>>)
        BY <1>3, <2>1 DEF TupleOnly, Known, FieldSince, serviceFromDict
    <2>3. \A f \in DOMAIN serviceFromDict \ DOMAIN serviceFromTuple :
            f \in DOMAIN FieldSince /\ FieldSince[f] = <<1, 0>>
        BY DEF serviceFromDict, serviceFromTuple, FieldSince
    <2>4. Known(kind, server) \subseteq DOMAIN serviceFromTuple
        BY <2>1, <2>2, <2>3 DEF Known
    <2> QED  BY <1>3, <2>4 DEF KindOf, TupleIndex
<1>4. CASE kind \in {"ipset", "icmptype", "helper", "direct"}
    <2>1. Fields(kind) = DOMAIN TupleIndex[KindOf[kind]]
        BY <1>4 DEF Fields, KindOf, DictKeys, Nothing
    <2> QED  BY <2>1 DEF Known
<1>5. kind \notin {"policy", "runtimePolicy", "runtimeService"}
    BY DEF updateForm, createForm, readForm
<1> QED  BY <1>1, <1>2, <1>3, <1>4, <1>5 DEF KindOf

LEMMA UpdateKeepsTheRest ==
    ASSUME IInv, Update, outcome' = "updated", rest = "kept" \/ (Current /\ ~TupleOnly),
           NEW f \in Fields(kind) \ (touched \cup theirs)
    PROVE  store'[f] = store[f]
<1> DEFINE form == updateForm(kind)
<1>1. /\ draft # Nothing /\ form \notin {"none", "absent"} /\ store # Nothing
      /\ store' = Updated(form, kind, server, encode(form, kind, draft), store)
    BY DEF Update
<1>2. kind \in DOMAIN KindOf
    BY TransportAssumption DEF IInv, CapsInv
<1>3. Coded(form, kind) /\ form = readForm(kind) /\ (form = "dict" => KindOf[kind] # "service")
    BY <1>1, <1>2, FormsCoded
<1>4. form = "tuple" /\ rest # "kept" => Known(kind, server) \subseteq Carried(form, kind)
    BY TupleHoldsAll DEF IInv, Carried
<1> HIDE DEF form
<1>5. store'[f] = IF f \in Said(form, kind, server, draft) THEN target(f, draft[f])
                  ELSE IF rest = "kept" THEN store[f] ELSE Blank(kind)[f]
    BY <1>1, <1>3, UpdatedFits
<1>6. CASE f \in Said(form, kind, server, draft)
    <2>1. f \in Carried(form, kind)
        BY <1>6 DEF Said, Carried
    <2>2. /\ f = "Target" => draft[f] # "zero"
          /\ draft[f] = store[f] \/ (f \in sentIfSet /\ draft[f] = "zero")
        BY <1>1, <1>3, <2>1 DEF IInv, DraftFollows
    <2>3. f \in Known(kind, server)
        BY <1>2, <1>3, <1>6, SaidIsKnown
    <2>4. form = "dict" => ~(f \in sentIfSet /\ draft[f] = "zero")
        BY <1>6 DEF Said
    <2>5. form = "tuple" => f \notin sentIfSet
        BY <1>2, <1>3, <2>1 DEF Carried, sentIfSet, Coded, KindOf, TupleIndex, zoneFromTuple,
           serviceFromTuple, ipsetFromTuple, icmpFromTuple, helperFromTuple, directFromTuple
    <2>6. draft[f] = store[f]
        BY <1>3, <2>2, <2>4, <2>5 DEF Coded, Ways
    <2> QED  BY <1>5, <1>6, <2>2, <2>6, TargetFits
<1>7. CASE f \notin Said(form, kind, server, draft) /\ rest = "kept"
    BY <1>5, <1>7
<1>8. CASE f \notin Known(kind, server)
    <2>1. f # "Target" /\ f \notin Said(form, kind, server, draft)
        BY <1>2, <1>3, <1>8, SaidIsKnown, TargetKnown
    <2>2. store[f] = "zero"
        BY <1>1, <1>8 DEF IInv, StoreFits
    <2> QED  BY <1>5, <2>1, <2>2, BlankFits
<1>9. CASE f \notin Said(form, kind, server, draft) /\ f \in Known(kind, server) /\ rest # "kept"
    <2>1. form = "dict" /\ f \in sentIfSet /\ draft[f] = "zero"
        BY <1>3, <1>4, <1>9 DEF Said, Carried, Coded, Ways
    <2>2. draft[f] = store[f]
        BY <1>1, <1>3, <1>9, <2>1 DEF IInv, DraftFollows, Carried
    <2>3. f # "Target"
        BY <2>1 DEF sentIfSet
    <2> QED  BY <1>5, <1>9, <2>1, <2>2, <2>3, BlankFits
<1> QED  BY <1>6, <1>7, <1>8, <1>9

\* Read, change, Update leaves on the server what the caller did not change: for every
\* kind, every mix of server versions, whatever part of the version string could be read,
\* any number of changes, upgrades and edits by others in between
\* (zonesettings.go, servicesettings.go, direct.go and their siblings: ToSettings /
\* FromSettings pairs; zone.go: the choice of transport).
THEOREM EditKeepsTheRestHolds == Spec => EditKeepsTheRest
<1>1. ASSUME IInv, [Next]_vars
      PROVE  [ outcome' = "updated" /\ (rest = "kept" \/ (Current /\ ~TupleOnly)) =>
                 \A f \in Fields(kind) \ (touched \cup theirs) : store'[f] = store[f] ]_vars
    <2>1. outcome' = "updated" /\ Next => Update
        BY DEF Next, Read, Compose, Change, Create, OutsideEdit, Upgrade
    <2> QED  BY <1>1, <2>1, UpdateKeepsTheRest
<1> QED  BY <1>1, SpecIInv, PTL DEF Spec, EditKeepsTheRest

\* A tuple has no room for a field: the handle has nothing else, or the library thinks
\* that the server does not.
LEMMA TupleHasNoRoom ==
    ASSUME CapsInv, updateForm(kind) = "tuple" \/ createForm(kind) = "tuple",
           NEW f \in Fields(kind), f \notin DOMAIN TupleIndex[KindOf[kind]]
    PROVE  NoRoom(f)
<1>1. kind \in DOMAIN KindOf
    BY TransportAssumption DEF CapsInv
<1>2. kind \in {"zone", "runtimeZone"} =>
        "DictZoneSettings" \notin caps \/ "AddZone2" \notin caps
    BY DEF updateForm, createForm, readForm
<1>3. kind \notin {"policy", "runtimePolicy", "runtimeService"}
    BY DEF updateForm, createForm, readForm
<1>4. kind \notin {"ipset", "icmptype", "helper", "direct"}
    BY DEF Fields, KindOf, DictKeys, Nothing
<1> QED  BY <1>1, <1>2, <1>3, <1>4 DEF NoRoom, KindOf

\* What an update or a creation does to a field.
LEMMA WriteSets ==
    ASSUME IInv, Update \/ Create, outcome' \in {"updated", "created"},
           NEW f \in Known(kind, server)
    PROVE  \/ store'[f] = target(f, draft[f])
           \/ NoRoom(f)
           \/ /\ Cleared(f) /\ rest = "kept" /\ store'[f] = store[f]
              /\ outcome' = "updated"
<1>1. kind \in DOMAIN KindOf
    BY TransportAssumption DEF IInv, CapsInv
<1>2. PICK form \in {updateForm(kind), createForm(kind)} :
        /\ draft # Nothing /\ form \notin {"none", "absent"}
        /\ \E old \in {store, Blank(kind)} :
            /\ old # Nothing
            /\ (old = store /\ outcome' = "updated") \/ old = Blank(kind)
            /\ store' = Updated(form, kind, server, encode(form, kind, draft), old)
    <2>1. CASE Update
        BY <2>1 DEF Update
    <2>2. CASE Create
        BY <1>1, <2>2, NotNothing DEF Create, Blank
    <2> QED  BY <2>1, <2>2
<1>3. Coded(form, kind) /\ (form = "dict" => KindOf[kind] # "service")
    BY <1>1, <1>2, FormsCoded
<1>4. f \in Fields(kind)
    BY DEF Known
<1>5. CASE f \in Said(form, kind, server, draft)
    BY <1>2, <1>3, <1>4, <1>5, UpdatedFits
<1>6. CASE f \notin Said(form, kind, server, draft) /\ form = "tuple"
    BY <1>2, <1>4, <1>6, TupleHasNoRoom DEF Said, IInv
<1>7. CASE f \notin Said(form, kind, server, draft) /\ form = "dict"
    <2>1. Cleared(f) /\ f # "Target"
        BY <1>7 DEF Said, Cleared, sentIfSet
    <2>2. Blank(kind)[f] = target(f, draft[f])
        BY <1>1, <1>4, <2>1, BlankFits, TargetFits DEF Cleared
    <2>3. PICK old \in {store, Blank(kind)} :
            /\ (old = store /\ outcome' = "updated") \/ old = Blank(kind)
            /\ store'[f] = IF rest = "kept" THEN old[f] ELSE Blank(kind)[f]
        BY <1>2, <1>3, <1>4, <1>7, UpdatedFits
    <2> QED  BY <2>1, <2>2, <2>3
<1> QED  BY <1>3, <1>5, <1>6, <1>7 DEF Coded, Ways

\* After Update or Add* the object has every setting it was given, on every server and
\* whatever the library knows of it, but for what the transport has no room for and for
\* priorities set to zero, which a server that keeps what is omitted keeps
\* (zonesettings.go: toDict; service.go: Update by tuple; zone.go, permzone.go: the
\* choice of transport).
THEOREM OnlyUnsentLostHolds == Spec => OnlyUnsentLost
<1>1. ASSUME IInv, [Next]_vars
      PROVE  [ outcome' \in {"updated", "created"} =>
                 \A f \in Known(kind, server) :
                    \/ store'[f] = target(f, draft[f])
                    \/ NoRoom(f)
                    \/ Cleared(f) /\ rest = "kept" /\ store'[f] = store[f] ]_vars
    <2>1. outcome' \in {"updated", "created"} /\ Next => Update \/ Create
        BY DEF Next, Read, Compose, Change, OutsideEdit, Upgrade
    <2> QED  BY <1>1, <2>1, WriteSets
<1> QED  BY <1>1, SpecIInv, PTL DEF Spec, OnlyUnsentLost

\* An update by dictionary never clears a priority on a server that keeps what is omitted:
\* the object keeps the one it had, however often the caller repeats the update (zonesettings.go:
\* toDict sends a priority only when it is not zero).
THEOREM ClearedPriorityKept ==
    Spec => [][ outcome' = "updated" /\ updateForm(kind) = "dict" /\ rest = "kept" =>
                    \A f \in Fields(kind) : Cleared(f) => store'[f] = store[f] ]_vars
<1>1. ASSUME IInv, [Next]_vars
      PROVE  [ outcome' = "updated" /\ updateForm(kind) = "dict" /\ rest = "kept" =>
                    \A f \in Fields(kind) : Cleared(f) => store'[f] = store[f] ]_vars
    <2> SUFFICES ASSUME vars' # vars, outcome' = "updated", updateForm(kind) = "dict",
                        rest = "kept", NEW f \in Fields(kind), Cleared(f)
                 PROVE  store'[f] = store[f]
        OBVIOUS
    <2>1. Update
        BY <1>1 DEF Next, Read, Compose, Change, Create, OutsideEdit, Upgrade
    <2>2. /\ draft # Nothing /\ store # Nothing
          /\ store' = Updated("dict", kind, server, encode("dict", kind, draft), store)
        BY <2>1 DEF Update
    <2>3. kind \in DOMAIN KindOf
        BY <1>1, TransportAssumption DEF IInv, CapsInv
    <2>4. Coded("dict", kind) /\ KindOf[kind] # "service"
        BY <2>3, FormsCoded
    <2>5. f \notin Said("dict", kind, server, draft)
        BY DEF Said, Cleared
    <2> QED  BY <1>1, <2>2, <2>4, <2>5, UpdatedFits
<1> QED  BY <1>1, SpecIInv, PTL DEF Spec

-------------------------------------------------------------------------------
(***************************************************************************)
(* What a read returns.                                                    *)
(***************************************************************************)
LEMMA ReadReturns ==
    ASSUME IInv, Read, outcome' = "read"
    PROVE  ReadIntact'
<1>1. kind \in DOMAIN KindOf
    BY TransportAssumption DEF IInv, CapsInv
<1>2. /\ readForm(kind) # "none" /\ store # Nothing
      /\ \E wire \in Reply(readForm(kind), kind, server, store) :
            draft' = decode(readForm(kind), kind, wire)
      /\ UNCHANGED <<kind, caps, store>>
    BY DEF Read
<1>3. Coded(readForm(kind), kind) /\ readForm(kind)' = readForm(kind)
    BY <1>1, <1>2, FormsCoded, FormsFixed
<1>4. draft' = [f \in Fields(kind) |->
                  IF f \in Carried(readForm(kind), kind) THEN store[f] ELSE "zero"]
    BY <1>1, <1>2, <1>3, ReadCarries DEF IInv, StoreFits
<1> QED  BY <1>2, <1>3, <1>4 DEF ReadIntact, Carried, Coded, Ways, Fields

\* Reading an object gives its settings as they are, in any form and on any version: all
\* of them by the dictionary, and by the tuple those it has a place for.
THEOREM ReadIntactHolds == Spec => []ReadIntact
<1>1. Init => ReadIntact
    BY DEF Init, ReadIntact
<1>2. ReadIntact /\ IInv /\ [Next]_vars => ReadIntact'
    <2> SUFFICES ASSUME ReadIntact, IInv, [Next]_vars, outcome' = "read"
                 PROVE  ReadIntact'
        BY DEF ReadIntact
    <2>1. CASE UNCHANGED vars
        BY <2>1 DEF vars, ReadIntact, readForm, Fields
    <2>2. CASE ~UNCHANGED vars
        <3>1. Read
            BY <2>2 DEF Next, Compose, Change, Update, Create, OutsideEdit, Upgrade
        <3> QED  BY <3>1, ReadReturns
    <2> QED  BY <2>1, <2>2
<1> QED  BY <1>1, <1>2, SpecIInv, PTL DEF Spec

\* "Newer firewalld also exposes includes/helpers via the dict form ... populated when the
\* dict transport is available" (service.go) holds for a service of the running firewall:
\* read by dictionary, it has the includes and helpers of the object.
THEOREM RuntimeIncludesPopulated ==
    Spec => [](/\ kind = "runtimeService" /\ "ServiceSettings2" \in caps
               /\ outcome = "read"
               => \A f \in {"Includes", "Helpers"} : draft[f] = store[f])
<1>1. ReadIntact /\ kind = "runtimeService" /\ "ServiceSettings2" \in caps /\ outcome = "read"
        => \A f \in {"Includes", "Helpers"} : draft[f] = store[f]
    <2> SUFFICES ASSUME ReadIntact, kind = "runtimeService", outcome = "read",
                        "ServiceSettings2" \in caps, NEW f \in {"Includes", "Helpers"}
                 PROVE  draft[f] = store[f]
        OBVIOUS
    <2>1. readForm(kind) = "dict"
        BY DEF readForm
    <2>2. f \in Fields(kind)
        BY DEF Fields, KindOf, DictKeys, serviceFromDict
    <2> QED  BY <2>1, <2>2 DEF ReadIntact
<1> QED  BY <1>1, ReadIntactHolds, PTL

\* It does not hold for the permanent handle, which reads the tuple on every server:
\* includes and helpers are empty whatever the object has (service.go: PermService.Settings).
THEOREM PermanentIncludesEmpty ==
    Spec => [](kind = "service" /\ outcome = "read" =>
                 \A f \in {"Includes", "Helpers"} : draft[f] = "zero")
<1>1. ReadIntact /\ kind = "service" /\ outcome = "read" =>
        \A f \in {"Includes", "Helpers"} : draft[f] = "zero"
    <2> SUFFICES ASSUME ReadIntact, kind = "service", outcome = "read",
                        NEW f \in {"Includes", "Helpers"}
                 PROVE  draft[f] = "zero"
        OBVIOUS
    <2>1. readForm(kind) = "tuple"
        BY DEF readForm
    <2>2. f \in Fields(kind) /\ f \notin DOMAIN TupleIndex[KindOf[kind]]
        BY DEF Fields, KindOf, DictKeys, TupleIndex, serviceFromDict, serviceFromTuple
    <2> QED  BY <2>1, <2>2 DEF ReadIntact
<1> QED  BY <1>1, ReadIntactHolds, PTL
===============================================================================
