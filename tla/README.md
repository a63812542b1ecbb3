# A verification development of go-firewalld

go-firewalld is a Go client of firewalld's D-Bus interface. It keeps little state
of its own; what can go wrong is in the time between a request, its execution by
the daemon and its reply, in handles and connections shared by goroutines, in
subscriptions, and in what its conversions lose. The TLA+ modules here model that
state and those interleavings, TLC checks them on small instances, and TLAPS
proves the main results for all instances.

## The system

| Component (source) | State it keeps | Operations | What is hard |
| --- | --- | --- | --- |
| Permanent zone handle (`permzone.go`, `config.go`) | name, cached object path, mutex | every method resolves the path, then calls the method on it; `Rename`, `Remove` | the path is used after the mutex is released; the mutex is held across a D-Bus call; the context may end anywhere; other clients change the daemon |
| Signal subscriptions (`signals.go`) | per watcher: two channels of 64, a goroutine; on the bus: match rules; in the bus library: a registered channel and deferred deliveries | `WatchSignals`, `WatchReloaded`, teardown on cancellation or hangup | full channels, slow consumers, watchers that share rules, partial failure, a connection lost while a watcher starts, waits or ends |
| Connection (`firewalld.go`) | bus connection, whether it is owned, version and capabilities read once | `Connect`, `Open`, `Close`, `call` and the daemon-wide methods | capabilities grow stale; a caller that gave up cannot know whether its request ran |
| Policy, ipset, service, icmptype and helper handles (`policy.go`, `ipset.go`, `service.go`, `icmptype.go`, `helper.go`) | name and cached path, no mutex; policies gate on a capability | as the zone handle; only policies can be renamed | callers must take turns, and how much of that is needed is nowhere stated |
| Runtime zone (`zone.go`) | a name; the daemon keeps the elements and their timers | timed `Add...`, `Remove...`, `Query...`, getters, settings, interfaces and sources | durations are truncated to int32 seconds; timers against reload, removal, re-addition; retries after a call was given up |
| Runtime ipset entries (`ipset.go`), runtime direct rules (`direct.go`), lockdown (`lockdown.go`), panic mode | nothing; the daemon keeps them | add, remove, query, list, `SetEntries`, `RemoveRules`, `RemoveAllPassthroughs` | as the runtime zone, without timeouts |
| Codecs (`zonesettings.go`, `decode.go`, `types.go`, the settings types) | none | tuple and dict forms of settings, read tolerantly | what a round trip loses; omitted keys; short tuples |
| Version and capabilities (`caps.go`) | none | parse a version, derive the capabilities | boundary versions |
| Error mapping (`errors.go`) | none | D-Bus exception to sentinel | which token is recognised |
| Permanent direct configuration (`direct.go`) | none | read and written as one value | lost updates between clients |
| Properties (`properties.go`) | none | single reads and writes of named values | nothing a model would show |

The components meet in three places: every method goes through `Conn.call`; handles
and watchers share the one connection, its match rules and its loss; the transport
of settings is chosen by the capabilities.

What makes them correct. *Handle*: no method is run on a zone the handle never
named; the cached path belongs to the name; every call ends if contexts do; the
mutex is never left locked. *Signals*: nothing lost, duplicated or invented while a
subscription lasts, the order kept as long as nothing overflows, the channel closed
on cancellation and hangup, the bus left as it was; every reload passed on once.
*Unlocked handles*: the same as the zone handle, for callers that take turns. *Runtime
zone and its siblings*: what is given a timeout ends then, and neither earlier nor
later; what an outcome says of an element is true. *Codecs*: what is read and written
back is unchanged. *Errors*: a known code maps to its sentinel and nothing else does.

## Modules

| Module | Models |
| --- | --- |
| `PermHandle` | one `PermZone` shared by goroutines, and the daemon as far as it matters to it |
| `UnlockedHandle` | the handles of every kind, their missing mutex and the callers' turns; refines `PermHandle` |
| `MCPermHandle`, `MCUnlockedHandle` | symmetry for TLC |
| `PermHandleProofs`, `UnlockedHandleProofs` | their theorems |
| `EventStream` | what a subscription promises, abstractly |
| `SignalWatch` | `WatchSignals` for any number of watchers of one connection, in detail |
| `ReloadWatch` | `WatchReloaded`: a second goroutine that reads a watcher's channel; extends `SignalWatch` |
| `MCSignalWatch`, `MCReloadWatch` | symmetry, and which signals are reloads, for TLC |
| `SignalWatchProofs` | types and match rules of `SignalWatch`, for all instances |
| `SignalStreamProofs` | `SignalWatch` implements `EventStream`, for all instances |
| `SignalOrderProofs` | signals keep their order, for all instances |
| `ReloadWatchProofs` | the theorems about `ReloadWatch` |
| `SettingsTransport` | reading, replacing and creating settings: versions, capabilities, the choice of transport, both wire forms, other clients |
| `MCSettingsTransport` | the kinds of settings and the server versions for TLC |
| `SettingsTransportProofs` | what reads and updates carry and why settings are refused, for all versions |
| `RuntimeElements` | the collections of the running firewall, edited one element at a time: timeouts, errors, retries |
| `MCRuntimeElements` | the collections and the timeouts for TLC |
| `RuntimeElementsProofs` | its theorems |

### PermHandle

`name`, `path` and `mu` are the fields of `PermZone`. `call[c]` says where goroutine
`c` stands in its current method: before the lock, waiting for `getZoneByName` with the
lock held, about to store the answer, waiting for the method's execution and then its
reply, and for `Rename` waiting for the lock again. Since all methods but `Rename` and
`Remove` leave both the handle and the names and paths of zones alone, they are one
action, `Edit`. `ResolveCached`, `ResolveLookup` and `ResolveReturn` are `resolve`, split
where the daemon answers; `Serve` is the execution of a request, `Return` its reply,
`Install` the tail of `Rename`. `Expire` and `ExpireLookup` end a call whose context is
done; a request not yet served then stays among the `orphans` and is served later or
refused.

The daemon is external: a zone has a name and a path, requests are addressed by path,
lookups by name, anything may be refused, and requests are served in any order. A
rename may or may not move the object to a new path (the library drops its path in
either case). A path is issued once, except by `Reexport`, a daemon that numbers its
objects afresh. `designated` is a history variable: the zones that have borne the
handle's name at some time since they exist.

Abstracted: what an edit says and what a zone contains. Two identical orphans count as
one.

### UnlockedHandle

`PermPolicy`, `PermIPSet`, `PermService`, `PermICMPType` and `PermHelper` resolve and cache
a path as `PermZone` does, but without a mutex: `UnlockedLookup` and `UnlockedReturn` are
`ResolveLookup` and `ResolveReturn` without it. `kind` says what the handle is for;
`Unsupported` is the policy's `ErrUnsupported` on a server without policies. `StartName` and
`EndName` are `PermZone.Name`, which reads the name without the mutex and takes its time.

The code does not say what its callers may do. `MayCall` and `MayRename` say it: a call may
overlap others once the path is cached and none of them is a `Rename`; a `Rename`, and a call
that has to resolve, must be alone; `Name` must not overlap a `Rename`. With less there are
data races, which is what `NoRace` rules out. The
module then shows (`ImplementsLocked`) that such callers cannot tell these handles from
`PermHandle`, the mutex being held by whoever is resolving (`Holder`), so that what is checked
and proved there holds of them.

### SignalWatch and EventStream

`stage[w]` is the control point of `WatchSignals` and its goroutine, `todo[w]` the
interfaces its current loop has still to visit (in any order: they do not differ).
`raw`, `out` and `ev` are the two channels and the signal in hand. `AddMatch`,
`AddMatchFails` and `Register` are the calling half; `Receive`, `Send`, `Stop` and
`RawClosed` the two selects; `Unregister`, `RemoveMatch` and `CloseOut` the deferred
teardown, in the order Go runs the defers.

The bus and the bus library (godbus, not part of this repository) are external. The bus
counts equal rules. The library hands a signal to each registered channel, or, if the
channel is full, to a goroutine that waits for room (`deferred`); such goroutines race.
Unregistering and hangup make them give up, hangup then closes the channels. Emission
and dispatch are one step: a signal emitted while a watcher's rules exist and dispatched
after they are gone concerns no registered channel of that watcher, and every other
watcher has rules of its own.

`EventStream` says what the documentation of `WatchSignals` promises: per subscription a
set of signals owed to the consumer, which grows with every arrival while the
subscription is on, from which any one may be yielded next, and which may shrink only
when the context is done or the connection lost. `SignalWatch` implements it with the
owed set as the union of `out`, the signal in hand, `raw` and the deferred sends.

### ReloadWatch

`mode[w]` says whether a watcher was started by `WatchSignals` or by `WatchReloaded`. For the
latter `relay[w]` is where the second goroutine stands, `reloads[w]` how many empty structs are
in its channel of four, `told[w]` (history) how many its consumer has received. `RelayReceive`
is the `range`, and the only thing that reads `out` of such a watcher; `RelaySend` and
`RelayStop` are the select; `RelayEnd` is the end of the range. Everything else is
`SignalWatch`'s, so that a relay which waits for its consumer makes `out`, then `raw`, then the
deferred sends fill behind it.

### SettingsTransport

One caller, one object, one connection: it reads settings (`Read`) or starts from empty
ones (`Compose`), changes fields (`Change`) and replaces or creates the object (`Update`,
`Create`). `kind` says which of the library's settings the behaviour is about: permanent
and runtime zones and policies, permanent services, ipsets, ICMP types, helpers and the
direct configuration, and runtime services, which can only be read. `caps` is `Conn.caps`,
derived once from the version; `readForm`, `updateForm` and `createForm` are the branches
each method takes on it.

The codecs are tables taken from the code: the order in which an encoder's struct lists
its fields, the position at which the decoder looks for each, the key under which each is
sent, the keys the decoder tries. The server's order and keys are tables of their own
(external, from the signatures and key lists the code and its tests quote), so a field that is
moved, renamed or forgotten on one side shows as a setting lost or mixed up. A setting is
zero, its default (only the target has one of its own) or something else.

Two things depend on the server and are left open (`Unmentioned`): whether an update resets the
settings it does not mention or keeps them; the properties say which they need. A
dictionary reply may leave out what is unset. `Fault` allows a version that is missing, cut
off or unreadable in part, whose components the library takes for 0 (`parseVersion`), a server
replaced by a newer one under a connection that goes on using the capabilities of the old,
and other clients that write a field while the caller holds what it has read (`OutsideEdit`;
`theirs`, a history variable, remembers which fields).

Abstracted: the element conversions of `decode.go`, the digits of a version,
the handle's path. Tuples shorter than the signature, which the decoder tolerates, are
not sent by any server of the model.

### RuntimeElements

The methods that edit or ask for one element of the running firewall have one form in
`zone.go`, `ipset.go`, `direct.go`, `lockdown.go` and `firewalld.go`: encode, call, map the
error. `kind` says which collection a behaviour is about, `Operations` which methods it has.
`Add` converts the timeout (`timeoutSeconds`, with the width of int32) and sends it,
`AddUntimed`, `OnElement`, `OnAll`, `SetEntries` and `Wide` are the others. `Return` maps the
reply (`mapError`, `leadingToken`, `exceptionMap`) and `said` keeps what the caller may then
conclude (`SaidIn`, `SaidOut`); `GiveUp` is the end of its context, which leaves the request on
the `wire`, to be executed in its turn.

The daemon is external: `placed` is where each element is (the runtime), `saved` the same in
the permanent configuration, `due` its timer. It executes one connection's requests in their order, may refuse
anything with any exception, or fail as the bus does; other clients edit, it reloads, resets
and restarts. Time is in ticks, of which a second has several, so that a duration can be a
fraction of a second. `asked` and `age` are history: the timeout the caller meant and how
old the element is.

A message is its leading white space, the run of code letters and a code it may quote
further on, which is all `leadingToken` looks at. Abstracted: what an element is; the values
other than elements (`LogDenied`, the default zone).

## Runs

| Run | Instance | Question |
| --- | --- | --- |
| `handle_shared` | 2 goroutines that rename, remove and give up, 2 zones, 2 names, 3 paths, 1 orphan; an outsider adds, removes, renames | Is a request ever addressed to a stranger's zone? May the cache change other than by a Rename? Is the mutex held only while its holder waits for a lookup? |
| `handle_isolated` | handles of all six kinds, one renamer without a deadline, another goroutine with one, an outsider that only adds | Is the handle on its object, by name and path, whenever no Rename is under way? Do callers that take turns race? Is a handle without mutex to them one with a mutex? |
| `handle_live` | all contexts expire; the daemon may never answer and may renumber | Does every call end? |
| `rename_race` | two renamers | violated: `HandleOnTarget` |
| `remove_readd` | one goroutine that may remove, an outsider that adds | violated: `HandleReachesNamedZone` |
| `signal_stream` | one watcher, read by its caller or by a relay, one interface and one foreign one, channels of 1, 2 and (reloads) 1, 4 signals of which the second is no reload, all faults | Order until overflow; each reload passed on once; end of both goroutines on cancellation and hangup; nothing held back for ever |
| `signal_rules` | two watchers, two interfaces and a foreign one, 2 signals, all faults | Does a watcher ever lose a rule or a signal to another? Is the stream implemented, and no signal received twice or from elsewhere? |
| `rules_leak` | one watcher, the bus refuses a rule | violated: `TornDown` |
| `settings_edit` | all ten kinds on servers 0.6, 0.9, 1.3 and 2.0, both readings of an update, unreadable versions, upgrades, other clients that write the description or the direct rules, one change | Does read, change, `Update` leave the rest alone? Does an update set all it was given, but for what it does not send? Does a read return what is stored? Is anything refused that the caller did not ask for? |
| `update_wholesale` | permanent zones, no faults | violated: `UpdateReplaces` |
| `runtime_elements` | all six collections, one element, two zones, two requests on their way, five durations, other clients, restarts | Does what has a timeout end then? Is what the caller is told true? Does an error mean its cause? |
| `short_timeout` | one element with half a second's timeout | violated: `PositiveTimeoutEnds` |

The bounds. Two goroutines suffice for every conflict over one mutex and one path; a
second zone and name are the stranger; three paths let each zone move or be created
again. One orphan is an old request that meets newer ones of both goroutines. `raw` of capacity 1 overflows at
the second signal, four signals give two deferred sends that race while both channels
and the goroutine hold one each. Two watchers and two interfaces let one stop half way
through either loop while the other stands anywhere. Deadlock is checked for the handle,
whose system never stops, and not for the watchers, which end. The four server versions are one
below, one at and two above the capability boundaries, the last with the zone
priorities, which no capability announces. An object starts with at most one setting of
its own and the caller changes one: two fields are what it takes to see one read into,
or reset by, another, and the caller can still set any field that an object lacks. Others
write each of the `Contested` fields once between two reads, `Description`, which all
kinds but the direct configuration have, and the direct rules; which field it is does not matter to the code.
One element stands for all: requests name one, except `SetEntries`, `clear` and the lists, which
treat every element alike (the theorems are about any number). Two requests on
the wire are one given up and its repetition. An int32 is -4 to 3 and a second
two ticks, so that durations lie below zero, below a second, between two seconds, on one, and
beyond the range. An element's age stops at 5 ticks, more than the longest of them that
can be expressed.

### What the violations show

- `rename_race`: `Rename` executes at the daemon outside the mutex and installs the new
  name inside it. Two Renames may do so in opposite orders; the handle then bears a name
  no zone has.
- `remove_readd`: `Remove` leaves the path cached. A zone added again under the name has
  another path, and the handle does not reach it.
- `rules_leak`: `WatchSignals` that fails half way leaves the rules it has added on the
  bus.
- `update_wholesale`: `toDict` sends the zone priorities only when they are not zero, lest an
  older server refuse the update. A server that keeps what an update does not mention then
  keeps the priority that the caller has set to zero, and `Update` reports success: it does not
  replace the settings "wholesale" as its comment says.
- `short_timeout`: a timeout of half a second is divided by a second and sent as 0, which is no
  timeout, though the comment gives that meaning to zero and negative durations only.

### What settings_edit does not claim

`EditKeepsTheRest` says of other clients that an update undoes only what they wrote since
the settings were read: that much is lost by design, there is no version to compare. It
excepts two situations on a server that resets what an update does not mention: capabilities
that no longer match the server, and the permanent service on a server with includes.

`OnlyUnsentLost` is about all servers, both readings of an update and any capabilities, and says
field by field what an update fails to set: priorities set to zero, on a server that keeps what
is omitted (the finding above), and what the tuple has no room for (`NoRoom`), which are the
includes and helpers of the permanent service and, for a library that takes the server for an
old one, a zone's `Forward` and priorities.

### Includes and helpers

The comment on `ServiceSettings` promises `Includes` and `Helpers` "when the dict transport is
available". The runtime's `ServiceSettings` does as it says (`RuntimeIncludesPopulated`).
`PermService.Settings` uses the tuple on every server, so that the permanent handle leaves them
empty (`PermanentIncludesEmpty`), and since `Update` writes the tuple too, whether they
survive an update is up to the server. No run has this as its violation; both halves are
proved, and `ReadIntact` says the same of every kind.

### Fairness

`PermHandle`: the goroutines run and replies are read (weak), waiting for the mutex ends
if it is free again and again (strong: `sync.Mutex` has a starvation mode that hands it to
the oldest waiter), and contexts expire (weak; the run gives every goroutine a deadline).
Nothing is assumed of the daemon. `ReloadWatch`: its goroutine runs, and its range and select
take what stays ready (weak); the consumer of reloads is assumed to drain only where
`DrainsReloads` says so. `SignalWatch`: the goroutine runs, and a select whose
case stays ready takes it in the end (weak); a deferred send gets its turn at a channel
that has room again and again (strong: Go serves waiting senders in order); the bus
answers `AddMatch` and `RemoveMatch` or goes away (weak). The consumer is assumed to
drain the channel only in the properties that say so (`Drains`).

## Proofs

`PermHandleProofs` is about any sets of goroutines, zones, names and paths and any choice
of what they may do. Its assumptions are `HandleAssumption` (the special values differ
from the ordinary ones), for `AddressesStayDesignated` that `"reexport"` is not among what
happens outside, and for `HandleStaysOnTarget` and `HandleReaches` what that item says.

- `TypeCorrect`. Inductive as it stands, because `TypeOK` says of a call that it is
  addressed to a path and that a Rename carries a name.
- `LookupsStayCurrent`. `LookupsAreCurrent` is not inductive by itself: an Install could
  change the name under a lookup. The strengthening `MutexHeld` says that the holder of
  the mutex is exactly the goroutine whose lookup is outstanding; Install needs the mutex
  free, so there is no lookup.
- `MutexReleased` is that `MutexHeld` by itself: the holder of the mutex always has its own
  answer to wait for and never the mutex, which is what the liveness of `EveryCallReturns` rests on.
- `CacheStable`. A step that changes a non-empty path is `ResolveReturn` or `Install`; the
  former is excluded by the same invariant, which says the path was empty.
- `AddressesStayDesignated`. `AddressInv` adds what is known of the daemon (paths are
  unique and issued), that a zone which bears the handle's name is designated, and that
  every path the library holds, in the cache, in a call or in an orphan, is issued and
  leads to a designated zone or nowhere. The heart is `KnownStays`: as long as every path
  is issued once, a known path stays known, whatever is renamed, removed or added. The
  answer of a lookup is known because the name asked for is still the handle's
  (`LookupsAreCurrent`).
- `HandleStaysOnTarget`, for one renamer r without a deadline, no `Remove` and other clients
  that at most add zones (`SoleRenamer`). `HandleOnTarget` is about the states without a Rename
  under way; the invariant must say where the handle is in the others. `Holds(z, r)` does: some
  zone z bears the handle's name or, once the daemon has executed r's Rename, the name r is
  about to install; before that the cached path, an answer on its way into the cache and the target
  of r's Rename all are z's. After it they may be anything, a stranger's even, if somebody
  adds a zone under the old name meanwhile, and it does no harm because `Install` drops the
  path and, by `MutexHeld`, no lookup is outstanding then.
- `HandleReaches`, under the same conditions, is the promise that `remove_readd` refutes in
  general: names are unique, so the zone that `Holds` speaks of is the one that bears the name.

`UnlockedHandleProofs` is about the same sets and any kinds of handles.

- `RaceFree`. `TurnsTaken` says what the callers' rules leave possible on a handle without
  mutex: whoever resolves does so because no path is cached, and two calls overlap only once
  one is and neither is a Rename. `NamesApart` says that nobody renames while somebody is
  inside `Name`.
- `HandlesImplementLocked`. The mapping gives the mutex to the one goroutine that is
  resolving, if the handle has none of its own; `RaceInv` makes it unique. A policy handle
  on a server without policies maps to one that is never called. Each step then maps to
  the step of the same name or, where refused, to a stutter.
- `EveryLookupCurrent`, `EveryCacheStable`, `EveryAddressDesignated` and `EveryHandleOnTarget`
  carry the theorems about `PermHandle` over to every kind of handle: the module instantiates `PermHandleProofs` under the same mapping, so that its theorems hold of
  the mapped state, and each property of that state says the same of the real one
  (`Calls` differs from `call` only in calls that the version gate refuses).

`SignalWatchProofs` and `SignalStreamProofs` are about any finite set of watchers and of
interfaces, any channel capacities and any faults (`WatchAssumption`).

- `TypeCorrect`. Inductive as it stands; its four conjuncts are proved apart, one lemma
  each for the watcher's steps.
- `RulesCover`. `RulesCoverWatchers` says that a running watcher's rules exist, which is not
  inductive: a watcher that ends takes a rule away, and only counting shows that it is not
  the last. `RulesCounted` says that the bus counts, for every interface, at least as many
  rules as there are watchers that have added one and not yet removed it (`Holders`), and
  that only such watchers are registered. It is "at least" because of the leak: rules of a
  `WatchSignals` that failed have no holder any more.
- `TeardownComplete`, for a bus that refuses no `AddMatch` and no `RemoveMatch` (`Compliant`; it may
  still go away at any time). `RulesExact` says that the count then is the number of holders
  exactly, or zero once the connection is gone, and that no `WatchSignals` fails while it is up.
  So the leak of `rules_leak` has no other cause than a refused rule.
- `Implements`. The refinement mapping takes the owed set of a watcher to the union of `out`,
  the signal in hand, `raw` and the deferred sends. A step may only shrink it by what the
  consumer reads, so the invariant `StreamInv` must say that a signal is in one of these
  places at most and once in it (`Once`), that all of them came from the bus (`FromBus`,
  `Numbered`: a new signal is a new number) and that a watcher which is registered or whose
  channels hold anything stands where the mapping says it does (`Standing`). Moves of a
  signal from one place to the next, `Receive`, `Send`, `DeferredSend`, are then stutters of
  `EventStream`; `Consume` is `Yield`, `Dispatch` a joint `Arrive`, and the steps which drop
  signals happen only after the context or the connection has ended.
- `SeenOnce` follows from `Implements` and nothing else of the code: in every stream that keeps the
  promise of `EventStream` what is owed has arrived and has not been yielded (`YieldedOnce`).
- `OrderKept` (`SignalOrderProofs`). Each of `seen`, `out`, the hand and `raw` is in order, and
  each is before the next; while raw has always had room nothing is deferred (`Ordered`). A
  new signal has a greater number than all others. The invariant speaks of these parts, and
  only its last consequence of the concatenation that the property is about.

`ReloadWatchProofs` is about the same instances, with any reloads and capacity.

- `RelayConsumes`: a behaviour of `ReloadSpec` is one of `SignalWatch`'s `Spec`, so everything
  above holds of watchers that a relay reads (`OrderKeptWithRelays`, `RulesCoverWithRelays`,
  `ImplementsWithRelays`, `SeenOnceWithRelays`, `TeardownCompleteWithRelays`).
- `RelayTypeCorrect`, `ReloadsCounted`. The number of structs passed on, plus the one
  in hand, is that of the reloads read; inductive as it stands, with finite sets of
  positions counted one step at a time.

`RuntimeElementsProofs` is about any elements, zones, durations, codes and bounds
(`Parameters`: the constants are numbers where they must be and the special values differ).

- `TypeCorrect`, which includes that a timeout sent fits int32.
- `EndsInTimeHolds`, `NotCutShortHolds`. `Timers` relates `due`, `age` and `asked`: age plus the
  ticks left are the timeout that was sent, as far as ages are counted, which is the one asked
  for without its fraction of a second, because every request on the wire carries the
  conversion of what was asked (`Converted`).
- `PositiveTimeoutHolds`, `FractionsNeverEnd` are the two sides of the finding of `short_timeout`.
  If callers give no positive timeout but of a second at least and in range, all of them end
  their elements; and an element with less than a second never has a timer, because a timer
  implies, by `Timers`, that a second was asked for.
- `AnswersHoldAlways`. The waiting caller's request is the youngest on the wire, so everything
  it gave up on is executed before. What the reply says is true when the request is executed
  (`Answered`); nothing is said any more once another request is on the wire (`Silent`), and a
  timer or another client marks the element `touched`.
- `CausesToldAlways`. The code of a daemon's exception is the run at the head of its message.

`SettingsTransportProofs` is about any kinds and any versions of servers.

- `RefusedForCauseHolds`. The invariant is that the server has every capability the library
  thinks it has (`CapsInv`): what cannot be read counts as 0 and so never makes a version newer,
  and servers are only replaced by newer ones. A dictionary is then sent only to
  servers of 0.9 or later, which have all its fields except the priorities, and those are
  sent only if set.
- What the codecs do. `TupleTable` and `KeyTable` establish of the tables of every codec that the
  position the decoder reads is the one the encoder writes and the server means (`Aligned`), and
  that keys are unique and tried in an order that finds them. From these, `ReadCarries` and
  `UpdateCarries` say, once for all kinds, forms and versions, which fields survive a read
  (`Carried`) and which an update mentions (`Said`); the rest of the proof does not look at a
  table again.
- `TypeCorrect`, `EditKeepsTheRestHolds`, `OnlyUnsentLostHolds`. The two are about the step that
  updates, and need to know how the settings in hand relate to those on the server after any
  history. `DraftFollows` does: a field that the transport carries, and that neither the caller
  nor others have written, is the same on both sides, unless it is a priority that the caller
  once cleared on a server that keeps what is omitted. It is inductive with `StoreFits`, that a
  server has set no field it does not know (upgrades only add fields), and `InHand`, that settings
  which are not all the caller's own were read in a form there is a codec for. `TupleHoldsAll` says
  that a handle with current capabilities that still uses the tuple has nothing else to send,
  the permanent service excepted.
- `ClearedPriorityKept` is the other side of `OnlyUnsentLostHolds`: a priority set to zero is never
  said to the server, so one that keeps what is omitted keeps it, update after update.
- `ReadIntactHolds` and, from it, `RuntimeIncludesPopulated` and `PermanentIncludesEmpty`: what the
  dictionary carries arrives whole, and the tuple, which is all the permanent handle of a service
  reads, carries no includes and helpers.

Only model-checked: liveness (`EveryCallReturns`, `WatchEnds`, `HangupEnds`, `OwedArrives`,
`RelayEnds`, `ReloadsArrive`), which is beyond the prover. Every invariant and action property of
the passing runs is a theorem. Each property that a run violates has a theorem that
says where it does hold: for one renamer (`HandleOnTarget`), without removals
(`HandleReachesNamedZone`), on a bus that refuses nothing (`TornDown`), but for priorities
set to zero and fields without room (`UpdateReplaces`), and for timeouts of a second and more
(`PositiveTimeoutEnds`).

## Plan

Done: the permanent handles with and without a mutex, subscriptions and the reload relay,
settings and versions, runtime elements and errors, and the theorems above. Left:

1. The element conversions of `decode.go` (variant pairs, short element tuples, integer
   widths) against a reference definition.
2. What the element methods of permanent objects do to the object (`AddPort`,
   `RemovePort`, ...), on top of `PermHandle`'s `Edit`.
3. Who owns the bus: `Connect`, `Open` and `Close`, a `Close` of an adopted bus while
   watchers run, and `Connect`, which dials without looking at its context.

## Not modelled

- `properties.go`: single reads and writes of named values. The library keeps nothing,
  relates no two of them, and converts only the variant's type.
- `Conn.LogDenied`, `SetLogDenied`, the default zone, lists of zones and other names: one call
  each, of one value.
- `Direct.Passthrough`, a command that the daemon runs and does not keep.
- `Connect`, `Open`, `Close` and who owns the bus (see the plan); a lost connection is
  modelled, whoever closed it.
- What the element methods of permanent objects change in the object (see the plan); how they
  reach it is.
- The tests; formatting of messages; logging.
