# local-dns in TLA+

local-dns is a DNS server for a home network: it watches the network for
devices, lets users give them names on a web page, and answers DNS queries for
those names, relaying all others. This directory models the parts of it whose
correctness depends on order: what happens when saves fail, when the process
dies, when scans, web requests and DNS queries cross each other. Paths are
relative to `src/`.

## The system

| component | state it keeps | operations |
|---|---|---|
| store (`internal/store`) | `devices` by MAC, `mappings` by host name, `dirty`, the state file | `Open`, `Save`, `SaveIfDirty`, `ApplyScan`, `SetDiscoveredHostname`, `SetVendor`, `SetLabel`, `DeleteDevice`, `SetMapping`, `UpdateMapping`, `DeleteMapping`, `ResolveName`, `ResolvePTR`, views |
| scanner (`internal/scanner`) | `trigger` channel, `probedAt`/`probedIP`, `lastScan` | `Run`, `Trigger`, `scan` (sweep, ARP table, `probeHostnames`, `fillVendors`, save) |
| dnsserver (`internal/dnsserver`) | two listeners, one goroutine per packet or connection | `handle` (`local`, `forward`), `Shutdown` |
| web API (`internal/web`) | none | one handler per request, on the store and the scanner |
| web UI (`internal/web/static/app.js`) | the last answers, the form, the open dialog, the scan button | refresh loop, form and dialogs, scan button |
| main (`cmd/local-dns`) | the context | start, periodic flush, shutdown |
| dnsmsg, names, config | none | pure functions |

The store is the meeting point: the scanner writes devices, users write labels
and mappings, the DNS server reads. Every store operation holds one mutex from
its first access to its last, disk writes included, so two operations never
interleave; what interleaves is everything that takes more than one of them (a
scan, the answer to a single-label query), a crash or a failed write at any
step of a save, and the client that waits for its answer.

What makes each part correct:

* store: what was acknowledged is never lost; the file is always one whole
  state; the dirty flag never hides a change; a scan never touches what a user
  entered; a file that cannot be read is kept.
* scanner: what a scan finds reaches the file; late answers neither bring a
  deleted device back nor name the wrong one; a requested scan takes place;
  nameless devices are asked their names in turn; the loop ends when told to.
* dnsserver: an answer is that of one moment of the registry; names of the
  domain are never asked upstream; SERVFAIL only after all upstreams; every
  query is answered.
* dnsmsg and the parsers of probe replies: what is written is read back; a cut
  or twisted message is refused, never misread.
* main: the process uses the store as the store allows, ends when told to, and
  a shutdown loses nothing.
* web UI: the page comes to show the server's state; no refresh changes what
  the user is about to send; the scan button is given back.
* all together: a bounded time after a device moved, clients have its new
  address; a device that is there is shown online, one that left is not.

## The modules

| module | models |
|---|---|
| `StoreData` | the records of the store and the pure part of its operations: what the rows of a scan do to the devices (`Observe`, `Material`), what a mapping resolves to (`Resolve`), what is written to a file and read from it (`Marshal`, `Unmarshal`) |
| `Registry` | abstract: a current content, a durable one, and what clients were promised |
| `Store` | every operation of the store that changes state, the steps of `saveLocked`, opening the file, a crash, damage to the file; implements `Registry` |
| `StoreDataProofs` | lemmas about `StoreData`: what a scan does to the devices |
| `StoreProofs` | theorems about `Store`, and the proof that it implements `Registry` |
| `Scanner` | the `Run` loop, the phases of a scan and the bookkeeping of probes, with the requests that fall between two steps |
| `ScannerProofs` | theorems about `Scanner`, for any devices, tables and number of probes |
| `DnsServer` | the goroutines that answer messages, while users and scans change the maps |
| `DnsServerProofs` | theorems about `DnsServer`, for any number of lanes, upstreams and users |
| `Lifecycle` | the goroutines of the process from start to exit, on top of `Store`, which it implements |
| `LifecycleProofs` | theorems about `Lifecycle`, which carry those of `StoreProofs` over to the process |
| `Tracking` | one device over time: network, ARP table, scans, store, the answers clients keep, the online mark |
| `TrackingProofs` | theorems about `Tracking`, for any durations, neighbours and addresses |
| `UiRefresh` | the page: overlapping refreshes, the form, the edit dialog, the scan button |
| `UiRefreshProofs` | theorems about `UiRefresh`, for any number of devices and refreshes |
| `DnsNames` | reading names of DNS messages, with and without compression, and writing them |
| `NameReading` | every message that can be made, byte by byte, and what the readers and the writer of `DnsNames` are to each other on it |
| `DnsMessage` | whole messages, built and parsed, and the parsers of mDNS and NetBIOS replies |
| `Subnet` | the hosts of a subnet |
| `AlgorithmProofs` | theorems about `NameReading` and `Subnet`, for any messages, names, limits and widths |
| `MCStore`, `MCStoreErrors`, `MCScanner`, `MCScannerProbes`, `MCDnsServer`, `MCLifecycle`, `MCTracking`, `MCUiRefresh` | small instances; the second and the fourth add a history variable |
| `MCAlgorithms` | inputs for `NameReading`, `DnsMessage` and `Subnet`, and the definitions `DnsMessage` is compared with |

`Store`, `Scanner`, `Tracking` and (through `Store`) `Lifecycle` are built on
the same `StoreData`; `Scanner` and `Tracking` see the store as maps that
change in one step, as the mutex makes them.

### Store

`devices`, `mappings` and `dirty` are the fields of the same names, `disk` and
`tmp` the state file and the temporary one. `pc` says where the holder of the
mutex is: an operation that saves changes the maps and goes to `"write"`, then
`SaveWrite` (marshal, write and close the temporary file), `SaveRename`,
`SaveReturns`; `SaveFails` leaves from either of the first two. Between any
two steps the process may die (`Crash`), and starts again with `Open` or, when
`Open` reports a corrupt file, with `MoveAside` before it (main.go:78-87).

Three history variables carry the properties: `want`, what the request in
progress writes under which key (host names for mappings, MAC addresses for
labels); `promised`, per key, what the last client that wrote it was told is
stored, or `Unsure` from the moment it asks until it is answered (and after an
error, which says nothing of what is stored); `damaged`, whether the file was
damaged.

Values are uninterpreted and taken after normalisation; the empty string and
the absent entry of a map are both `None`. Notes and time stamps other than
`LastSeen` are left out, as are the read-only views. Requests the store refuses
change nothing and have no action.

### Scanner

`phase` is where `Run` is: waiting in `select`, or in one of the phases of
`scan`. `seen`, `row`, `jobs` and `material` are the local variables,
`trigger` and `tick` the two channels of capacity 1, `stopped` the cancelled
context. The store appears as `Registry` describes it (`devices`, and `saved`
for the file). `probed` keeps the age of a probe instead of its time. Users
delete devices, others save, saves fail, and the process restarts, between any
two steps.

What the ARP table can yield (`ArpTables`), the names probes return and the
vendors (`VendorOf`) are inputs: the sweep, the parsers and the choice of the
network are not modelled. Time passes in units between any two steps, and a tick
that comes while one is pending is dropped. So a probe may be made right at its
tick or up to one interval late, which is as much jitter as the code can have
while scans are shorter than the interval.

Whether every nameless device is asked is a matter of numbers. Scans make at most
`maxProbesPerScan` probes, in the order of the ARP table, and a nameless device
is due again once `reprobeAfter` is over, so the devices early in the table may
use up all probes of every scan. For that they have to be asked more often than
once in `reprobeAfter` on the average, which they never are; so no device is left
out while the others are at most `MaxProbes * ReprobeAfter / Interval`
(`ProbesForAll`: 320 others at the default interval of 30 s, 32 at 5 min; or
while they fit into one scan). The argument counts probes over many scans, hence does not depend
on when in its interval a scan comes, nor on the order of the table.
`NamelessTakeTurns` is checked at that bound, where the third device is the last
that fits. A device is certain to be left out with `MaxProbes * (ReprobeAfter \div
Interval + 1)` before it (336 and 48), which is the finding of `scanner_starve`,
with the third device one too many; in between it depends on the jitter.
Scans that last longer than the interval (16 silent devices take
4.8 s, the least interval is 5 s) count as the interval here.

### DnsServer

A lane is a goroutine that handles messages one after the other: UDP lanes
stand for the goroutine `serveUDP` starts per packet, TCP lanes for
`serveTCPConn`. `at` is where it is: with a message (`"handle"`), between the
two lookups of a single label (`"again"`), at an upstream, with a reply. A
message is kept to what decides its fate: its form, how its name relates to
the domain, its type. Each lookup is one step and sees one state of the maps.
The history variable `verdicts` collects what the server would have said in
each state of the maps since the message arrived, `down` the upstreams that
failed it.

### Lifecycle

`at` is where each goroutine is: main, the scanner, the flusher, a request. A
goroutine's step is one of the store's operations or leaves the store alone;
the one that saves is `"saving"` until `saveLocked` returns. The context is
cancelled by a signal (`Signal`) or by main itself when the web server cannot
listen (`BeginShutdown`); the scanner and the flusher notice when they come
to look, and main waits for neither of them. `HttpDown` is always possible,
since `Shutdown` gives up after five seconds, request or not. `Exit` is the
`Crash` of the store: memory is gone, the file stays.

`ImplementsStore` says that, the goroutines forgotten, what is left is a
behaviour of `Store`. Since every step takes one of `Store`'s actions or none,
little can go wrong with that here; what it adds is that an access without the
mutex, which no such action describes, would not be one.

History: `owes` is true while a change made before the final flush is not in
the file, `failed` says that the final save failed.

### Tracking

Time is counted in units and relative: a device, a cached answer, an outdated
ARP entry carries its age, and `Tick` lets a unit pass. `where` is the address
a device really has; `Goes` lets it arrive, move to a free address or leave.
The entry of the old address may stay in the ARP table for up to `Linger`
(`ghosts`), next to the new one and in either order, and until then an address
may also still be listed for its former holder. `Scan` is `ApplyScan` on any
table that fits (`Tables`), the save that follows it or fails included; a
device may miss a scan. The ticker and the time a scan takes give a scan at
least every `Interval + Jitter`. `Start`, `Stops`, `Saves` and `DeleteDevice`
come at any moment; `Ask` is a client that looks the name up and keeps the
answer for `TTL`, negative ones too (server.go:278-289).

`AnswersFollow` puts a bound on the whole way, `Linger + Interval + Jitter +
TTL`, counted from the last move, deletion, restart or missed scan. The
README of the program says that changes reach clients after `scan_interval`
and `ttl` (lines 208-213); the bound has the duration of a scan and the life of
the outdated ARP entry besides, and with one unit less TLC finds a client that
still has the old address. `PresentIsOnline` relates the window of three
intervals (main.go:71) to the scans a device may miss before it flickers.

### UiRefresh

A refresh is a slot of `refreshes`: the requests it sent, each answered with
the server's state at the time of its answer, and applied together when all
are there (`Renders`) or not at all (`RefreshFails`). Refreshes overlap and end
in any order. `form` and `dialog` are the selected targets of the form for new
mappings and of the edit dialog, which `fillTargetSelect` rebuilds the lists
of (`Selection`); `chosen` and `wanted` remember what the user saw or
selected. Other pages and the scanner change the server at any moment. The
user's own requests are answered at once, or fail with or without effect.

### DnsNames, NameReading, DnsMessage and Subnet

A message is a sequence of bytes, a name the sequence of its labels. The
loops and recursive calls of `decodeName` and `decodeNameUncompressed` are
recursive functions of the variables of those loops (`Places`), one turn of
which is `DecodeTurn` and `PlainTurn`. Where the two tag bits of a byte are is a parameter
(`MaxLabel`, 63 in the code), and so are the limits, so that small messages
reach all of them: in the run a byte has twelve values. `hostsInSubnet` is
parameterised by the width of an address; the network it is given (`net`) is the
one `resolveNetwork` finds for the scan: any prefix, with the bits behind it
masked.

`NameReading` compares them with definitions that do not compute as the code
does. A walk (`Walk`) is the list of places a reader passes, along labels and
pointers, without regard to any limit; `Reading` says of a finished walk whether
it is a name, which, and where the caller goes on. `DecodersAgree` is about the
places passed up to the first pointer, `WrittenIsRead` about what `EncodeName`
has written somewhere in a message.

`DnsMessage` makes every field one byte wide and keeps its place: a header has
six of them, a question two behind its name, a record four before its data;
the counts, the length of the data, the type, the class with its highest bit
and QR decide what is read. `parseNBNSReply` uses the offsets of the same
scaled header. The bytes of a label never include the dot, so that a name and
its text are the same thing.

## The runs

| run | instance | states | shows |
|---|---|---|---|
| `store_users` | 2 host names, 1 device, 1 address, 1 label, scans of 1 row | 253,715 | acknowledged values survive everything; scans touch no user value; renames; the corrupt file; every change is saved in the end; the store implements `Registry` |
| `store_errors` | as `store_users` | | finding: a rename answered with an error stays in memory |
| `scanner_save` | a neighbour and this machine, 2 addresses, a device with two rows | 1,449,236 | saves, deletions, names of moving devices |
| `scanner_live` | 3 nameless devices, 1 probe per scan, `reprobeAfter` of 2 intervals, a table in either order | 63,802 | triggers, the end of the loop, everybody's turn to be probed |
| `scanner_starve` | 3 nameless devices, 1 probe per scan, `reprobeAfter` of 1 interval | | finding: the third device never gets a turn |
| `scanner_probes` | as `scanner_save`, 2 probes | | finding: a named device that moves after a restart is not probed |
| `dns_server` | a UDP and a TCP lane, 2 upstreams, every kind of message, 2 names, a v4 and a v6 address | 164,088 | answers, upstreams, liveness |
| `dns_label` | one UDP lane | | finding: NXDOMAIN for a single label unmapped between two lookups |
| `lifecycle` | 1 device, scans of 1 row, 2 times, 1 request at a time | 419,064 | the shutdown against scans, flushes, requests and failing saves; the process implements `Store` |
| `tracking` | 1 device and a neighbour, 2 addresses; interval 2, everything else that lasts 1 | 869,725 | answers follow a moving device in bounded time; the online mark |
| `ui_refresh` | 1 device and a static address, 2 refreshes at a time, the user has one thing in hand | 76,518 | selections, stale answers, the scan button |
| `algorithms` | messages of up to 7 bytes, labels of up to 2, runs of up to 5, 2 pointers; data of records of up to 2, lists of NetBIOS names of 2; 6-bit addresses | 97,782 | names, messages and probe replies, read and written; subnets |

Why the bounds are enough. The operations of the store look at one key, or at
two for a rename, so two host names and one device make every case of a rename
(in place, to a free name, to a taken one) and of a label against a mapping;
two rows for one device make a flip of its address. A scan's probes meet at
the limit of one probe with two devices, and a table with the same device at
two addresses is the only way rows of one scan can meet. Two upstreams
separate "the next one" from "the last one". In `dns_server` one message is
handled at a time: lanes write only their own entries and the maps change
freely whoever else reads them, so a lane cannot tell whether another is busy.
`MaxReads` is the 3 of `exchangeUDP`; `MaxTCPQueries` is 2 instead of 64.
In `scanner_live` the network may calm down at any moment (`Calm`), whatever
happened before; from then on only time and the scanner act, and each scan is
over before a tick is dropped. Before that there are restarts, scans that fail
or see nobody, and scans users ask for (`LiveNext`); deletions, which only make
room for others, are left to `scanner_save`. With three devices and one probe per
scan two others compete for the probes a third one needs, and `ReprobeAfter` is
the least with which `ProbesForAll` holds of three.
In `tracking` a client keeps one answer at a time, for the age of each is its
own; the two addresses are symmetric (nothing prefers one of them and the
properties are invariants); they are enough for a device to move, come back, and find its
address taken. `Interval` is 2, so that a scan can be late without being
missed, and `MaxTime` is beyond the window, where a device is offline for good.
The bound is not slack: with a unit less the run fails.
In `ui_refresh` two refreshes overtake each other, and one device and the
static address are the two targets between which a selection can go wrong;
the form, the dialog and the scan button do not look at each other, so the user
has one of them in hand at a time (`OneAtATimeSpec`).
In `lifecycle` what is written does not matter, only that memory and the file
differ, so one device and one vendor are enough; its interleavings are those of
four goroutines. In `algorithms` seven bytes hold a loop of pointers, a chain
longer than `MaxDepth`, labels that exceed `MaxTotal` and a name after a name;
short messages double as the data of records (`MaxData`) and as the list of a
NetBIOS reply (`MaxList`), so two whole entries and every cut of the second are
among the inputs;
`MaxPad` limits the messages names are written into. `MaxHosts` is exactly the
size of one of the subnets; every prefix of every address is tried
(at one of the messages, since neither looks at the other).

Deadlock is checked in every run but `algorithms`, whose inputs end.

## Fairness

* `Store` (`FairSpec`): the holder of the mutex runs on (`SaveReturns`, weak);
  writing and renaming succeed if tried again and again (strong: the disk does
  not fail for ever); the flush of main.go, whose ticker fires for as long as
  the process runs, gets the mutex in the end (strong: `sync.Mutex` hands the
  lock to a waiter that starves). Without a disk that recovers, nothing can be
  promised about the file.
* `Scanner` (`Fairness`, in `LiveSpec`): every wait in a scan has a timeout, so its steps go
  on (weak, `ArpFails` left out: a scan may fail, it need not); the loop takes
  a ready case, and `select` chooses at random among several, so a cancelled
  context is not passed over for ever (strong on `Return`). The ticker need
  not fire: a requested scan does not wait for it.
* `QuietSpec` adds `Calm`, after which only time and the scanner act, and a
  ticker that keeps firing. `NamelessTakeTurns` is about the turns devices take
  then: deleting devices or restarting for ever would make it trivial.
* `DnsServer`: every goroutine runs on, since each exchange, read and write
  has a deadline (server.go:145, 154, 334, 357).
* `UiRefresh`: every request of the page ends, if only with an error of
  `fetch`; `setInterval` goes on; a timeout comes (strong on `ScanTimeout`,
  since `Slots` bounds the refreshes and the one it starts may have to wait for
  a slot, which the browser does not ask for). `PageCatchesUp` assumes besides
  that from some time on requests succeed and the server stays as it is;
  `ScanButtonReturns` does not.
* `Lifecycle` (`LifeFairSpec`): main goes on, for none of its waits is
  unbounded; whoever holds the mutex goes on too, if only to fail (weak); main
  gets the mutex in the end (strong: `sync.Mutex` hands it to a waiter that
  starves). The disk may fail for ever, and the scanner, the flusher and
  requests owe nothing.

## The proofs

`StoreProofs` proves, for all sets of devices, names, addresses and labels and
all bounds, that `Spec` of `Store` implies `[]TypeOK`, `[]PromisesKept`,
`[]CleanMeansSaved`, `[]MappingsWellFormed`, `[]CorruptFileKept` and the action
properties `OnlyRequestsChangeValues` and `RenameKeepsOthers`. The assumptions are those named in
`StoreData` and `Store`: `None` is not a value, `Unsure` is not something a
user enters, host names and MAC addresses do not overlap, the bounds are
numbers.

None of the properties is inductive by itself. `IInv` adds

* `SaveInProgress`: what the temporary file holds, and what the state file
  holds once it was renamed, is the marshalled maps (the mutex is held, so
  they have not changed since);
* `WantWritten`: what the request in progress wants is what memory holds, so
  that it may be promised when the save returns, and the keys it writes are
  `Unsure` until then;
* `FileStatus`: a file that is not whole is empty and only a damaged one is
  corrupt.

The lemma `RoundTrip` says that reading back what was marshalled gives the
maps again, which is where `MappingsWellFormed` is needed: the file keys
mappings by the name inside them. `ObserveDevices` and `ObserveNothing`
(in `StoreDataProofs`) say what a scan keeps of a device (its label) and that a
scan without usable rows changes nothing, so the dirty flag may stay down. There is one lemma for each
action, and `NextInv` puts them together.

`OnlyRequestsWriteValues` needs no more than the types and `RoundTrip`: the lemma of each
operation also says which keys it writes (`OnlyWanted`), a scan writes none,
and after a restart the file decides.

`RenamesKeepOthers` counts mappings, and to count them there must be finitely
many, although `Hosts` may be infinite: `Countable` says so of memory and of
the file, for a request names at most one more host and the file holds what
memory held. A rename then gives up one name and takes one that is free, so the
number stays and every other mapping is as it was (`MovedName`); without the
check that the name is free the lemma fails.

`StoreImplementsRegistry` is `Spec => ImplementsRegistry`. Under the mapping readers
see the maps, or the file while the process is down, and the file as it would
be read is what is durable. An operation that writes is a `Change`, the rename
`Persist`, the return of the save `Promise`; a crash loses what is not durable,
damage to the file is a `Disaster`; opening the file, an empty or a corrupt one
too, is invisible, for `RoundTrip` gives back what it held.

`ScannerProofs` proves `TypeOK`, `MaterialIsSaved`, `DeletedStaysDeleted` and
`NamesComeFromCurrentAddress` for any devices, ARP tables, vendors and limits
(the run has two devices and one probe per scan). All steps but `ApplyScan` and a
restart only tend the devices (`AllTend`): they create none and leave address
and time alone. `KnownToDiffer` says that the devices differ from the file only
while `material` is up or after a failed save; the step of `ApplyScan` is where
the code compares field by field, and `ObserveImmaterial` shows that a scan it
calls immaterial changes nothing. `AddressesSeen` ties each probe to a row of
the scan's table and the device to the address of that row.

`LifecycleProofs` proves that every step of the process is a step of `Store`
or leaves the store alone (`StoreStep`), hence `LifeSpec => ImplementsStore`
(`ProcessImplementsStore`); with `StoreImplementsRegistry` it implements `Registry` too
(`ProcessImplementsRegistry`). The theorems of `StoreProofs` then hold of the
process: `ProcessCleanIsSaved`, `ProcessKeepsPromises`. `ShutdownLosesNothing`
needs an invariant of its own. `StopLosesNothing` speaks of the end only;
`OwedIsDirty` carries it there: a change that is not in the file keeps the
dirty flag up until a save that writes it has renamed its file. `DirtyFlag`
says what the steps of the store do to the flag, `WaysToTheEnd` that main gets
to its end by skipping the flush with the flag down, by a save that returns,
or by a failure, which the property excludes. `OneSavesAtATime` counts the
goroutines in a save by `OneSaver`: each step is one goroutine's, on its own,
into `saveLocked` when nobody is there, or out of it (`MovesStep`).

`DnsServerProofs` proves `AnsweredAsOfOneMoment`, `OwnNamesStayHome` and
`ServFailAfterAll` for any number of goroutines, queries at once and upstreams
(the run has two lanes and lets one query in at a time). The invariant `DInv`
is about each lane by itself: as long as it decides, what local would say now
is among the verdicts (`Decided`), since every change of the maps adds it; the
upstreams that failed are those before the present one (`Asked`). What a lane
does next it does upon a look at the maps, so it acts on the last verdict
(`GoesUpstream`, `RepliesLocally`); `LocalCases` relates the look-up of a
single label to the verdict, and the second look-up of that label is where the
exception in `AnsweredAsOfOneMoment` is needed.

`ServerTypes` is about the counters: reads, queries of a connection and the
upstream in turn stay in their ranges. It needs `HasQuery` (a lane at work has
a message), `HasRoom` (an open connection has a query left) and, for PTR, that
among the names of a device there is a first: `SmallestOf`, that a nonempty set
of naturals has a least element, from the well-foundedness of `<`.

`TrackingProofs` proves `TypeOK`, `AnswersFollow`, `PresentIsOnline` and
`GoneIsOffline` for all intervals, delays and lifetimes, any neighbours and any
finite set of addresses (the run has intervals of 2, delays of 1 and two
addresses); one device is watched, and the rows of the others do not touch it.
Every age is measured against `since`, the time since the device was last
disturbed:

* `GhostsAreOlder`: an outdated ARP entry that names the device, or hides its
  new address, is at least as old as `since`, so it is gone once `since`
  exceeds `Linger`. `OneHolder` keeps two stations from one address, which would
  make such an entry at once.
* `Registered`: a registry filled after that has the true address;
  `CacheFollows`: an answer given after the scan that filled it does, too. The
  sum of the two delays is the bound of `AnswersFollow`.
* `SeenLately`: with `missed` scans missed the device was seen at most so many
  periods before the last scan, which the window of three intervals covers.
* `Aged`: the time stamp of a device that has left is never younger than its
  last entry in the ARP table allows, in memory and in the file a restart reads;
  it therefore leaves the window, whatever restarts do.
* `DownIsBlind`: while there is no process the device cannot count as undisturbed.

That there are finitely many addresses (`TrackingAssumption`) is needed since the
ARP table lists its entries in some order: only a finite set has one.

`UiRefreshProofs` proves `TypeOK`, `FormFollowsUser` and `EditKeepsTarget` for
any number of devices and of refreshes under way (the run has one device and
two refreshes). That the scan button is "refreshing" if and only if a refresh
waits to restore it needs `OneWaits`: there is never a second one. What the
form shows depends on `Selects`: a selection that is still offered stays. The
added assumption is that no refresh is `None`.

`AlgorithmProofs` proves what four of the invariants of `algorithms` say, for
messages, names and labels of any length over any bytes, all limits and every
width of addresses. The assumptions are those of the modules: the limits are
positive, letters have lower-case forms that are no capitals, `Error` is not the result of
a reading, and `maxSweepHosts` is at least 2 (with less a /31, of which nothing
is left out, would have more hosts than allowed and be returned all the same; it
is a constant of 4096 in the code).

Recursive functions define something only if they end, and the provers know
nothing of that. The library's theorems take operators as parameters; the module
therefore proves its own about sets and functions. `Induction` is about a set of
numbers, `Iteration` about a function applied again and again, and `Recursion`
says of a map between functions that looks only where a rank is lower that it
has a fixed point. Each recursive definition of `DnsNames`, `NameReading` and `Subnet`, and the
recursion inside `FlattenSeq`, is one of their uses (the lemmas whose names end in
`Unfolds`).

* That `decodeName` ends, however pointers loop, is the rank `Ahead`: each
  pointer adds to the depth, which is limited, and between two pointers a reader
  goes forward (`AheadFalls`).
* `NamesAreReadAsWalks`: a turn of the decoder is put in front of what it reads
  from the next place on, and that place in front of the walk from there. `Bad` and
  `Result` say when a walk is no name and what it is else, from a place at which
  pointers have been followed and bytes passed before; `BadInFront` and
  `ResultInFront` what the place in front changes: one pointer more and a run
  that starts anew, or a longer run and one label more. `Togo` bounds the turns
  a decoder has left, hence how long a walk must be to decide (`WalksAreLongEnough`).
* `DecodersAlwaysAgree`: by induction over the bytes ahead, for every number of
  bytes passed before (`DecodersAgreeFrom`), which the property does not mention.
* `WrittenNamesAreRead`: `LaidOut` says where in a message the labels of a name
  lie, which is what `EncodeName` brings about (`WireInMessage`) and what both
  readers go along (`LaidOutIsRead`), last label first.
* `SweepsTouchTheSubnet`: the addresses with the same prefix follow one another
  from the masked one on (`Block`), without overflow, since the size of the
  subnet divides that of the address space (`ShiftedTwice`); the loop has
  collected those of them it has passed (`CollectedInTurns`). The lemma behind
  it, `HostsOfNetwork`, holds for addresses that are not masked, too.

## What is only model-checked

The liveness properties (`EventuallySaved`, `ShutdownEnds`, `RunReturns`,
`TriggerIsServed`, `NamelessTakeTurns`, `QueriesAreAnswered`, `PageCatchesUp`,
`ScanButtonReturns`): fairness and ENABLED are beyond the prover. Of the
invariants, `RepliesReadBack` and `NodeNameIsFirst`: `DnsMessage` reads the items
of a message with folds over an operator (`Items(Parse(_), ...)`), which none of
the provers can instantiate. Every other property of a passing run is a theorem.
That `Scanner` implements `Registry` is not claimed: to it a request that deletes
a device and the save that follows are one step, which `Registry` takes in two;
`Store` has them apart.

## Findings

The four runs that end in a violation are disagreements between the code and
what its comments or tests say of it; `PROJECT.json` quotes the lines. A fifth
one has no run of its own: the bound of `AnswersFollow` is longer than the
`scan_interval + ttl` that the program's README promises as the maximum (lines
60, 179 and 208), and no shorter bound passes (see Tracking).

## Not modelled

* Text: `names`, `config`, the ARP and route tables, the OUI files, the text of
  names and reverse names. Sequential functions, from characters to values,
  without state; spelling their grammars out would repeat the code. The models
  take their results, and the ranges `config.validate` allows are the
  assumptions on the constants.
* The data of SOA records, TTLs, and the bits of the flags other than QR.
* The datagrams of the sweep and the choice of the network: what a sweep can
  lead to is the set of ARP tables.
* Whether answers to the mDNS question arrive: its socket is connected to the
  multicast address (probe.go:39), and hosts answer from their own. That is a
  matter of the kernel; a probe ends with a name or without one.
* Authentication, JSON, the sorted lists of the read-only views; of the page,
  rendering, texts, confirmations and the assign and label dialogs, which have
  no target to choose.
* The machine losing power (no `fsync` is called before the rename). In `Store`
  a scan may carry any time, but the clock of `Tracking` only goes on.
* Start-up failures, and DNS replies that are under way when the process ends.
* `packaging`: build files and a service unit.

## Plan

1. Done: the modules above and the proofs about all of them but `DnsMessage`.
2. `RepliesReadBack` and `NodeNameIsFirst` for messages of any length, with the
   items of a message as recursive functions; `Recursion` and
   `WrittenNamesAreRead` are what such proofs would begin with.
3. The assign and label dialogs of the page, and late answers to its edits.
