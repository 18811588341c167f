------------------------------- MODULE Store --------------------------------
(***************************************************************************)
(* internal/store: the registry of devices and mappings, and the state     *)
(* file it is kept in.                                                     *)
(*                                                                         *)
(* Every operation holds Store.mu from its first to its last access,       *)
(* saveLocked's disk writes included, so operations do not interleave      *)
(* with each other; they do with a crash of the process, with each failure *)
(* of a disk write, and with the answer the client waits for.  An          *)
(* operation that saves is therefore an action that changes the maps,      *)
(* followed by the steps of saveLocked; the others are one action.         *)
(* Requests the store refuses (unknown device, two targets, name taken)    *)
(* change nothing and have no action.                                      *)
(***************************************************************************)
EXTENDS StoreData

CONSTANT MaxRows   \* bound on the rows of one scan

ASSUME RowsAssumption == MaxRows \in Nat

VARIABLES
  devices,    \* Store.devices
  mappings,   \* Store.mappings
  dirty,      \* Store.dirty
  pc,         \* "down", "idle", or where the holder of Store.mu is in saveLocked
  tmp,        \* the temporary file, "missing" when there is none to rename
  disk,       \* the state file
  want,       \* per key, the value the request in progress writes, or Unsure
  promised,   \* history: per key, the value a client was told is stored
  damaged,    \* history: the state file was damaged
  aside       \* a damaged file is kept under its .corrupt- name

vars == <<devices, mappings, dirty, pc, tmp, disk, want, promised, damaged, aside>>
memory == <<devices, mappings>>
history == <<want, promised>>
files == <<tmp, disk, damaged, aside>>

NoWant == [k \in Keys |-> Unsure]

\* A fresh installation: no state file, no process.
Init ==
  /\ devices = NoDevices /\ mappings = NoMappings
  /\ dirty = FALSE
  /\ pc = "down"
  /\ tmp = MissingFile /\ disk = MissingFile
  /\ want = NoWant
  /\ promised = [k \in Keys |-> None]
  /\ damaged = FALSE /\ aside = FALSE

-----------------------------------------------------------------------------
\* saveLocked, entered with Store.mu held.

\* MarshalIndent, CreateTemp, Write and Close succeed.
SaveWrite ==
  /\ pc = "write"
  /\ pc' = "rename"
  /\ tmp' = Marshal(devices, mappings)
  /\ UNCHANGED <<memory, dirty, disk, history, damaged, aside>>

\* Rename succeeds: the state file is the new one from here on.
SaveRename ==
  /\ pc = "rename"
  /\ pc' = "return"
  /\ disk' = tmp
  /\ tmp' = MissingFile
  /\ UNCHANGED <<memory, dirty, history, damaged, aside>>

\* Mutant of SaveFails: the clean-up removes the state file.
SaveFailsAndRemoves ==
  /\ pc \in {"write", "rename"}
  /\ pc' = "idle"
  /\ tmp' = MissingFile /\ disk' = MissingFile
  /\ want' = NoWant
  /\ UNCHANGED <<memory, dirty, promised, damaged, aside>>

\* Mutant of SaveFails: dirty is lowered before the disk is written.
SaveFailsClean ==
  /\ pc \in {"write", "rename"}
  /\ pc' = "idle"
  /\ dirty' = FALSE
  /\ tmp' = MissingFile
  /\ want' = NoWant
  /\ UNCHANGED <<memory, disk, promised, damaged, aside>>

\* Any of them fails: the temporary file is removed and the client gets an
\* error; the maps stay as they are, and dirty too.
SaveFails ==
  /\ pc \in {"write", "rename"}
  /\ pc' = "idle"
  /\ tmp' = MissingFile
  /\ want' = NoWant
  /\ UNCHANGED <<memory, dirty, disk, promised, damaged, aside>>

\* saveLocked returns nil and the client is answered.
SaveReturns ==
  /\ pc = "return"
  /\ pc' = "idle"
  /\ dirty' = FALSE
  /\ promised' = [k \in Keys |-> IF want[k] = Unsure THEN promised[k] ELSE want[k]]
  /\ want' = NoWant
  /\ UNCHANGED <<memory, files>>

\* A request writes w and enters saveLocked; until it is answered its client
\* cannot know what is stored.
Request(w) ==
  /\ pc' = "write"
  /\ want' = w
  /\ promised' = [k \in Keys |-> IF w[k] = Unsure THEN promised[k] ELSE Unsure]
  /\ UNCHANGED files

-----------------------------------------------------------------------------
\* The scanner's operations: they change the devices and do not save.

\* Mutant of ApplyScan: a scan that only refreshes LastSeen is not dirty.
ApplyScanMaterialOnly(seen) ==
  /\ pc = "idle"
  /\ \E t \in Time : devices' = Observe(devices, seen, t)
  /\ dirty' = (dirty \/ Material(devices, seen))
  /\ UNCHANGED <<mappings, pc, files, history>>

\* The wall clock may show any time.
ApplyScan(seen) ==
  /\ pc = "idle"
  /\ \E t \in Time : devices' = Observe(devices, seen, t)
  /\ dirty' = (dirty \/ \E i \in DOMAIN seen : seen[i].mac # None)
  /\ UNCHANGED <<mappings, pc, files, history>>

SetDiscoveredHostname(m, name) ==
  /\ pc = "idle"
  /\ devices[m] # None /\ devices[m].hostname # name
  /\ devices' = [devices EXCEPT ![m].hostname = name]
  /\ dirty' = TRUE
  /\ UNCHANGED <<mappings, pc, files, history>>

SetVendor(m, vendor) ==
  /\ pc = "idle"
  /\ devices[m] # None /\ devices[m].vendor # vendor
  /\ devices' = [devices EXCEPT ![m].vendor = vendor]
  /\ dirty' = TRUE
  /\ UNCHANGED <<mappings, pc, files, history>>

-----------------------------------------------------------------------------
\* The web API's operations: they change the maps and save.

\* Mutant of SetLabel: dirty is not set, the save at once is relied on.
SetLabelClean(m, label) ==
  /\ pc = "idle"
  /\ devices[m] # None
  /\ devices' = [devices EXCEPT ![m].label = label]
  /\ Request([NoWant EXCEPT ![m] = label])
  /\ UNCHANGED <<mappings, dirty>>

SetLabel(m, label) ==
  /\ pc = "idle"
  /\ devices[m] # None
  /\ devices' = [devices EXCEPT ![m].label = label]
  /\ dirty' = TRUE
  /\ Request([NoWant EXCEPT ![m] = label])
  /\ UNCHANGED mappings

DeleteDevice(m) ==
  /\ pc = "idle"
  /\ devices[m] # None
  /\ devices' = [devices EXCEPT ![m] = None]
  /\ dirty' = TRUE
  /\ Request([NoWant EXCEPT ![m] = None])
  /\ UNCHANGED mappings

\* Mutant of NewMapping: the targets are swapped.
NewMappingSwapped(h, mac, ip) == [hostname |-> h, mac |-> ip, ip |-> mac]

NewMapping(h, mac, ip) == [hostname |-> h, mac |-> mac, ip |-> ip]

SetMapping(h, mac, ip) ==
  /\ pc = "idle"
  /\ ExactlyOneTarget(mac, ip)
  /\ mappings' = [mappings EXCEPT ![h] = NewMapping(h, mac, ip)]
  /\ dirty' = TRUE
  /\ Request([NoWant EXCEPT ![h] = NewMapping(h, mac, ip)])
  /\ UNCHANGED devices

\* Mutants of UpdateMapping: the hostname field stays, the old key stays, a
\* taken name is taken over.
UpdateMappingWith(old, h, mac, ip, hostname, left, free) ==
  /\ pc = "idle"
  /\ ExactlyOneTarget(mac, ip)
  /\ mappings[old] # None
  /\ free
  /\ LET m == [mappings[old] EXCEPT !.hostname = hostname, !.mac = mac, !.ip = ip]
     IN mappings' = [mappings EXCEPT ![old] = IF left THEN m ELSE None, ![h] = m]
  /\ dirty' = TRUE
  /\ Request([NoWant EXCEPT ![old] = None, ![h] = NewMapping(h, mac, ip)])
  /\ UNCHANGED devices

UpdateMappingOldField(old, h, mac, ip) ==
  UpdateMappingWith(old, h, mac, ip, old, FALSE, h # old => mappings[h] = None)
UpdateMappingOldKey(old, h, mac, ip) ==
  UpdateMappingWith(old, h, mac, ip, h, TRUE, h # old => mappings[h] = None)
UpdateMappingTakesOver(old, h, mac, ip) ==
  UpdateMappingWith(old, h, mac, ip, h, FALSE, TRUE)

\* The mapping moves from the key old to the key h with its hostname field;
\* h = old is an edit in place.
UpdateMapping(old, h, mac, ip) ==
  /\ pc = "idle"
  /\ ExactlyOneTarget(mac, ip)
  /\ mappings[old] # None
  /\ h # old => mappings[h] = None
  /\ LET m == [mappings[old] EXCEPT !.hostname = h, !.mac = mac, !.ip = ip]
     IN mappings' = [mappings EXCEPT ![old] = None, ![h] = m]
  /\ dirty' = TRUE
  /\ Request([NoWant EXCEPT ![old] = None, ![h] = NewMapping(h, mac, ip)])
  /\ UNCHANGED devices

DeleteMapping(h) ==
  /\ pc = "idle"
  /\ mappings[h] # None
  /\ mappings' = [mappings EXCEPT ![h] = None]
  /\ dirty' = TRUE
  /\ Request([NoWant EXCEPT ![h] = None])
  /\ UNCHANGED devices

-----------------------------------------------------------------------------
\* Saves that write nothing new: the scanner's, and the flush of main.go.

Save ==
  /\ pc = "idle"
  /\ Request(NoWant)
  /\ UNCHANGED <<memory, dirty>>

SaveIfDirty ==
  /\ pc = "idle"
  /\ dirty
  /\ Request(NoWant)
  /\ UNCHANGED <<memory, dirty>>

-----------------------------------------------------------------------------
\* The process.

\* Open reads a file that is missing or whole.
Open ==
  /\ pc = "down"
  /\ disk.status # "corrupt"
  /\ pc' = "idle"
  /\ devices' = disk.devices
  /\ mappings' = Unmarshal(disk)
  /\ dirty' = FALSE
  /\ UNCHANGED <<files, history>>

\* Mutant of MoveAside: the file is removed, not renamed.
RemoveCorrupt ==
  /\ pc = "down"
  /\ disk.status = "corrupt"
  /\ disk' = MissingFile
  /\ UNCHANGED <<memory, dirty, pc, tmp, history, damaged, aside>>

\* Open reports ErrCorrupt: run renames the file and opens again.  (When
\* the rename fails the process exits with everything as it was.)
MoveAside ==
  /\ pc = "down"
  /\ disk.status = "corrupt"
  /\ disk' = MissingFile
  /\ aside' = TRUE
  /\ UNCHANGED <<memory, dirty, pc, tmp, history, damaged>>

\* The process dies, at any point.  A temporary file it leaves is never read.
Crash ==
  /\ pc # "down"
  /\ pc' = "down"
  /\ devices' = NoDevices /\ mappings' = NoMappings
  /\ dirty' = FALSE
  /\ tmp' = MissingFile
  /\ want' = NoWant
  /\ UNCHANGED <<disk, promised, damaged, aside>>

\* Outside the program: the state file becomes unreadable, once.
Damage ==
  /\ pc = "down"
  /\ disk.status = "whole"
  /\ ~damaged
  /\ damaged' = TRUE
  /\ disk' = CorruptFile
  /\ promised' = [k \in Keys |-> Unsure]
  /\ UNCHANGED <<memory, dirty, pc, tmp, want, aside>>

-----------------------------------------------------------------------------
ScanResults == UNION {[1 .. n -> SeenDevice] : n \in 0 .. MaxRows}

ScannerOps ==
  \/ \E seen \in ScanResults : ApplyScan(seen)
  \/ \E m \in MACs, name \in Names : SetDiscoveredHostname(m, name)
  \/ \E m \in MACs, vendor \in Vendors : SetVendor(m, vendor)

WebOps ==
  \/ \E m \in MACs, label \in Opt(Labels) : SetLabel(m, label)
  \/ \E m \in MACs : DeleteDevice(m)
  \/ \E h \in Hosts, mac \in Opt(MACs), ip \in Opt(IPs) :
       \/ SetMapping(h, mac, ip)
       \/ \E old \in Hosts : UpdateMapping(old, h, mac, ip)
  \/ \E h \in Hosts : DeleteMapping(h)

SaveSteps == SaveWrite \/ SaveRename \/ SaveFails \/ SaveReturns

Next ==
  \/ ScannerOps \/ WebOps \/ Save \/ SaveIfDirty \/ SaveSteps
  \/ Open \/ MoveAside \/ Crash \/ Damage

Spec == Init /\ [][Next]_vars

\* The holder of the mutex runs on; the flush ticker fires again and again
\* and sync.Mutex does not starve it; the disk does not fail forever.
Fairness ==
  /\ WF_vars(SaveReturns)
  /\ SF_vars(SaveWrite) /\ SF_vars(SaveRename)
  /\ SF_vars(SaveIfDirty)

FairSpec == Spec /\ Fairness
-----------------------------------------------------------------------------
(* Properties *)

TypeOK ==
  /\ devices \in DeviceMaps /\ mappings \in MappingMaps
  /\ dirty \in BOOLEAN
  /\ pc \in {"down", "idle", "write", "rename", "return"}
  /\ tmp \in Files /\ disk \in Files
  /\ want \in [Keys -> Values \cup {Unsure}]
  /\ promised \in [Keys -> Values \cup {Unsure}]
  /\ damaged \in BOOLEAN /\ aside \in BOOLEAN

\* What a client was told is stored (the answer 200 of a PUT, PATCH, POST or
\* DELETE) is in the file and is what readers see, whatever saves failed and
\* wherever the process died since.
PromisesKept ==
  \A k \in Keys : promised[k] # Unsure =>
    /\ UserValue(disk.devices, Unmarshal(disk), k) = promised[k]
    /\ pc # "down" => UserValue(devices, mappings, k) = promised[k]

\* The dirty flag never hides a change: when it is down, the periodic flush
\* and the one at exit may skip the save, because the file holds the maps.
CleanMeansSaved ==
  pc # "down" /\ ~dirty => devices = disk.devices /\ mappings = Unmarshal(disk)

\* A mapping carries the host name it is keyed by (a reload keys it by that
\* name) and exactly one target, in memory and in the file; the file names no
\* host twice.
WellFormedMaps(maps) ==
  \A h \in Hosts : maps[h] # None =>
    maps[h].hostname = h /\ ExactlyOneTarget(maps[h].mac, maps[h].ip)

WellFormedFile(f) ==
  /\ \A m \in f.mappings : ExactlyOneTarget(m.mac, m.ip)
  /\ \A m, n \in f.mappings : m.hostname = n.hostname => m = n

MappingsWellFormed == WellFormedMaps(mappings) /\ WellFormedFile(disk)

\* A file that could not be read is still there, in place or under its
\* .corrupt- name, after any number of restarts, requests and saves.
CorruptFileKept == damaged => aside \/ disk.status = "corrupt"

\* While the process runs, a user's value (a label, a mapping) changes only by
\* a request for that very key: no scan, save or request for another key
\* touches it.
OnlyRequestsChangeValues ==
  [][pc # "down" /\ pc' # "down" =>
       \A k \in Keys :
         UserValue(devices, mappings, k)' # UserValue(devices, mappings, k)
           => want'[k] # Unsure]_vars

\* A request that writes two host names (a rename) leaves as many mappings as
\* there were: it never lands on a name that is taken.
Named(maps) == {h \in Hosts : maps[h] # None}
Renaming(w) == Cardinality({h \in Hosts : w[h] # Unsure}) = 2

RenameKeepsOthers ==
  [][pc = "idle" /\ pc' = "write" /\ Renaming(want')
       => Cardinality(Named(mappings')) = Cardinality(Named(mappings))]_vars

\* Every change reaches the file, if only by the flush, unless the process
\* dies first.
Saved == devices = disk.devices /\ mappings = Unmarshal(disk)
EventuallySaved == (pc # "down" /\ ~Saved) ~> (pc = "down" \/ Saved)

\* The store implements the registry: readers see the maps while the process
\* runs; a restart brings back the file.
FileContent(f) == [devices |-> f.devices, mappings |-> Unmarshal(f)]

Abstract == INSTANCE Registry WITH
  current <- IF pc = "down" THEN FileContent(disk)
             ELSE [devices |-> devices, mappings |-> mappings],
  durable <- FileContent(disk)

ImplementsRegistry == Abstract!RegSpec
=============================================================================
