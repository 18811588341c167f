----------------------------- MODULE StoreData -----------------------------
(***************************************************************************)
(* The data of internal/store: devices keyed by MAC address, mappings      *)
(* keyed by host name, the state file, and the pure part of the            *)
(* operations on them (what one scan does to the devices, what a mapping   *)
(* resolves to, what Open makes of a file).                                *)
(*                                                                         *)
(* Addresses, names, vendors and labels are uninterpreted values that have *)
(* already been normalised (names.Normalize, names.NormalizeMAC): the      *)
(* store compares them for equality only.  None is the empty string of a   *)
(* field and the absent entry of a map.                                    *)
(***************************************************************************)
EXTENDS Naturals, Sequences, FiniteSets

CONSTANTS
  MACs,       \* MAC addresses devices can have
  IPs,        \* IPv4 addresses
  Hosts,      \* names a mapping can have
  Names,      \* host names learned from mDNS, NetBIOS or os.Hostname
  Vendors,    \* vendors of the OUI table
  Labels,     \* labels a user can give a device
  MaxTime,    \* bound on the clock (time.Now)
  None,       \* the empty string, the absent map entry
  Unsure      \* history value: the client cannot know what was stored

ASSUME TimeAssumption == MaxTime \in Nat
ASSUME NoneAssumption ==
  None \notin MACs \cup IPs \cup Hosts \cup Names \cup Vendors \cup Labels
ASSUME KeyAssumption == MACs \cap Hosts = {}

Time == 0 .. MaxTime
Opt(S) == S \cup {None}

Device == [ip : Opt(IPs), hostname : Opt(Names), vendor : Opt(Vendors),
           label : Opt(Labels), self : BOOLEAN, lastSeen : Time]

Mapping == [hostname : Hosts, mac : Opt(MACs), ip : Opt(IPs)]

\* Exactly one of MAC and IP is set (store.go:43, enforced by
\* normalizeMappingInput).
ExactlyOneTarget(mac, ip) == (mac = None) # (ip = None)

ASSUME RecordAssumption == None \notin Device \cup Mapping
ASSUME UnsureAssumption ==
  Unsure \notin Mapping \cup Labels \cup {None}

DeviceMaps  == [MACs -> Opt(Device)]
MappingMaps == [Hosts -> Opt(Mapping)]
NoDevices  == [m \in MACs |-> None]
NoMappings == [h \in Hosts |-> None]

-----------------------------------------------------------------------------
\* One scan observation; mac = None stands for a string NormalizeMAC rejects.
SeenDevice == [mac : Opt(MACs), ip : Opt(IPs), self : BOOLEAN]

RowsOf(seen, m) == {i \in DOMAIN seen : seen[i].mac = m}
AddressedRowsOf(seen, m) == {i \in RowsOf(seen, m) : seen[i].ip # None}

NewDevice(t) == [ip |-> None, hostname |-> None, vendor |-> None,
                 label |-> None, self |-> FALSE, lastSeen |-> t]

\* Mutant of Before: a device seen again is made anew.
BeforeAnew(devs, m, t) == NewDevice(t)

\* The device before the rows of one scan are applied to it.
Before(devs, m, t) == IF devs[m] = None THEN NewDevice(t) ELSE devs[m]

\* Mutant of SeenIP: an address that is known is kept.
SeenIPOnce(seen, m, old) ==
  IF old # None \/ AddressedRowsOf(seen, m) = {} THEN old
  ELSE seen[CHOOSE i \in AddressedRowsOf(seen, m) : TRUE].ip

\* The address the rows leave: each row with an address overwrites the one
\* before it, so the last such row wins.
SeenIP(seen, m, old) ==
  LET last == {i \in AddressedRowsOf(seen, m) :
                 \A j \in AddressedRowsOf(seen, m) : j <= i}
  IN IF last = {} THEN old ELSE seen[CHOOSE i \in last : TRUE].ip

\* Mutant of Observe: every known device counts as seen.
ObserveAll(devs, seen, t) ==
  [m \in MACs |->
    IF RowsOf(seen, m) = {} /\ devs[m] = None THEN None
    ELSE [Before(devs, m, t) EXCEPT
            !.ip = SeenIP(seen, m, @),
            !.self = @ \/ \E i \in RowsOf(seen, m) : seen[i].self,
            !.lastSeen = t]]

\* The devices after ApplyScan's loop over seen, at time t.
Observe(devs, seen, t) ==
  [m \in MACs |->
    IF RowsOf(seen, m) = {} THEN devs[m]
    ELSE [Before(devs, m, t) EXCEPT
            !.ip = SeenIP(seen, m, @),
            !.self = @ \/ \E i \in RowsOf(seen, m) : seen[i].self,
            !.lastSeen = t]]

\* What ApplyScan returns: a new device, an address that differs from the
\* one before it, or a device found to be this machine.
Material(devs, seen) ==
  \E m \in MACs :
    /\ RowsOf(seen, m) # {}
    /\ \/ devs[m] = None
       \/ \E i \in AddressedRowsOf(seen, m) : seen[i].ip # devs[m].ip
       \/ ~devs[m].self /\ \E i \in RowsOf(seen, m) : seen[i].self

-----------------------------------------------------------------------------
\* ResolveName on a mapping: the static IP, else the device's last address.
Resolve(devs, m) ==
  IF m.ip # None THEN m.ip
  ELSE IF m.mac \in MACs /\ devs[m.mac] # None THEN devs[m.mac].ip
  ELSE None

-----------------------------------------------------------------------------
\* The state file: a JSON object with a list of devices and one of mappings.
\* The list of mappings carries no key but the hostname in each element.
Files == [status : {"missing", "corrupt", "whole"},
          devices : DeviceMaps, mappings : SUBSET Mapping]

MissingFile == [status |-> "missing", devices |-> NoDevices, mappings |-> {}]
CorruptFile == [MissingFile EXCEPT !.status = "corrupt"]

\* saveLocked's snapshot of the two maps.
Marshal(devs, maps) ==
  [status |-> "whole", devices |-> devs,
   mappings |-> {maps[h] : h \in Hosts} \ {None}]

\* Open keys the mappings of the file by the hostname each one carries.
Unmarshal(file) ==
  [h \in Hosts |->
    IF \E m \in file.mappings : m.hostname = h
    THEN CHOOSE m \in file.mappings : m.hostname = h
    ELSE None]

-----------------------------------------------------------------------------
\* What users enter, by the key they enter it under: the mapping of a host
\* name and the label of a device.
Keys == Hosts \cup MACs
Values == Opt(Mapping \cup Labels)

UserValue(devs, maps, k) ==
  IF k \in Hosts THEN maps[k]
  ELSE IF devs[k] = None THEN None ELSE devs[k].label
=============================================================================
