---------------------------- MODULE StoreProofs ----------------------------
(***************************************************************************)
(* Proofs about Store for every value of the constants.  The invariants    *)
(* the runs check are not inductive by themselves: what is missing is what *)
(* saveLocked's steps rely on (the temporary file is the maps as they are, *)
(* because the mutex is held) and what a request in progress has written.  *)
(***************************************************************************)
EXTENDS Store, StoreDataProofs, FiniteSetTheorems, FunctionTheorems

\* The file about to be renamed, and the one just renamed, are the maps.
SaveInProgress ==
  /\ pc = "rename" => tmp = Marshal(devices, mappings)
  /\ pc = "return" => disk = Marshal(devices, mappings)

\* A key the request in progress writes has the value it wants and is not
\* promised to anyone; between requests nothing is wanted.
WantWritten ==
  /\ pc \in {"down", "idle"} => want = NoWant
  /\ \A k \in Keys : want[k] # Unsure =>
       promised[k] = Unsure /\ UserValue(devices, mappings, k) = want[k]

\* The process never runs on a file it could not read; such a file, and a
\* missing one, hold nothing.
FileStatus ==
  /\ pc # "down" => disk.status # "corrupt"
  /\ disk.status # "whole" => disk.mappings = {} /\ disk.devices = NoDevices

IInv ==
  /\ TypeOK
  /\ MappingsWellFormed
  /\ SaveInProgress
  /\ WantWritten
  /\ FileStatus
  /\ CorruptFileKept
  /\ CleanMeansSaved
  /\ PromisesKept
\* The step changes no user's value but those its request wants to.
OnlyWanted ==
  \A k \in Keys :
    UserValue(devices, mappings, k)' # UserValue(devices, mappings, k) => want'[k] # Unsure
-----------------------------------------------------------------------------
(* The file and the maps. *)

\* saveLocked writes a whole file that holds the devices, in which no host
\* name occurs twice.
LEMMA MarshalFile ==
  ASSUME NEW devs \in DeviceMaps, NEW maps \in MappingMaps, WellFormedMaps(maps)
  PROVE  /\ Marshal(devs, maps) \in Files
         /\ Marshal(devs, maps).status = "whole"
         /\ Marshal(devs, maps).devices = devs
         /\ WellFormedFile(Marshal(devs, maps))
<1>1. {maps[h] : h \in Hosts} \ {None} \in SUBSET Mapping
  BY DEF MappingMaps, Opt
<1>2. Marshal(devs, maps) \in Files
  BY <1>1 DEF Marshal, Files
<1>3. /\ Marshal(devs, maps).status = "whole"
      /\ Marshal(devs, maps).devices = devs
  BY DEF Marshal
<1>4. WellFormedFile(Marshal(devs, maps))
  BY DEF WellFormedFile, Marshal, WellFormedMaps
<1>5. QED
  BY <1>2, <1>3, <1>4

\* Open reads back what saveLocked wrote: the host name in each mapping is
\* the key it had.
LEMMA RoundTrip ==
  ASSUME NEW devs, NEW maps \in MappingMaps, WellFormedMaps(maps)
  PROVE  Unmarshal(Marshal(devs, maps)) = maps
<1> DEFINE listed == Marshal(devs, maps).mappings
<1>1. listed = {maps[h] : h \in Hosts} \ {None}
  BY DEF Marshal
<1>2. ASSUME NEW h \in Hosts, maps[h] # None
      PROVE  Unmarshal(Marshal(devs, maps))[h] = maps[h]
  <2>1. maps[h] \in listed /\ maps[h].hostname = h
    BY <1>1, <1>2 DEF WellFormedMaps
  <2>2. \A m \in listed : m.hostname = h => m = maps[h]
    BY <1>1 DEF WellFormedMaps
  <2>3. QED
    BY <2>1, <2>2 DEF Unmarshal
<1>3. ASSUME NEW h \in Hosts, maps[h] = None
      PROVE  Unmarshal(Marshal(devs, maps))[h] = maps[h]
  <2>1. ~\E m \in listed : m.hostname = h
    BY <1>1, <1>3 DEF WellFormedMaps
  <2>2. QED
    BY <2>1, <1>3 DEF Unmarshal
<1>4. Unmarshal(Marshal(devs, maps)) = [h \in Hosts |-> Unmarshal(Marshal(devs, maps))[h]]
  BY DEF Unmarshal
<1>5. maps = [h \in Hosts |-> maps[h]]
  BY DEF MappingMaps
<1>6. QED
  BY <1>2, <1>3, <1>4, <1>5

\* What Open makes of a well-formed file are well-formed maps.
LEMMA UnmarshalMaps ==
  ASSUME NEW f \in Files, WellFormedFile(f)
  PROVE  Unmarshal(f) \in MappingMaps /\ WellFormedMaps(Unmarshal(f))
<1>1. ASSUME NEW h \in Hosts, \E m \in f.mappings : m.hostname = h
      PROVE  /\ Unmarshal(f)[h] \in f.mappings
             /\ Unmarshal(f)[h].hostname = h
  BY <1>1 DEF Unmarshal
<1>2. ASSUME NEW h \in Hosts, ~\E m \in f.mappings : m.hostname = h
      PROVE  Unmarshal(f)[h] = None
  BY <1>2 DEF Unmarshal
<1>3. f.mappings \subseteq Mapping
  BY DEF Files
<1>4. \A h \in Hosts : Unmarshal(f)[h] \in Opt(Mapping)
  BY <1>1, <1>2, <1>3 DEF Opt
<1>5. Unmarshal(f) \in MappingMaps
  BY <1>4 DEF Unmarshal, MappingMaps
<1>6. WellFormedMaps(Unmarshal(f))
  BY <1>1, <1>2 DEF WellFormedMaps, WellFormedFile
<1>7. QED
  BY <1>5, <1>6

\* A missing file, and one that could not be read, hold nothing.
LEMMA EmptyFiles ==
  /\ MissingFile \in Files /\ CorruptFile \in Files
  /\ WellFormedFile(MissingFile) /\ WellFormedFile(CorruptFile)
  /\ Unmarshal(MissingFile) = NoMappings /\ Unmarshal(CorruptFile) = NoMappings
  /\ MissingFile.devices = NoDevices /\ CorruptFile.devices = NoDevices
  /\ MissingFile.mappings = {} /\ CorruptFile.mappings = {}
  /\ MissingFile.status = "missing" /\ CorruptFile.status = "corrupt"
<1>1. NoDevices \in DeviceMaps
  BY DEF NoDevices, DeviceMaps, Opt
<1>2. /\ MissingFile \in Files
      /\ CorruptFile \in Files
  BY <1>1 DEF MissingFile, CorruptFile, Files
<1>3. QED
  BY <1>2 DEF MissingFile, CorruptFile, WellFormedFile, Unmarshal, NoMappings

-----------------------------------------------------------------------------
(* The steps that change the maps. *)

\* An operation of the scanner: it keeps the users' values and marks the
\* store dirty when it changes a device.
LEMMA ScannerStep ==
  ASSUME IInv, pc = "idle",
         devices' \in DeviceMaps, dirty' \in BOOLEAN,
         UNCHANGED <<mappings, pc, files, history>>,
         ~dirty' => ~dirty /\ devices' = devices,
         \A k \in Keys : UserValue(devices', mappings', k) = UserValue(devices, mappings, k)
  PROVE  IInv' /\ OnlyWanted
<1>1. TypeOK'
  BY DEF IInv, TypeOK, files, history
<1>2. MappingsWellFormed'
  BY DEF IInv, MappingsWellFormed, files
<1>3. SaveInProgress'
  BY DEF SaveInProgress
<1>4. WantWritten'
  BY DEF IInv, WantWritten, history
<1>5. FileStatus' /\ CorruptFileKept'
  BY DEF IInv, FileStatus, CorruptFileKept, files
<1>6. CleanMeansSaved'
  BY DEF IInv, CleanMeansSaved, files
<1>7. PromisesKept'
  BY DEF IInv, PromisesKept, files, history
<1>8. OnlyWanted
  BY DEF OnlyWanted
<1>9. QED
  BY <1>1, <1>2, <1>3, <1>4, <1>5, <1>6, <1>7, <1>8 DEF IInv

\* A request: it writes the values it wants, keeps the others, and marks the
\* store dirty when it changes the maps.
LEMMA RequestStep ==
  ASSUME IInv, pc = "idle",
         NEW w \in [Keys -> Values \cup {Unsure}], Request(w),
         devices' \in DeviceMaps, mappings' \in MappingMaps, dirty' \in BOOLEAN,
         WellFormedMaps(mappings'),
         ~dirty' => ~dirty /\ UNCHANGED memory,
         \A k \in Keys :
           UserValue(devices', mappings', k) =
             IF w[k] = Unsure THEN UserValue(devices, mappings, k) ELSE w[k]
  PROVE  IInv' /\ OnlyWanted
<1> USE DEF Request
<1>1. TypeOK'
  <2>1. promised' \in [Keys -> Values \cup {Unsure}]
    BY DEF IInv, TypeOK
  <2>2. QED
    BY <2>1 DEF IInv, TypeOK, files
<1>2. MappingsWellFormed'
  BY DEF IInv, MappingsWellFormed, files
<1>3. SaveInProgress'
  BY DEF SaveInProgress
<1>4. WantWritten'
  BY DEF WantWritten
<1>5. FileStatus' /\ CorruptFileKept'
  BY DEF IInv, FileStatus, CorruptFileKept, files
<1>6. CleanMeansSaved'
  BY DEF IInv, CleanMeansSaved, files, memory
<1>7. PromisesKept'
  BY DEF IInv, PromisesKept, files
<1>8. OnlyWanted
  BY DEF OnlyWanted
<1>9. QED
  BY <1>1, <1>2, <1>3, <1>4, <1>5, <1>6, <1>7, <1>8 DEF IInv

LEMMA ApplyScanStep ==
  ASSUME IInv, NEW seen \in ScanResults, ApplyScan(seen)
  PROVE  IInv' /\ OnlyWanted
<1> USE DEF ApplyScan
<1>1. \A i \in DOMAIN seen : seen[i] \in SeenDevice
  BY DEF ScanResults
<1>2. devices \in DeviceMaps /\ dirty \in BOOLEAN
  BY DEF IInv, TypeOK
<1>3. /\ devices' \in DeviceMaps
      /\ \A k \in Keys :
           UserValue(devices', mappings', k) = UserValue(devices, mappings, k)
  <2>1. PICK t \in Time : devices' = Observe(devices, seen, t)
    OBVIOUS
  <2>2. QED
    BY <1>1, <1>2, <2>1, ObserveDevices
<1>4. ~dirty' => ~dirty /\ devices' = devices
  BY <1>2, ObserveNothing
<1>5. dirty' \in BOOLEAN
  OBVIOUS
<1>6. QED
  BY <1>3, <1>4, <1>5, ScannerStep

LEMMA SetDiscoveredHostnameStep ==
  ASSUME IInv, NEW m \in MACs, NEW name \in Names, SetDiscoveredHostname(m, name)
  PROVE  IInv' /\ OnlyWanted
<1> USE DEF SetDiscoveredHostname
<1>1. devices \in DeviceMaps /\ devices[m] \in Device
  BY DEF IInv, TypeOK, DeviceMaps, Opt
<1>2. [devices[m] EXCEPT !.hostname = name] \in Device
  BY <1>1 DEF Device, Opt
<1>3. devices' \in DeviceMaps
  BY <1>1, <1>2 DEF DeviceMaps, Opt
<1>4. \A k \in Keys :
        UserValue(devices', mappings', k) = UserValue(devices, mappings, k)
  BY <1>1, <1>2, RecordAssumption DEF UserValue, DeviceMaps, Device, Keys
<1>5. QED
  BY <1>3, <1>4, ScannerStep

LEMMA SetVendorStep ==
  ASSUME IInv, NEW m \in MACs, NEW vendor \in Vendors, SetVendor(m, vendor)
  PROVE  IInv' /\ OnlyWanted
<1> USE DEF SetVendor
<1>1. devices \in DeviceMaps /\ devices[m] \in Device
  BY DEF IInv, TypeOK, DeviceMaps, Opt
<1>2. [devices[m] EXCEPT !.vendor = vendor] \in Device
  BY <1>1 DEF Device, Opt
<1>3. devices' \in DeviceMaps
  BY <1>1, <1>2 DEF DeviceMaps, Opt
<1>4. \A k \in Keys :
        UserValue(devices', mappings', k) = UserValue(devices, mappings, k)
  BY <1>1, <1>2, RecordAssumption DEF UserValue, DeviceMaps, Device, Keys
<1>5. QED
  BY <1>3, <1>4, ScannerStep

\* Writing one key, or none.
LEMMA WantType ==
  /\ NoWant \in [Keys -> Values \cup {Unsure}]
  /\ \A k \in Keys, v \in Values :
       /\ [NoWant EXCEPT ![k] = v] \in [Keys -> Values \cup {Unsure}]
       /\ \A j \in Keys : [NoWant EXCEPT ![k] = v][j] = IF j = k THEN v ELSE Unsure
BY DEF NoWant

LEMMA ValuesAreSure == Unsure \notin Values
BY UnsureAssumption DEF Values, Opt

LEMMA SetLabelStep ==
  ASSUME IInv, NEW m \in MACs, NEW label \in Opt(Labels), SetLabel(m, label)
  PROVE  IInv' /\ OnlyWanted
<1> DEFINE w == [NoWant EXCEPT ![m] = label]
<1> USE DEF SetLabel
<1>1. devices \in DeviceMaps /\ devices[m] \in Device
  BY DEF IInv, TypeOK, DeviceMaps, Opt
<1>2. [devices[m] EXCEPT !.label = label] \in Device
  BY <1>1 DEF Device, Opt
<1>3. devices' \in DeviceMaps
  BY <1>1, <1>2 DEF DeviceMaps, Opt
<1>4. m \in Keys /\ m \notin Hosts /\ label \in Values
  BY KeyAssumption DEF Keys, Values, Opt
<1>5. /\ w \in [Keys -> Values \cup {Unsure}]
      /\ \A k \in Keys : w[k] = IF k = m THEN label ELSE Unsure
  BY <1>4, WantType
<1>6. devices'[m] # None /\ devices'[m].label = label
  BY <1>1, <1>2, RecordAssumption DEF DeviceMaps, Device
<1>7. \A k \in Keys \ {m} :
        UserValue(devices', mappings', k) = UserValue(devices, mappings, k)
  BY <1>1 DEF UserValue, DeviceMaps, Keys
<1>8. \A k \in Keys :
        UserValue(devices', mappings', k) =
          IF w[k] = Unsure THEN UserValue(devices, mappings, k) ELSE w[k]
  BY <1>4, <1>5, <1>6, <1>7, ValuesAreSure DEF UserValue
<1>9. mappings' \in MappingMaps /\ WellFormedMaps(mappings') /\ Request(w) /\ pc = "idle"
  BY DEF IInv, TypeOK, MappingsWellFormed
<1>10. QED
  BY <1>3, <1>5, <1>8, <1>9, RequestStep

LEMMA DeleteDeviceStep ==
  ASSUME IInv, NEW m \in MACs, DeleteDevice(m)
  PROVE  IInv' /\ OnlyWanted
<1> DEFINE w == [NoWant EXCEPT ![m] = None]
<1> USE DEF DeleteDevice
<1>1. devices \in DeviceMaps
  BY DEF IInv, TypeOK
<1>2. devices' \in DeviceMaps
  BY <1>1 DEF DeviceMaps, Opt
<1>3. m \in Keys /\ m \notin Hosts /\ None \in Values
  BY KeyAssumption DEF Keys, Values, Opt
<1>4. /\ w \in [Keys -> Values \cup {Unsure}]
      /\ \A k \in Keys : w[k] = IF k = m THEN None ELSE Unsure
  BY <1>3, WantType
<1>5. \A k \in Keys \ {m} :
        UserValue(devices', mappings', k) = UserValue(devices, mappings, k)
  BY <1>1 DEF UserValue, DeviceMaps, Keys
<1>6. UserValue(devices', mappings', m) = None
  BY <1>1, <1>3 DEF UserValue, DeviceMaps
<1>7. \A k \in Keys :
        UserValue(devices', mappings', k) =
          IF w[k] = Unsure THEN UserValue(devices, mappings, k) ELSE w[k]
  BY <1>3, <1>4, <1>5, <1>6, ValuesAreSure
<1>8. mappings' \in MappingMaps /\ WellFormedMaps(mappings') /\ Request(w) /\ pc = "idle"
  BY DEF IInv, TypeOK, MappingsWellFormed
<1>9. QED
  BY <1>2, <1>4, <1>7, <1>8, RequestStep

LEMMA SetMappingStep ==
  ASSUME IInv, NEW h \in Hosts, NEW mac \in Opt(MACs), NEW ip \in Opt(IPs),
         SetMapping(h, mac, ip)
  PROVE  IInv' /\ OnlyWanted
<1> DEFINE new == NewMapping(h, mac, ip)
           w == [NoWant EXCEPT ![h] = new]
<1> USE DEF SetMapping
<1>1. mappings \in MappingMaps /\ devices' \in DeviceMaps
  BY DEF IInv, TypeOK
<1>2. /\ new \in Mapping /\ new # None /\ new.hostname = h
      /\ ExactlyOneTarget(new.mac, new.ip)
  BY RecordAssumption DEF NewMapping, Mapping
<1> HIDE DEF new
<1>3. mappings' \in MappingMaps
  BY <1>1, <1>2 DEF MappingMaps, Opt, new
<1>4. mappings'[h] = new /\ \A g \in Hosts \ {h} : mappings'[g] = mappings[g]
  BY <1>1 DEF MappingMaps, new
<1>5. WellFormedMaps(mappings')
  BY <1>2, <1>4 DEF IInv, MappingsWellFormed, WellFormedMaps
<1>6. h \in Keys /\ new \in Values
  BY <1>2 DEF Keys, Values, Opt
<1>7. /\ w \in [Keys -> Values \cup {Unsure}]
      /\ \A k \in Keys : w[k] = IF k = h THEN new ELSE Unsure
  BY <1>6, WantType
<1>8. \A k \in Keys :
        UserValue(devices', mappings', k) =
          IF w[k] = Unsure THEN UserValue(devices, mappings, k) ELSE w[k]
  BY <1>4, <1>6, <1>7, ValuesAreSure DEF UserValue
<1>9. Request(w) /\ pc = "idle"
  BY DEF new
<1>10. QED
  BY <1>1, <1>3, <1>5, <1>7, <1>8, <1>9, RequestStep

LEMMA DeleteMappingStep ==
  ASSUME IInv, NEW h \in Hosts, DeleteMapping(h)
  PROVE  IInv' /\ OnlyWanted
<1> DEFINE w == [NoWant EXCEPT ![h] = None]
<1> USE DEF DeleteMapping
<1>1. mappings \in MappingMaps /\ devices' \in DeviceMaps
  BY DEF IInv, TypeOK
<1>2. mappings' \in MappingMaps
  BY <1>1 DEF MappingMaps, Opt
<1>3. mappings'[h] = None /\ \A g \in Hosts \ {h} : mappings'[g] = mappings[g]
  BY <1>1 DEF MappingMaps
<1>4. WellFormedMaps(mappings')
  BY <1>3 DEF IInv, MappingsWellFormed, WellFormedMaps
<1>5. h \in Keys /\ None \in Values
  BY DEF Keys, Values, Opt
<1>6. /\ w \in [Keys -> Values \cup {Unsure}]
      /\ \A k \in Keys : w[k] = IF k = h THEN None ELSE Unsure
  BY <1>5, WantType
<1>7. \A k \in Keys :
        UserValue(devices', mappings', k) =
          IF w[k] = Unsure THEN UserValue(devices, mappings, k) ELSE w[k]
  BY <1>3, <1>5, <1>6, ValuesAreSure DEF UserValue
<1>8. QED
  BY <1>1, <1>2, <1>4, <1>6, <1>7, RequestStep

LEMMA MappingFields ==
  ASSUME NEW m \in Mapping
  PROVE  m = NewMapping(m.hostname, m.mac, m.ip)
BY DEF Mapping, NewMapping

\* The renamed mapping takes its host name along, which is what a reload
\* will key it by.
LEMMA UpdateMappingStep ==
  ASSUME IInv, NEW old \in Hosts, NEW h \in Hosts,
         NEW mac \in Opt(MACs), NEW ip \in Opt(IPs),
         UpdateMapping(old, h, mac, ip)
  PROVE  IInv' /\ OnlyWanted
<1> DEFINE new == NewMapping(h, mac, ip)
           w == [NoWant EXCEPT ![old] = None, ![h] = new]
<1>1. mappings \in MappingMaps /\ devices' \in DeviceMaps /\ mappings[old] \in Mapping
  BY DEF UpdateMapping, IInv, TypeOK, MappingMaps, Opt
<1>2. /\ new \in Mapping /\ new # None /\ new.hostname = h
      /\ ExactlyOneTarget(new.mac, new.ip)
  BY RecordAssumption DEF UpdateMapping, NewMapping, Mapping
<1>3. [mappings[old] EXCEPT !.hostname = h, !.mac = mac, !.ip = ip] = new
  <2> DEFINE m == [mappings[old] EXCEPT !.hostname = h, !.mac = mac, !.ip = ip]
  <2>1. m \in Mapping /\ m.hostname = h /\ m.mac = mac /\ m.ip = ip
    BY <1>1 DEF Mapping
  <2> HIDE DEF m
  <2>2. m = new
    BY <2>1, MappingFields
  <2>3. QED
    BY <2>2 DEF m
<1>4. mappings' = [mappings EXCEPT ![old] = None, ![h] = new]
  BY <1>3 DEF UpdateMapping
<1>5. Request(w) /\ pc = "idle" /\ dirty' = TRUE
  BY DEF UpdateMapping
<1> HIDE DEF new
<1>6. mappings' \in MappingMaps
  BY <1>1, <1>2, <1>4 DEF MappingMaps, Opt
<1>7. \A g \in Hosts : mappings'[g] = IF g = h THEN new
                                      ELSE IF g = old THEN None ELSE mappings[g]
  BY <1>1, <1>4 DEF MappingMaps
<1>8. WellFormedMaps(mappings')
  BY <1>2, <1>7 DEF IInv, MappingsWellFormed, WellFormedMaps
<1>9. h \in Keys /\ old \in Keys /\ new \in Values /\ None \in Values
  BY <1>2 DEF Keys, Values, Opt
<1>10. /\ w \in [Keys -> Values \cup {Unsure}]
       /\ \A k \in Keys : w[k] = IF k = h THEN new
                                 ELSE IF k = old THEN None ELSE Unsure
  BY <1>9 DEF NoWant
<1>11. \A k \in Keys :
         UserValue(devices', mappings', k) =
           IF w[k] = Unsure THEN UserValue(devices, mappings, k) ELSE w[k]
  <2>1. devices' = devices
    BY DEF UpdateMapping
  <2>2. QED
    BY <1>7, <1>9, <1>10, <2>1, ValuesAreSure DEF UserValue
<1>12. QED
  BY <1>1, <1>5, <1>6, <1>8, <1>10, <1>11, RequestStep

\* A save that writes nothing new.
LEMMA SaveStep ==
  ASSUME IInv, Save \/ SaveIfDirty
  PROVE  IInv'
<1>1. pc = "idle" /\ Request(NoWant) /\ UNCHANGED <<memory, dirty>>
  BY DEF Save, SaveIfDirty
<1>2. /\ devices' \in DeviceMaps /\ mappings' \in MappingMaps /\ dirty' \in BOOLEAN
      /\ WellFormedMaps(mappings')
  BY <1>1 DEF IInv, TypeOK, MappingsWellFormed, memory
<1>3. \A k \in Keys :
        UserValue(devices', mappings', k) =
          IF NoWant[k] = Unsure THEN UserValue(devices, mappings, k) ELSE NoWant[k]
  BY <1>1 DEF NoWant, memory
<1>4. QED
  BY <1>1, <1>2, <1>3, WantType, RequestStep

-----------------------------------------------------------------------------
(* The steps of saveLocked. *)

LEMMA SaveWriteStep ==
  ASSUME IInv, SaveWrite
  PROVE  IInv'
<1> USE DEF SaveWrite
<1>1. Marshal(devices, mappings) \in Files
  BY MarshalFile DEF IInv, TypeOK, MappingsWellFormed
<1>2. TypeOK'
  BY <1>1 DEF IInv, TypeOK, memory, history
<1>3. MappingsWellFormed' /\ SaveInProgress'
  BY DEF IInv, MappingsWellFormed, SaveInProgress, memory
<1>4. WantWritten' /\ FileStatus' /\ CorruptFileKept'
  BY DEF IInv, WantWritten, FileStatus, CorruptFileKept, memory, history
<1>5. CleanMeansSaved' /\ PromisesKept'
  BY DEF IInv, CleanMeansSaved, PromisesKept, memory, history
<1>6. QED
  BY <1>2, <1>3, <1>4, <1>5 DEF IInv

\* The rename replaces the file by the maps: what was promised of the old
\* file holds of the new one because it held of the maps.
LEMMA SaveRenameStep ==
  ASSUME IInv, SaveRename
  PROVE  IInv'
<1> USE DEF SaveRename
<1>1. /\ devices \in DeviceMaps /\ mappings \in MappingMaps /\ WellFormedMaps(mappings)
      /\ disk' = Marshal(devices, mappings)
  BY DEF IInv, TypeOK, MappingsWellFormed, SaveInProgress
<1>2. /\ disk' \in Files /\ WellFormedFile(disk')
      /\ disk'.status = "whole"
      /\ disk'.devices = devices /\ Unmarshal(disk') = mappings
  BY <1>1, MarshalFile, RoundTrip
<1>3. TypeOK'
  BY <1>2, EmptyFiles DEF IInv, TypeOK, memory, history
<1>4. MappingsWellFormed' /\ SaveInProgress'
  BY <1>1, <1>2 DEF MappingsWellFormed, SaveInProgress, memory
<1>5. WantWritten' /\ FileStatus'
  BY <1>2 DEF IInv, WantWritten, FileStatus, memory, history
<1>6. CorruptFileKept'
  BY DEF IInv, CorruptFileKept, FileStatus
<1>7. CleanMeansSaved'
  BY <1>2 DEF CleanMeansSaved, memory
<1>8. PromisesKept'
  BY <1>2 DEF IInv, PromisesKept, memory, history
<1>9. QED
  BY <1>3, <1>4, <1>5, <1>6, <1>7, <1>8 DEF IInv

LEMMA SaveFailsStep ==
  ASSUME IInv, SaveFails
  PROVE  IInv'
<1> USE DEF SaveFails
<1>1. TypeOK'
  BY EmptyFiles, WantType DEF IInv, TypeOK, memory
<1>2. MappingsWellFormed' /\ SaveInProgress'
  BY DEF IInv, MappingsWellFormed, SaveInProgress, memory
<1>3. WantWritten' /\ FileStatus' /\ CorruptFileKept'
  BY DEF IInv, WantWritten, NoWant, FileStatus, CorruptFileKept, memory
<1>4. CleanMeansSaved' /\ PromisesKept'
  BY DEF IInv, CleanMeansSaved, PromisesKept, memory
<1>5. QED
  BY <1>1, <1>2, <1>3, <1>4 DEF IInv

\* The answer: what is wanted was written to the maps, and the file is the maps.
LEMMA SaveReturnsStep ==
  ASSUME IInv, SaveReturns
  PROVE  IInv'
<1> USE DEF SaveReturns
<1>1. /\ devices \in DeviceMaps /\ mappings \in MappingMaps /\ WellFormedMaps(mappings)
      /\ disk = Marshal(devices, mappings)
  BY DEF IInv, TypeOK, MappingsWellFormed, SaveInProgress
<1>2. disk.devices = devices /\ Unmarshal(disk) = mappings
  BY <1>1, MarshalFile, RoundTrip
<1>3. TypeOK'
  <2>1. promised' \in [Keys -> Values \cup {Unsure}]
    BY DEF IInv, TypeOK
  <2>2. QED
    BY <2>1, WantType DEF IInv, TypeOK, memory, files
<1>4. MappingsWellFormed' /\ SaveInProgress'
  BY DEF IInv, MappingsWellFormed, SaveInProgress, memory, files
<1>5. WantWritten' /\ FileStatus' /\ CorruptFileKept'
  BY DEF IInv, WantWritten, NoWant, FileStatus, CorruptFileKept, memory, files
<1>6. CleanMeansSaved'
  BY <1>2 DEF CleanMeansSaved, memory, files
<1>7. PromisesKept'
  BY <1>2 DEF IInv, PromisesKept, WantWritten, memory, files
<1>8. QED
  BY <1>3, <1>4, <1>5, <1>6, <1>7 DEF IInv

-----------------------------------------------------------------------------
(* The steps of the process and of its environment. *)

LEMMA OpenStep ==
  ASSUME IInv, Open
  PROVE  IInv'
<1> USE DEF Open
<1>1. disk \in Files /\ WellFormedFile(disk)
  BY DEF IInv, TypeOK, MappingsWellFormed
<1>2. /\ devices' \in DeviceMaps /\ mappings' \in MappingMaps
      /\ WellFormedMaps(mappings')
  BY <1>1, UnmarshalMaps DEF Files
<1>3. TypeOK'
  BY <1>2 DEF IInv, TypeOK, files, history
<1>4. MappingsWellFormed' /\ SaveInProgress'
  BY <1>1, <1>2 DEF MappingsWellFormed, SaveInProgress, files
<1>5. WantWritten' /\ FileStatus' /\ CorruptFileKept'
  BY DEF IInv, WantWritten, NoWant, FileStatus, CorruptFileKept, files, history
<1>6. CleanMeansSaved' /\ PromisesKept'
  BY DEF IInv, CleanMeansSaved, PromisesKept, files, history
<1>7. QED
  BY <1>3, <1>4, <1>5, <1>6 DEF IInv

\* Nothing was promised of a file that cannot be read.
LEMMA MoveAsideStep ==
  ASSUME IInv, MoveAside
  PROVE  IInv'
<1> USE DEF MoveAside
<1>1. Unmarshal(disk') = Unmarshal(disk) /\ disk'.devices = disk.devices
  BY EmptyFiles DEF IInv, FileStatus, Unmarshal
<1>2. TypeOK'
  BY EmptyFiles DEF IInv, TypeOK, memory, history
<1>3. MappingsWellFormed' /\ SaveInProgress'
  BY EmptyFiles DEF IInv, MappingsWellFormed, SaveInProgress, memory
<1>4. WantWritten' /\ FileStatus' /\ CorruptFileKept'
  BY EmptyFiles DEF IInv, WantWritten, FileStatus, CorruptFileKept, memory, history
<1>5. CleanMeansSaved' /\ PromisesKept'
  BY <1>1 DEF IInv, CleanMeansSaved, PromisesKept, history, memory
<1>6. QED
  BY <1>2, <1>3, <1>4, <1>5 DEF IInv

LEMMA CrashStep ==
  ASSUME IInv, Crash
  PROVE  IInv'
<1> USE DEF Crash
<1>1. NoDevices \in DeviceMaps /\ NoMappings \in MappingMaps /\ WellFormedMaps(NoMappings)
  BY DEF NoDevices, NoMappings, DeviceMaps, MappingMaps, WellFormedMaps, Opt
<1>2. TypeOK'
  BY <1>1, EmptyFiles, WantType DEF IInv, TypeOK
<1>3. MappingsWellFormed' /\ SaveInProgress'
  BY <1>1 DEF IInv, MappingsWellFormed, SaveInProgress
<1>4. WantWritten' /\ FileStatus' /\ CorruptFileKept'
  BY DEF IInv, WantWritten, NoWant, FileStatus, CorruptFileKept
<1>5. CleanMeansSaved' /\ PromisesKept'
  BY DEF IInv, CleanMeansSaved, PromisesKept
<1>6. QED
  BY <1>2, <1>3, <1>4, <1>5 DEF IInv

LEMMA DamageStep ==
  ASSUME IInv, Damage
  PROVE  IInv'
<1> USE DEF Damage
<1>1. TypeOK'
  BY EmptyFiles DEF IInv, TypeOK, memory
<1>2. MappingsWellFormed' /\ SaveInProgress'
  BY EmptyFiles DEF IInv, MappingsWellFormed, SaveInProgress, memory
<1>3. WantWritten' /\ FileStatus' /\ CorruptFileKept'
  BY EmptyFiles DEF IInv, WantWritten, FileStatus, CorruptFileKept, memory
<1>4. CleanMeansSaved' /\ PromisesKept'
  BY DEF IInv, CleanMeansSaved, PromisesKept, memory
<1>5. QED
  BY <1>1, <1>2, <1>3, <1>4 DEF IInv

-----------------------------------------------------------------------------
(* The invariants. *)

LEMMA InitInv == Init => IInv
<1> SUFFICES ASSUME Init PROVE IInv
  OBVIOUS
<1> USE DEF Init
<1>1. NoDevices \in DeviceMaps /\ NoMappings \in MappingMaps /\ WellFormedMaps(NoMappings)
  BY DEF NoDevices, NoMappings, DeviceMaps, MappingMaps, WellFormedMaps, Opt
<1>2. TypeOK
  <2>1. promised \in [Keys -> Values \cup {Unsure}]
    BY DEF Values, Opt
  <2>2. QED
    BY <1>1, <2>1, EmptyFiles, WantType DEF TypeOK
<1>3. MappingsWellFormed /\ SaveInProgress
  BY <1>1, EmptyFiles DEF MappingsWellFormed, SaveInProgress
<1>4. WantWritten /\ FileStatus /\ CorruptFileKept /\ CleanMeansSaved
  BY EmptyFiles DEF WantWritten, NoWant, FileStatus, CorruptFileKept, CleanMeansSaved
<1>5. PromisesKept
  BY EmptyFiles DEF PromisesKept, UserValue, NoMappings, NoDevices, Keys
<1>6. QED
  BY <1>2, <1>3, <1>4, <1>5 DEF IInv

LEMMA NextInv == IInv /\ [Next]_vars => IInv'
<1> SUFFICES ASSUME IInv, [Next]_vars PROVE IInv'
  OBVIOUS
<1>1. CASE ScannerOps
  BY <1>1, ApplyScanStep, SetDiscoveredHostnameStep, SetVendorStep DEF ScannerOps
<1>2. CASE WebOps
  BY <1>2, SetLabelStep, DeleteDeviceStep, SetMappingStep, UpdateMappingStep,
     DeleteMappingStep DEF WebOps
<1>3. CASE Save \/ SaveIfDirty
  BY <1>3, SaveStep
<1>4. CASE SaveSteps
  BY <1>4, SaveWriteStep, SaveRenameStep, SaveFailsStep, SaveReturnsStep DEF SaveSteps
<1>5. CASE Open \/ MoveAside \/ Crash \/ Damage
  BY <1>5, OpenStep, MoveAsideStep, CrashStep, DamageStep
<1>6. CASE UNCHANGED vars
  <2>1. TypeOK' /\ MappingsWellFormed' /\ SaveInProgress' /\ WantWritten'
    BY <1>6 DEF IInv, TypeOK, MappingsWellFormed, SaveInProgress, WantWritten,
       vars, memory, files, history
  <2>2. FileStatus' /\ CorruptFileKept' /\ CleanMeansSaved' /\ PromisesKept'
    BY <1>6 DEF IInv, FileStatus, CorruptFileKept, CleanMeansSaved, PromisesKept,
       vars, memory, files, history
  <2>3. QED
    BY <2>1, <2>2 DEF IInv
<1>7. QED
  BY <1>1, <1>2, <1>3, <1>4, <1>5, <1>6 DEF Next

LEMMA ValuesStep ==
  ASSUME IInv, [Next]_vars, pc # "down", pc' # "down"
  PROVE  OnlyWanted
<1>1. CASE ScannerOps
  BY <1>1, ApplyScanStep, SetDiscoveredHostnameStep, SetVendorStep DEF ScannerOps
<1>2. CASE WebOps
  BY <1>2, SetLabelStep, DeleteDeviceStep, SetMappingStep, UpdateMappingStep,
     DeleteMappingStep DEF WebOps
<1>3. CASE UNCHANGED memory
  BY <1>3 DEF memory, OnlyWanted, UserValue
<1>4. CASE Save \/ SaveIfDirty \/ SaveSteps \/ UNCHANGED vars
  BY <1>3, <1>4 DEF Save, SaveIfDirty, SaveSteps, SaveWrite, SaveRename, SaveFails,
     SaveReturns, vars, memory
<1>5. CASE Open \/ MoveAside \/ Crash \/ Damage
  BY <1>5 DEF Open, MoveAside, Crash, Damage
<1>6. QED
  BY <1>1, <1>2, <1>4, <1>5 DEF Next

LEMMA Invariance == Spec => []IInv
<1>1. QED
  BY InitInv, NextInv, PTL DEF Spec

\* Every variable stays in its type, for any number of devices, names and
\* rows of a scan.
THEOREM TypeCorrect == Spec => []TypeOK
<1>1. IInv => TypeOK
  BY DEF IInv
<1>2. QED
  BY <1>1, Invariance, PTL

\* What a client was told is stored survives failed saves and crashes.
THEOREM PromisesAreKept == Spec => []PromisesKept
<1>1. IInv => PromisesKept
  BY DEF IInv
<1>2. QED
  BY <1>1, Invariance, PTL

\* A clean store is a saved store: SaveIfDirty never skips a needed save.
THEOREM CleanIsSaved == Spec => []CleanMeansSaved
<1>1. IInv => CleanMeansSaved
  BY DEF IInv
<1>2. QED
  BY <1>1, Invariance, PTL

\* Every mapping is under its own name with one target, in memory and on disk.
THEOREM MappingsAreWellFormed == Spec => []MappingsWellFormed
<1>1. IInv => MappingsWellFormed
  BY DEF IInv
<1>2. QED
  BY <1>1, Invariance, PTL

\* A file that could not be read is never overwritten.
THEOREM CorruptIsKept == Spec => []CorruptFileKept
<1>1. IInv => CorruptFileKept
  BY DEF IInv
<1>2. QED
  BY <1>1, Invariance, PTL

\* While the process runs a user's value changes only by a request for that
\* very key, whatever scans, saves and other requests come in between.
THEOREM OnlyRequestsWriteValues == Spec => OnlyRequestsChangeValues
<1>1. IInv /\ [Next]_vars
        => [pc # "down" /\ pc' # "down" =>
              \A k \in Keys :
                UserValue(devices, mappings, k)' # UserValue(devices, mappings, k)
                  => want'[k] # Unsure]_vars
  BY ValuesStep DEF OnlyWanted
<1>2. QED
  BY <1>1, Invariance, PTL DEF Spec, OnlyRequestsChangeValues

-----------------------------------------------------------------------------
(* Counting mappings.  Users enter one at a time, so there are finitely    *)
(* many, however many names there could be: in memory, in a file that      *)
(* saveLocked writes of it, and in what Open makes of the file.            *)

HostsIn(w) == {h \in Hosts : w[h] # Unsure}
Countable == IsFiniteSet(Named(mappings)) /\ IsFiniteSet(disk.mappings)

LEMMA ImageFinite ==
  ASSUME NEW S, IsFiniteSet(S), NEW f
  PROVE  IsFiniteSet({f[x] : x \in S})
<1> DEFINE g == [x \in S |-> f[x]]
           T == {f[x] : x \in S}
<1>1. g \in [S -> T] /\ \A y \in T : \E x \in S : g[x] = y
  OBVIOUS
<1>2. g \in Surjection(S, T)
  BY <1>1, Fun_IsSurj
<1>3. QED
  BY <1>2, FS_Surjection

LEMMA MarshalFinite ==
  ASSUME NEW devs, NEW maps, IsFiniteSet(Named(maps))
  PROVE  IsFiniteSet(Marshal(devs, maps).mappings)
<1>1. {maps[h] : h \in Hosts} \ {None} = {maps[h] : h \in Named(maps)}
  BY DEF Named
<1>2. IsFiniteSet({maps[h] : h \in Named(maps)})
  BY ImageFinite
<1>3. QED
  BY <1>1, <1>2 DEF Marshal

LEMMA UnmarshalFinite ==
  ASSUME NEW f, IsFiniteSet(f.mappings)
  PROVE  IsFiniteSet(Named(Unmarshal(f)))
<1> DEFINE name == [m \in f.mappings |-> m.hostname]
<1>1. Named(Unmarshal(f)) \subseteq {name[m] : m \in f.mappings}
  BY DEF Named, Unmarshal
<1>2. IsFiniteSet({name[m] : m \in f.mappings})
  BY ImageFinite
<1>3. QED
  BY <1>1, <1>2, FS_Subset

\* A step that names at most one more host leaves finitely many.
LEMMA OneMore ==
  ASSUME Countable, UNCHANGED disk, NEW h, Named(mappings') \subseteq Named(mappings) \cup {h}
  PROVE  Countable'
<1>1. IsFiniteSet(Named(mappings) \cup {h})
  BY FS_AddElement DEF Countable
<1>2. QED
  BY <1>1, FS_Subset DEF Countable, Named

LEMMA CountableStep ==
  ASSUME IInv, Countable, [Next]_vars
  PROVE  Countable'
<1>1. CASE UNCHANGED <<mappings, disk>>
  BY <1>1 DEF Countable, Named
<1>2. CASE WebOps
  <2>1. mappings \in MappingMaps
    BY DEF IInv, TypeOK
  <2>2. ASSUME NEW h \in Hosts, NEW mac, NEW ip, SetMapping(h, mac, ip)
        PROVE  UNCHANGED disk /\ Named(mappings') \subseteq Named(mappings) \cup {h}
    BY <2>1, <2>2 DEF SetMapping, Request, files, Named, MappingMaps
  <2>3. ASSUME NEW old \in Hosts, NEW h \in Hosts, NEW mac, NEW ip,
               UpdateMapping(old, h, mac, ip)
        PROVE  UNCHANGED disk /\ Named(mappings') \subseteq Named(mappings) \cup {h}
    BY <2>1, <2>3 DEF UpdateMapping, Request, files, Named, MappingMaps
  <2>4. ASSUME NEW h \in Hosts, DeleteMapping(h)
        PROVE  UNCHANGED disk /\ Named(mappings') \subseteq Named(mappings) \cup {h}
    BY <2>1, <2>4 DEF DeleteMapping, Request, files, Named, MappingMaps
  <2>5. ASSUME NEW m \in MACs,
               DeleteDevice(m) \/ \E label \in Opt(Labels) : SetLabel(m, label)
        PROVE  UNCHANGED <<mappings, disk>>
    BY <2>5 DEF DeleteDevice, SetLabel, Request, files
  <2>6. QED
    BY <1>1, <1>2, <2>2, <2>3, <2>4, <2>5, OneMore DEF WebOps
<1>3. CASE SaveRename
  <2>1. disk' = Marshal(devices, mappings) /\ mappings' = mappings
    BY <1>3 DEF SaveRename, IInv, SaveInProgress, memory
  <2>2. QED
    BY <2>1, MarshalFinite DEF Countable, Named
<1>4. CASE Open
  BY <1>4, UnmarshalFinite DEF Open, files, Countable
<1>5. CASE MoveAside \/ Crash \/ Damage
  <2>1. IsFiniteSet({}) /\ Named(NoMappings) = {}
    BY FS_EmptySet DEF Named, NoMappings
  <2>2. QED
    BY <1>5, <2>1, EmptyFiles DEF MoveAside, Crash, Damage, memory, Countable, Named
<1>6. CASE ScannerOps \/ Save \/ SaveIfDirty
  BY <1>1, <1>6 DEF ScannerOps, ApplyScan, SetDiscoveredHostname, SetVendor, Save, SaveIfDirty,
     Request, files, memory
<1>7. CASE SaveWrite \/ SaveFails \/ SaveReturns \/ UNCHANGED vars
  BY <1>1, <1>7 DEF SaveWrite, SaveFails, SaveReturns, vars, files, memory
<1>8. QED
  BY <1>2, <1>3, <1>4, <1>5, <1>6, <1>7 DEF Next, SaveSteps

\* Of the requests only one that moves a mapping to another name writes two.
LEMMA OneName ==
  ASSUME NEW w, NEW h, HostsIn(w) \subseteq {h}
  PROVE  ~Renaming(w)
<1>1. IsFiniteSet({h}) /\ Cardinality({h}) = 1
  BY FS_Singleton
<1>2. Cardinality(HostsIn(w)) <= 1
  BY <1>1, FS_Subset
<1>3. Cardinality(HostsIn(w)) # 2
  BY <1>1, <1>2, FS_Subset, FS_CardinalityType
<1>4. QED
  BY <1>3 DEF Renaming, HostsIn

\* ... and that one leaves a name for each it takes.
LEMMA MovedName ==
  ASSUME IInv, Countable, NEW old \in Hosts, NEW h \in Hosts, h # old, NEW mac, NEW ip,
         UpdateMapping(old, h, mac, ip), None # mappings'[h]
  PROVE  Cardinality(Named(mappings')) = Cardinality(Named(mappings))
<1> DEFINE names == Named(mappings)
           left == names \ {old}
<1>1. mappings \in MappingMaps /\ mappings[old] # None /\ mappings[h] = None
  BY DEF IInv, TypeOK, UpdateMapping
<1>2. old \in names /\ h \notin left
  BY <1>1 DEF Named
<1>3. Named(mappings') = left \cup {h}
  BY <1>1 DEF UpdateMapping, Named, MappingMaps
<1>4. IsFiniteSet(names) /\ Cardinality(names) \in Nat
  BY FS_CardinalityType DEF Countable
<1>5. IsFiniteSet(left) /\ Cardinality(left) = Cardinality(names) - 1
  BY <1>2, <1>4, FS_RemoveElement
<1>6. Cardinality(left \cup {h}) = Cardinality(left) + 1
  BY <1>2, <1>5, FS_AddElement
<1>7. QED
  BY <1>3, <1>4, <1>5, <1>6

LEMMA RenameStep ==
  ASSUME IInv, Countable, [Next]_vars, pc = "idle", pc' = "write", Renaming(want')
  PROVE  Cardinality(Named(mappings')) = Cardinality(Named(mappings))
<1>1. WebOps \/ Save \/ SaveIfDirty
  BY DEF Next, ScannerOps, ApplyScan, SetDiscoveredHostname, SetVendor, SaveSteps, SaveWrite,
     SaveRename, SaveFails, SaveReturns, Open, MoveAside, Crash, Damage, vars
<1>2. ASSUME NEW m \in MACs, DeleteDevice(m) \/ \E label \in Opt(Labels) : SetLabel(m, label)
      PROVE  FALSE
  <2>1. HostsIn(want') \subseteq {m}
    BY <1>2 DEF DeleteDevice, SetLabel, Request, HostsIn, NoWant, Keys
  <2>2. QED
    BY <2>1, OneName
<1>3. ASSUME NEW h \in Hosts, NEW mac, NEW ip, DeleteMapping(h) \/ SetMapping(h, mac, ip)
      PROVE  FALSE
  <2>1. HostsIn(want') \subseteq {h}
    BY <1>3 DEF DeleteMapping, SetMapping, Request, HostsIn, NoWant, Keys
  <2>2. QED
    BY <2>1, OneName
<1>4. ~(Save \/ SaveIfDirty)
  <2>1. HostsIn(NoWant) \subseteq {None}
    BY DEF HostsIn, NoWant, Keys
  <2>2. ~Renaming(NoWant)
    BY <2>1, OneName
  <2>3. QED
    BY <2>2 DEF Save, SaveIfDirty, Request
<1>5. ASSUME NEW old \in Hosts, NEW h \in Hosts, NEW mac \in Opt(MACs), NEW ip \in Opt(IPs),
             UpdateMapping(old, h, mac, ip)
      PROVE  Cardinality(Named(mappings')) = Cardinality(Named(mappings))
  <2>1. HostsIn(want') \subseteq {old, h}
    BY <1>5 DEF UpdateMapping, Request, HostsIn, NoWant, Keys
  <2>2. h # old
    BY <2>1, OneName
  <2>3. mappings'[h] = [mappings[old] EXCEPT !.hostname = h, !.mac = mac, !.ip = ip]
    BY <1>5 DEF UpdateMapping, IInv, TypeOK, MappingMaps
  <2>4. mappings[old] \in Mapping
    BY <1>5 DEF UpdateMapping, IInv, TypeOK, MappingMaps, Opt
  <2>5. mappings'[h] \in Mapping
    BY <2>3, <2>4 DEF Mapping
  <2>6. QED
    BY <1>5, <2>2, <2>5, MovedName, RecordAssumption
<1>6. QED
  BY <1>1, <1>2, <1>3, <1>4, <1>5 DEF WebOps

\* A rename gives up one name for another and never lands on a taken one, so
\* no other mapping is lost by it, however many there are.
THEOREM RenamesKeepOthers == Spec => RenameKeepsOthers
<1>1. Init => Countable
  <2>1. Named(NoMappings) = {} /\ IsFiniteSet({})
    BY FS_EmptySet DEF Named, NoMappings
  <2>2. QED
    BY <2>1, EmptyFiles DEF Init, Countable
<1>2. IInv /\ Countable /\ [Next]_vars => Countable'
  BY CountableStep
<1>3. IInv /\ Countable /\ [Next]_vars
        => [pc = "idle" /\ pc' = "write" /\ Renaming(want')
              => Cardinality(Named(mappings')) = Cardinality(Named(mappings))]_vars
  BY RenameStep
<1>4. QED
  BY <1>1, <1>2, <1>3, Invariance, PTL DEF Spec, RenameKeepsOthers

-----------------------------------------------------------------------------
(* Store implements Registry.  Readers see the maps; of saveLocked's steps  *)
(* the rename is the one that makes them durable, and of the process's the  *)
(* end is the one that takes readers back to the file: opening it changes   *)
(* nothing.                                                                 *)

Maps == [devices |-> devices, mappings |-> mappings]
Current == IF pc = "down" THEN FileContent(disk) ELSE Maps
Durable == FileContent(disk)
abstract == <<Current, Durable, promised>>

\* The registry's definitions, under the refinement mapping.
LEMMA SameWords ==
  /\ Abstract!Content = [devices : DeviceMaps, mappings : MappingMaps]
  /\ Abstract!Nothing = [devices |-> NoDevices, mappings |-> NoMappings]
  /\ Abstract!Keys = Keys /\ Abstract!Values = Values
  /\ \A c, k : Abstract!ValueIn(c, k) = UserValue(c.devices, c.mappings, k)
  BY DEF Abstract!Content, Abstract!Nothing, Abstract!Keys, Abstract!Values, Abstract!ValueIn,
     Abstract!UserValue, Abstract!DeviceMaps, Abstract!MappingMaps, Abstract!NoDevices,
     Abstract!NoMappings, Abstract!Opt, Abstract!Device, Abstract!Mapping, Abstract!Time,
     Keys, Values, UserValue, DeviceMaps, MappingMaps, NoDevices, NoMappings, Opt, Device,
     Mapping, Time

-----------------------------------------------------------------------------
(* The steps that are steps of the registry. *)

\* A step that changes maps and writes keys: what it wants is not promised.
LEMMA ChangeStep ==
  ASSUME IInv, IInv', OnlyWanted, pc # "down", pc' # "down", UNCHANGED disk,
         \A k \in Keys : promised'[k] = IF want'[k] = Unsure THEN promised[k] ELSE Unsure
  PROVE  Abstract!Change
<1>1. Current' \in Abstract!Content
  BY SameWords DEF IInv, TypeOK, Current, Maps
<1>2. promised' \in [Keys -> Values \cup {Unsure}]
  BY DEF IInv, TypeOK
<1>3. Durable' = Durable
  BY DEF Durable
<1>4. \A k \in Keys : \/ promised'[k] = Unsure
                     \/ /\ promised'[k] = promised[k]
                        /\ Abstract!ValueIn(Current', k) = Abstract!ValueIn(Current, k)
  BY SameWords DEF OnlyWanted, Current, Maps
<1>5. QED
  BY <1>1, <1>2, <1>3, <1>4, SameWords DEF Abstract!Change, Current, Durable, Maps

LEMMA ScannerOpsChange ==
  ASSUME IInv, ScannerOps
  PROVE  Abstract!Change
<1>1. IInv' /\ OnlyWanted
  BY ApplyScanStep, SetDiscoveredHostnameStep, SetVendorStep DEF ScannerOps
<1>2. pc = "idle" /\ UNCHANGED <<pc, files, history>>
  BY DEF ScannerOps, ApplyScan, SetDiscoveredHostname, SetVendor
<1>3. want' = NoWant
  BY <1>2 DEF IInv, WantWritten, history
<1>4. QED
  BY <1>1, <1>2, <1>3, ChangeStep DEF files, history, NoWant

LEMMA RequestsChange ==
  ASSUME IInv, WebOps \/ Save \/ SaveIfDirty
  PROVE  Abstract!Change
<1>1. pc = "idle" /\ \E w : Request(w)
  BY DEF WebOps, SetLabel, DeleteDevice, SetMapping, UpdateMapping, DeleteMapping, Save, SaveIfDirty
<1>2. IInv' /\ OnlyWanted
  <2>1. CASE WebOps
    BY <2>1, SetLabelStep, DeleteDeviceStep, SetMappingStep, UpdateMappingStep,
       DeleteMappingStep DEF WebOps
  <2>2. CASE Save \/ SaveIfDirty
    BY <2>2, SaveStep DEF Save, SaveIfDirty, OnlyWanted, UserValue, memory
  <2>3. QED
    BY <2>1, <2>2
<1>3. PICK w : Request(w)
  BY <1>1
<1>4. QED
  BY <1>1, <1>2, <1>3, ChangeStep DEF Request, files

\* Once renamed the file is the maps, which are what readers see.
LEMMA RenamePersists ==
  ASSUME IInv, SaveRename
  PROVE  Abstract!Persist
<1>1. disk' = Marshal(devices, mappings)
  BY DEF SaveRename, IInv, SaveInProgress
<1>2. Durable' = Current
  BY <1>1, MarshalFile, RoundTrip DEF SaveRename, IInv, TypeOK, MappingsWellFormed, Durable,
     Current, Maps, FileContent
<1>3. Current' = Current /\ promised' = promised
  BY DEF SaveRename, Current, Maps, memory, history
<1>4. QED
  BY <1>2, <1>3 DEF Abstract!Persist, Current, Durable, Maps

\* The client is told of what is in the file and in memory.
LEMMA ReturnPromises ==
  ASSUME IInv, SaveReturns
  PROVE  Abstract!Promise
<1>1. Durable = Current /\ UNCHANGED <<Current, Durable>>
  BY MarshalFile, RoundTrip DEF SaveReturns, IInv, TypeOK, MappingsWellFormed, SaveInProgress,
     Durable, Current, Maps, FileContent, memory, files
<1>2. promised' \in [Keys -> Values \cup {Unsure}]
  BY DEF SaveReturns, IInv, TypeOK
<1>3. \A k \in Keys : \/ promised'[k] = promised[k]
                     \/ promised'[k] = Abstract!ValueIn(Current, k)
  BY SameWords DEF SaveReturns, IInv, WantWritten, Current, Maps
<1>4. QED
  BY <1>1, <1>2, <1>3, SameWords DEF Abstract!Promise, Current, Durable, Maps

LEMMA CrashIsCrash ==
  ASSUME IInv, Crash
  PROVE  Abstract!Crash
  BY DEF Crash, Abstract!Crash, FileContent

LEMMA DamageIsDisaster ==
  ASSUME IInv, Damage
  PROVE  Abstract!Disaster
<1>1. /\ pc = "down" /\ pc' = "down"
      /\ FileContent(disk') = Abstract!Nothing
      /\ promised' = [k \in Keys |-> Unsure]
  BY EmptyFiles, SameWords DEF Damage, FileContent
<1>2. QED
  BY <1>1, SameWords DEF Abstract!Disaster

-----------------------------------------------------------------------------
(* The steps the registry does not see. *)

LEMMA Unseen ==
  ASSUME IInv, SaveWrite \/ SaveFails \/ Open \/ MoveAside \/ UNCHANGED vars
  PROVE  UNCHANGED abstract
<1> USE DEF abstract, Current, Durable, Maps, FileContent
<1>1. CASE SaveWrite \/ SaveFails
  BY <1>1 DEF SaveWrite, SaveFails, memory, history
<1>2. CASE Open
  BY <1>2 DEF Open, files, history
<1>3. CASE MoveAside
  <2>1. Unmarshal(disk') = Unmarshal(disk) /\ disk'.devices = disk.devices
    BY <1>3, EmptyFiles DEF MoveAside, IInv, FileStatus, Unmarshal
  <2>2. QED
    BY <1>3, <2>1 DEF MoveAside, memory, history
<1>4. CASE UNCHANGED vars
  BY <1>4 DEF vars, memory, files, history
<1>5. QED
  BY <1>1, <1>2, <1>3, <1>4

LEMMA RegistryInit == Init => Abstract!RegInit
  BY EmptyFiles, SameWords DEF Init, Abstract!RegInit, FileContent

LEMMA RegistryStep == IInv /\ [Next]_vars => [Abstract!RegNext]_abstract
  BY ScannerOpsChange, RequestsChange, RenamePersists, ReturnPromises, CrashIsCrash,
     DamageIsDisaster, Unseen DEF Next, SaveSteps, Abstract!RegNext

\* The store is a registry: with scans, requests, failing saves and deaths at
\* every step, readers see one content at a time and a restart brings back
\* a content they have seen, with all that clients were promised in it.
THEOREM StoreImplementsRegistry == Spec => ImplementsRegistry
<1>1. IInv /\ [Next]_vars => [Abstract!RegNext]_(Abstract!regVars)
  BY RegistryStep DEF abstract, Abstract!regVars, Current, Durable, Maps
<1>2. QED
  BY <1>1, RegistryInit, Invariance, PTL DEF Spec, ImplementsRegistry, Abstract!RegSpec
=============================================================================
