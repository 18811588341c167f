--------------------------- MODULE ScannerProofs ---------------------------
(***************************************************************************)
(* Proofs about Scanner, for every table of rows, every number of probes   *)
(* per scan and every table of vendors.                                    *)
(***************************************************************************)
EXTENDS Scanner, StoreDataProofs, FiniteSetTheorems

Types ==
  /\ devices \in DeviceMaps /\ saved \in DeviceMaps /\ failed \in BOOLEAN
  /\ phase \in Phases
  /\ seen \in ArpTables \cup {<<>>}
  /\ row \in 1 .. Len(seen) + 1
  /\ jobs \subseteq Job
  /\ probed \in [MACs -> Opt(Probe)]
  /\ material \in BOOLEAN /\ trigger \in BOOLEAN /\ tick \in BOOLEAN
  /\ stopped \in BOOLEAN /\ owed \in BOOLEAN

\* Outside the phases that use them, scan's variables are as new.
ByPhase ==
  /\ phase \notin {"queue", "answers", "vendors", "save"} => row = 1
  /\ phase \notin {"queue", "answers"} => jobs = {}
  /\ phase \in {"sweep", "read", "wait", "done"} => ~material

Enough == IsFiniteSet(jobs) /\ Cardinality(jobs) <= MaxProbes

\* The file differs from the devices only if scan knows, or a save failed.
Stamped(devs) == \A m \in MACs : devs[m] # None => devs[m].lastSeen = 0

KnownToDiffer ==
  /\ Stamped(devices) /\ Stamped(saved)
  /\ ~failed /\ ~material => devices = saved

\* A probe asks the address of a row, which is that of its device until the
\* next scan.
AddressesSeen ==
  /\ \A j \in jobs : \E i \in DOMAIN seen : seen[i].mac = j.mac /\ seen[i].ip = j.ip
  /\ phase \in {"self", "queue", "answers"} /\ OneRowEach =>
       \A i \in DOMAIN seen :
         seen[i].ip # None /\ devices[seen[i].mac] # None
           => devices[seen[i].mac].ip = seen[i].ip

IInv == Types /\ ByPhase /\ Enough /\ KnownToDiffer /\ AddressesSeen

-----------------------------------------------------------------------------
LEMMA SeenRows ==
  ASSUME NEW s \in ArpTables \cup {<<>>}
  PROVE  /\ Len(s) \in Nat /\ DOMAIN s = 1 .. Len(s)
         /\ \A i \in DOMAIN s : s[i] \in SeenDevice /\ s[i].mac \in MACs
<1>1. CASE s \in ArpTables
  <2>1. s \in Seq(SeenDevice) /\ \A i \in DOMAIN s : s[i].mac # None
    BY <1>1, ScannerAssumption
  <2>2. Len(s) \in Nat /\ DOMAIN s = 1 .. Len(s) /\ \A i \in 1 .. Len(s) : s[i] \in SeenDevice
    BY <2>1
  <2>3. QED
    BY <2>1, <2>2 DEF SeenDevice, Opt
<1>2. CASE s = <<>>
  BY <1>2
<1>3. QED
  BY <1>1, <1>2

\* What everyone but ApplyScan and a restart may do to the devices.
Tended ==
  /\ devices' \in DeviceMaps
  /\ \A m \in MACs : devices'[m] # None =>
       /\ devices[m] # None
       /\ devices'[m].ip = devices[m].ip /\ devices'[m].lastSeen = devices[m].lastSeen

LEMMA HostnameTended ==
  ASSUME devices \in DeviceMaps, NEW m \in MACs, NEW name \in Opt(Names),
         SetDiscoveredHostname(m, name)
  PROVE  /\ Tended
         /\ material' = TRUE \/ UNCHANGED <<devices, material>>
         /\ \A k \in MACs : k # m => devices'[k] = devices[k]
<1>1. CASE ~IsNews(m, name)
  BY <1>1 DEF SetDiscoveredHostname, Tended
<1>2. CASE IsNews(m, name)
  <2>1. devices[m] \in Device /\ devices' = [devices EXCEPT ![m].hostname = name] /\ material' = TRUE
    BY <1>2 DEF SetDiscoveredHostname, IsNews, DeviceMaps, Opt
  <2> DEFINE d == [devices[m] EXCEPT !.hostname = name]
  <2>2. d \in Device /\ d.ip = devices[m].ip /\ d.lastSeen = devices[m].lastSeen
    BY <2>1 DEF Device
  <2>3. devices' = [devices EXCEPT ![m] = d]
    BY <2>1
  <2> HIDE DEF d
  <2>4. QED
    BY <2>1, <2>2, <2>3, RecordAssumption DEF Tended, DeviceMaps, Opt
<1>3. QED
  BY <1>1, <1>2

LEMMA VendorsTended ==
  ASSUME devices \in DeviceMaps, material \in BOOLEAN, FillVendors
  PROVE  /\ Tended
         /\ material' = TRUE \/ UNCHANGED <<devices, material>>
<1>1. ASSUME NEW m \in Unlabelled
      PROVE  /\ devices'[m] \in Device /\ devices[m] # None
             /\ devices'[m].ip = devices[m].ip /\ devices'[m].lastSeen = devices[m].lastSeen
  <2>1. m \in MACs /\ devices[m] # None /\ devices[m] \in Device /\ VendorOf[m] \in Opt(Vendors)
    BY ScannerAssumption DEF Unlabelled, DeviceMaps, Opt
  <2>2. devices'[m] = [devices[m] EXCEPT !.vendor = VendorOf[m]]
    BY <2>1 DEF FillVendors
  <2>3. QED
    BY <2>1, <2>2 DEF Device
<1>2. \A m \in MACs : m \notin Unlabelled => devices'[m] = devices[m]
  BY DEF FillVendors
<1>3. devices' = [m \in MACs |-> devices'[m]]
  BY DEF FillVendors
<1>4. Tended
  BY <1>1, <1>2, <1>3 DEF Tended, DeviceMaps, Opt
<1>5. Unlabelled = {} => devices' = devices
  BY <1>2, <1>3 DEF DeviceMaps
<1>6. QED
  BY <1>4, <1>5 DEF FillVendors

\* Every step but these two tends the devices.
LEMMA AllTend ==
  ASSUME IInv, [Next]_vars, ~\E table \in ArpTables : ApplyScan(table), ~Restart
  PROVE  Tended
<1> USE DEF IInv, Types
<1>1. CASE UNCHANGED devices
  BY <1>1 DEF Tended
<1>2. CASE NameSelf
  BY <1>1, <1>2, HostnameTended, ScannerAssumption DEF NameSelf
<1>3. CASE \E j \in jobs, name \in Opt(Names) : ProbeEnds(j, name)
  BY <1>3, HostnameTended DEF ProbeEnds, Job
<1>4. CASE FillVendors
  BY <1>4, VendorsTended
<1>5. CASE \E m \in MACs : DeleteDevice(m)
  BY <1>5 DEF DeleteDevice, Tended, DeviceMaps, Opt
<1>6. CASE Run \/ ArpFails \/ EndSweep \/ QueueProbe \/ SkipRow \/ QueueFull \/ ProbesDone
           \/ SaveScan \/ SaveScanFails \/ SkipSave \/ UNCHANGED vars
  BY <1>1, <1>6 DEF Run, StartOnTick, StartOnTrigger, Return, ArpFails, EndSweep, QueueProbe, SkipRow,
     QueueFull, ProbesDone, SaveScan, SaveScanFails, SkipSave, store, vars
<1>7. CASE TickerFires \/ Trigger \/ Stop \/ SaveByOthers
  BY <1>1, <1>7 DEF TickerFires, Trigger, Stop, SaveByOthers, store
<1>8. QED
  BY <1>2, <1>3, <1>4, <1>5, <1>6, <1>7 DEF Next, ScanSteps, Others

-----------------------------------------------------------------------------
(* Types, phase by phase. *)

\* The steps that wait, start or end something and leave what scan knows.
Waits ==
  \/ StartOnTick \/ StartOnTrigger \/ Return \/ ArpFails
  \/ EndSweep \/ ProbesDone \/ Trigger \/ Stop

LEMMA WaitsStep ==
  ASSUME Types, ByPhase, Waits
  PROVE  Types' /\ ByPhase' /\ UNCHANGED <<store, scan>>
<1> USE DEF Waits, store, scan, signals
<1>1. UNCHANGED <<store, scan>>
  BY DEF StartOnTick, StartOnTrigger, Return, ArpFails, EndSweep, ProbesDone, Trigger, Stop
<1>2. phase' \in Phases /\ trigger' \in BOOLEAN /\ tick' \in BOOLEAN
      /\ stopped' \in BOOLEAN /\ owed' \in BOOLEAN
  BY DEF StartOnTick, StartOnTrigger, Return, ArpFails, EndSweep, ProbesDone, Trigger, Stop, Types, Phases
<1>3. Types'
  BY <1>1, <1>2 DEF Types
<1>4. ByPhase'
  BY <1>1 DEF StartOnTick, StartOnTrigger, Return, ArpFails, EndSweep, ProbesDone, Trigger, Stop, ByPhase
<1>5. QED
  BY <1>1, <1>3, <1>4

LEMMA ApplyScanStep ==
  ASSUME Types, ByPhase, NEW table \in ArpTables, ApplyScan(table)
  PROVE  Types' /\ ByPhase'
<1> USE DEF ApplyScan, signals
<1>1. devices' \in DeviceMaps
  <2>1. \A i \in DOMAIN table : table[i] \in SeenDevice
    BY SeenRows
  <2>2. 0 \in Time
    BY TimeAssumption DEF Time
  <2>3. QED
    BY <2>1, <2>2, ObserveDevices DEF Types
<1>2. Len(table) \in Nat /\ row = 1 /\ material' \in BOOLEAN
  BY SeenRows DEF ByPhase, Material
<1>3. row' \in 1 .. Len(seen') + 1
  BY <1>2
<1>4. Types'
  BY <1>1, <1>2, <1>3 DEF Types, Phases
<1>5. ByPhase'
  BY DEF ByPhase
<1>6. QED
  BY <1>4, <1>5

\* A name for a device.
LEMMA NamesStep ==
  ASSUME Types, ByPhase,
         NameSelf \/ \E j \in jobs, name \in Opt(Names) : ProbeEnds(j, name)
  PROVE  Types' /\ ByPhase' /\ (material' = TRUE \/ UNCHANGED <<devices, material>>)
<1> USE DEF signals
<1>1. devices' \in DeviceMaps /\ (material' = TRUE \/ UNCHANGED <<devices, material>>)
  <2>1. CASE NameSelf
    BY <2>1, HostnameTended, ScannerAssumption DEF NameSelf, Types, Tended
  <2>2. CASE \E j \in jobs, name \in Opt(Names) : ProbeEnds(j, name)
    BY <2>2, HostnameTended DEF ProbeEnds, Types, Job, Tended
  <2>3. QED
    BY <2>1, <2>2
<1>2. row' \in 1 .. Len(seen') + 1 /\ phase' \in Phases
  <2>1. Len(seen) \in Nat
    BY SeenRows DEF Types
  <2>2. QED
    BY <2>1 DEF NameSelf, ProbeEnds, Types, Phases
<1>3. Types'
  <2>1. jobs' \subseteq jobs /\ UNCHANGED <<saved, failed, seen, probed, signals>>
    BY DEF NameSelf, ProbeEnds
  <2>2. QED
    BY <1>1, <1>2, <2>1 DEF Types
<1>4. ByPhase'
  BY <1>1 DEF NameSelf, ProbeEnds, ByPhase
<1>5. QED
  BY <1>1, <1>3, <1>4

LEMMA QueueStep ==
  ASSUME Types, ByPhase, QueueProbe \/ SkipRow \/ QueueFull
  PROVE  Types' /\ ByPhase' /\ UNCHANGED <<store, seen, material>>
<1> USE DEF store, signals
<1>1. UNCHANGED <<store, seen, material>>
  BY DEF QueueProbe, SkipRow, QueueFull
<1>2. Len(seen) \in Nat /\ DOMAIN seen = 1 .. Len(seen)
      /\ \A i \in DOMAIN seen : seen[i] \in SeenDevice /\ seen[i].mac \in MACs
  BY SeenRows DEF Types
<1>3. row' \in 1 .. Len(seen) + 1 /\ phase' \in Phases
  BY <1>2 DEF QueueProbe, SkipRow, QueueFull, Types, Phases
<1>4. jobs' \subseteq Job /\ probed' \in [MACs -> Opt(Probe)]
  <2>1. CASE QueueProbe
    <3>1. seen[row].mac \in MACs /\ seen[row].ip \in IPs
      BY <1>2, <2>1 DEF QueueProbe, Probeable, Types, SeenDevice, Opt
    <3>2. [mac |-> seen[row].mac, ip |-> seen[row].ip] \in Job
      BY <3>1 DEF Job
    <3>3. [age |-> 0, ip |-> seen[row].ip] \in Probe
      BY <3>1, ScannerAssumption DEF Probe, Ages, Opt
    <3>4. QED
      BY <2>1, <3>1, <3>2, <3>3 DEF QueueProbe, Types, Opt
  <2>2. CASE SkipRow \/ QueueFull
    BY <2>2 DEF SkipRow, QueueFull, Types
  <2>3. QED
    BY <2>1, <2>2
<1>5. UNCHANGED signals
  BY DEF QueueProbe, SkipRow, QueueFull
<1>6. Types'
  BY <1>1, <1>3, <1>4, <1>5 DEF Types
<1>7. ByPhase'
  BY DEF QueueProbe, SkipRow, QueueFull, ByPhase
<1>8. QED
  BY <1>1, <1>6, <1>7

LEMMA VendorsStep ==
  ASSUME Types, ByPhase, FillVendors
  PROVE  Types' /\ ByPhase' /\ (material' = TRUE \/ UNCHANGED <<devices, material>>)
<1> USE DEF FillVendors, signals
<1>1. devices' \in DeviceMaps /\ (material' = TRUE \/ UNCHANGED <<devices, material>>)
  BY VendorsTended DEF Types, Tended
<1>2. Types'
  BY <1>1 DEF Types, Phases
<1>3. ByPhase'
  BY DEF ByPhase
<1>4. QED
  BY <1>1, <1>2, <1>3

LEMMA SavesStep ==
  ASSUME Types, ByPhase, SaveScan \/ SaveScanFails \/ SkipSave
  PROVE  Types' /\ ByPhase'
<1> USE DEF EndScan, store, signals
<1>1. seen' = <<>> /\ row' \in 1 .. Len(seen') + 1
  BY DEF SaveScan, SaveScanFails, SkipSave
<1>2. Types'
  BY <1>1 DEF SaveScan, SaveScanFails, SkipSave, Types, Phases
<1>3. ByPhase'
  BY DEF SaveScan, SaveScanFails, SkipSave, ByPhase
<1>4. QED
  BY <1>2, <1>3

LEMMA OthersStep ==
  ASSUME Types, ByPhase, (\E m \in MACs : DeleteDevice(m)) \/ SaveByOthers
  PROVE  Types' /\ ByPhase'
<1> USE DEF scan, signals
<1>1. devices' \in DeviceMaps /\ saved' \in DeviceMaps /\ failed' \in BOOLEAN
  BY DEF DeleteDevice, SaveByOthers, Types, DeviceMaps, Opt
<1>2. UNCHANGED <<phase, scan, signals>>
  BY DEF DeleteDevice, SaveByOthers
<1>3. QED
  BY <1>1, <1>2 DEF Types, ByPhase

LEMMA SmallerOfTwo ==
  ASSUME NEW x \in Nat, NEW y \in Nat
  PROVE  Min({x, y}) \in {x, y} /\ Min({x, y}) <= y
<1>1. \E z \in {x, y} : \A w \in {x, y} : z <= w
  OBVIOUS
<1>2. QED
  BY <1>1 DEF Min

LEMMA TickerStep ==
  ASSUME Types, ByPhase, TickerFires
  PROVE  Types' /\ ByPhase' /\ UNCHANGED <<store, seen, row, jobs, material>>
<1> USE DEF TickerFires, store
<1>1. ASSUME NEW m \in MACs PROVE probed'[m] \in Opt(Probe)
  <2>1. CASE probed[m] = None
    BY <2>1 DEF Opt
  <2>2. CASE probed[m] # None
    <3>1. probed[m] \in Probe
      BY <2>2 DEF Types, Opt
    <3>2. Min({probed[m].age + Interval, ReprobeAfter + 1}) \in Ages
      <4>1. /\ probed[m].age + Interval \in Nat /\ ReprobeAfter + 1 \in Nat
        BY <3>1, ScannerAssumption DEF Probe, Ages
      <4> DEFINE x == probed[m].age + Interval
                 y == ReprobeAfter + 1
      <4>2. Min({x, y}) \in {x, y} /\ Min({x, y}) <= y
        BY <4>1, SmallerOfTwo
      <4> HIDE DEF x, TickerFires
      <4>3. Min({x, y}) \in Nat
        BY <4>1, <4>2 DEF x
      <4>4. QED
        BY <4>1, <4>2, <4>3 DEF x, Ages
    <3>3. QED
      BY <2>2, <3>1, <3>2 DEF Probe, Opt
  <2>3. QED
    BY <2>1, <2>2
<1>2. QED
  BY <1>1 DEF Types, ByPhase

LEMMA RestartStep ==
  ASSUME Types, Restart
  PROVE  Types' /\ ByPhase'
<1>1. seen' = <<>> /\ row' \in 1 .. Len(seen') + 1
  BY DEF Restart
<1>2. Types'
  BY <1>1 DEF Restart, Types, Phases, Opt
<1>3. ByPhase'
  BY DEF Restart, ByPhase
<1>4. QED
  BY <1>2, <1>3

LEMMA TypesStep ==
  ASSUME Types, ByPhase, [Next]_vars
  PROVE  Types' /\ ByPhase'
<1>1. CASE UNCHANGED vars
  BY <1>1 DEF vars, Types, ByPhase
<1>2. CASE Next
  BY <1>2, WaitsStep, ApplyScanStep, NamesStep, QueueStep, VendorsStep, SavesStep, OthersStep,
     TickerStep, RestartStep DEF Next, Run, ScanSteps, Others, Waits
<1>3. QED
  BY <1>1, <1>2

-----------------------------------------------------------------------------
(* What scan knows. *)

LEMMA EnoughStep ==
  ASSUME IInv, [Next]_vars
  PROVE  Enough'
<1> USE DEF IInv, Enough
<1>0. Cardinality(jobs) \in Nat /\ MaxProbes \in Nat
  BY FS_CardinalityType, ScannerAssumption
<1>1. CASE QueueProbe
  <2> DEFINE x == [mac |-> seen[row].mac, ip |-> seen[row].ip]
             more == jobs \cup {x}
  <2>1. IsFiniteSet(more)
        /\ Cardinality(more) = IF x \in jobs THEN Cardinality(jobs) ELSE Cardinality(jobs) + 1
    BY FS_AddElement
  <2>2. jobs' = more /\ Cardinality(jobs) < MaxProbes
    BY <1>1 DEF QueueProbe
  <2> HIDE DEF x, more
  <2>3. Cardinality(more) <= MaxProbes
    BY <1>0, <2>1, <2>2
  <2>4. QED
    BY <2>1, <2>2, <2>3
<1>2. CASE \E j \in jobs, name \in Opt(Names) : ProbeEnds(j, name)
  <2>1. PICK j \in jobs : jobs' = jobs \ {j}
    BY <1>2 DEF ProbeEnds
  <2> DEFINE less == jobs \ {j}
  <2>2. IsFiniteSet(less)
        /\ Cardinality(less) = IF j \in jobs THEN Cardinality(jobs) - 1 ELSE Cardinality(jobs)
    BY FS_RemoveElement
  <2>3. jobs' = less
    BY <2>1
  <2> HIDE DEF less
  <2>4. Cardinality(less) <= MaxProbes
    BY <1>0, <2>1, <2>2
  <2>5. QED
    BY <2>2, <2>3, <2>4
<1>3. CASE jobs' = jobs
  BY <1>3
<1>4. CASE QueueFull \/ Restart
  <2>1. jobs' = jobs \/ jobs' = {}
    BY <1>4 DEF QueueFull, Restart
  <2>2. IsFiniteSet({}) /\ Cardinality({}) <= MaxProbes
    BY <1>0, FS_EmptySet
  <2>3. QED
    BY <2>1, <2>2
<1>5. CASE Run \/ ArpFails \/ EndSweep \/ NameSelf \/ SkipRow \/ ProbesDone \/ FillVendors
           \/ (\E table \in ArpTables : ApplyScan(table)) \/ UNCHANGED vars
  BY <1>3, <1>5 DEF Run, StartOnTick, StartOnTrigger, Return, ArpFails, EndSweep, NameSelf, SkipRow,
     ProbesDone, FillVendors, ApplyScan, scan, vars
<1>6. CASE SaveScan \/ SaveScanFails \/ SkipSave \/ TickerFires \/ Trigger \/ Stop
           \/ (\E m \in MACs : DeleteDevice(m)) \/ SaveByOthers
  BY <1>3, <1>6 DEF SaveScan, SaveScanFails, SkipSave, EndScan, TickerFires, Trigger, Stop,
     DeleteDevice, SaveByOthers, scan
<1>7. QED
  BY <1>1, <1>2, <1>4, <1>5, <1>6 DEF Next, ScanSteps, Others

\* A scan that finds nothing material leaves the devices as they are saved.
LEMMA ApplyScanKnown ==
  ASSUME IInv, NEW table \in ArpTables, ApplyScan(table)
  PROVE  KnownToDiffer'
<1> USE DEF ApplyScan, IInv, KnownToDiffer
<1>1. \A i \in DOMAIN table : table[i] \in SeenDevice
  BY SeenRows
<1>2. devices \in DeviceMaps /\ 0 \in Time /\ ~material
  BY TimeAssumption DEF Types, ByPhase, Time
<1>3. ~Material(devices, table) => devices' = devices
  BY <1>1, <1>2, ObserveImmaterial DEF Stamped
<1>4. ASSUME NEW m \in MACs, devices'[m] # None PROVE devices'[m].lastSeen = 0
  <2>1. CASE RowsOf(table, m) = {}
    BY <1>4, <2>1 DEF Observe, Stamped
  <2>2. CASE RowsOf(table, m) # {}
    BY <1>1, <1>2, <2>2, ObserveDevices
  <2>3. QED
    BY <2>1, <2>2
<1>5. QED
  BY <1>2, <1>3, <1>4 DEF Stamped

LEMMA KnownStep ==
  ASSUME IInv, [Next]_vars
  PROVE  KnownToDiffer'
<1> USE DEF IInv, KnownToDiffer
<1>1. CASE \E table \in ArpTables : ApplyScan(table)
  BY <1>1, ApplyScanKnown
<1>2. CASE Restart
  BY <1>2 DEF Restart
<1>3. CASE ~(\E table \in ArpTables : ApplyScan(table)) /\ ~Restart
  <2>1. Stamped(devices')
    BY <1>3, AllTend DEF Tended, Stamped
  <2>2. CASE NameSelf \/ (\E j \in jobs, name \in Opt(Names) : ProbeEnds(j, name))
    BY <2>1, <2>2, NamesStep DEF NameSelf, ProbeEnds
  <2>3. CASE FillVendors
    BY <2>1, <2>3, VendorsStep DEF FillVendors
  <2>4. CASE SaveScan \/ SaveScanFails \/ SkipSave \/ (\E m \in MACs : DeleteDevice(m)) \/ SaveByOthers
    BY <2>1, <2>4 DEF SaveScan, SaveScanFails, SkipSave, EndScan, DeleteDevice, SaveByOthers, store, Types
  <2>5. CASE Waits \/ QueueProbe \/ SkipRow \/ QueueFull \/ TickerFires \/ UNCHANGED vars
    <3>1. UNCHANGED <<store, material>>
      BY <2>5, WaitsStep, QueueStep, TickerStep DEF vars, scan, store
    <3>2. QED
      BY <3>1 DEF store
  <2>6. QED
    BY <1>3, <2>2, <2>3, <2>4, <2>5 DEF Next, Run, ScanSteps, Others, Waits
<1>4. QED
  BY <1>1, <1>2, <1>3

\* A probe asks the address of a row.
LEMMA JobsStep ==
  ASSUME IInv, [Next]_vars
  PROVE  \A j \in jobs' : \E i \in DOMAIN seen' : seen'[i].mac = j.mac /\ seen'[i].ip = j.ip
<1> USE DEF IInv, AddressesSeen
<1>1. CASE jobs' \subseteq jobs /\ seen' = seen
  BY <1>1
<1>2. CASE jobs' = {}
  BY <1>2
<1>3. CASE QueueProbe
  <2> DEFINE x == [mac |-> seen[row].mac, ip |-> seen[row].ip]
  <2>1. row \in DOMAIN seen /\ x.mac = seen[row].mac /\ x.ip = seen[row].ip
    BY <1>3, SeenRows DEF QueueProbe, Types
  <2>2. jobs' = jobs \cup {x} /\ seen' = seen
    BY <1>3 DEF QueueProbe
  <2> HIDE DEF x
  <2>3. QED
    BY <2>1, <2>2
<1>4. CASE (\E table \in ArpTables : ApplyScan(table)) \/ SaveScan \/ SaveScanFails \/ SkipSave \/ Restart
  BY <1>2, <1>4 DEF ApplyScan, SaveScan, SaveScanFails, SkipSave, EndScan, Restart, ByPhase
<1>5. CASE Run \/ ArpFails \/ EndSweep \/ NameSelf \/ SkipRow \/ QueueFull \/ ProbesDone \/ FillVendors
           \/ (\E j \in jobs, name \in Opt(Names) : ProbeEnds(j, name)) \/ UNCHANGED vars
  BY <1>1, <1>5 DEF Run, StartOnTick, StartOnTrigger, Return, ArpFails, EndSweep, NameSelf, SkipRow,
     QueueFull, ProbesDone, FillVendors, ProbeEnds, scan, vars
<1>6. CASE TickerFires \/ Trigger \/ Stop \/ (\E m \in MACs : DeleteDevice(m)) \/ SaveByOthers
  BY <1>1, <1>6 DEF TickerFires, Trigger, Stop, DeleteDevice, SaveByOthers, scan
<1>7. QED
  BY <1>3, <1>4, <1>5, <1>6 DEF Next, ScanSteps, Others

\* A device keeps the address of its row.
AtTheirAddress(devs, rows) ==
  \A i \in DOMAIN rows : rows[i].ip # None /\ devs[rows[i].mac] # None
                           => devs[rows[i].mac].ip = rows[i].ip

LEMMA AppliedAtTheirAddress ==
  ASSUME IInv, NEW table \in ArpTables, ApplyScan(table),
         \A i, j \in DOMAIN table : table[i].mac = table[j].mac => i = j
  PROVE  AtTheirAddress(devices', table)
<1>1. DOMAIN table \subseteq Nat /\ \A i \in DOMAIN table : table[i] \in SeenDevice /\ table[i].mac \in MACs
  BY SeenRows
<1>2. devices' = Observe(devices, table, 0) /\ devices \in DeviceMaps /\ 0 \in Time
  BY TimeAssumption DEF ApplyScan, IInv, Types, Time
<1>3. SUFFICES ASSUME NEW i \in DOMAIN table, table[i].ip # None
               PROVE  devices'[table[i].mac].ip = table[i].ip
  BY DEF AtTheirAddress
<1> DEFINE m == table[i].mac
<1>4. m \in MACs /\ i \in RowsOf(table, m)
  BY <1>1 DEF RowsOf
<1>5. SeenIP(table, m, Before(devices, m, 0).ip) = table[i].ip
  BY <1>1, <1>3, SeenIPOfOne
<1>6. devices'[m].ip = SeenIP(table, m, Before(devices, m, 0).ip)
  BY <1>1, <1>2, <1>4, ObserveDevices
<1>7. QED
  BY <1>5, <1>6

LEMMA AddressesStep ==
  ASSUME IInv, [Next]_vars
  PROVE  AddressesSeen'
<1> DEFINE Mid == phase \in {"self", "queue", "answers"}
<1>1. CASE \E table \in ArpTables : ApplyScan(table)
  <2>1. PICK table \in ArpTables : ApplyScan(table)
    BY <1>1
  <2>2. seen' = table
    BY <2>1 DEF ApplyScan
  <2>3. OneRowEach' => AtTheirAddress(devices', seen')
    BY <2>1, <2>2, AppliedAtTheirAddress DEF OneRowEach
  <2>4. QED
    BY <2>3, JobsStep DEF AddressesSeen, AtTheirAddress
<1>2. CASE ~(\E table \in ArpTables : ApplyScan(table)) /\ ~Restart
  <2>1. Tended
    BY <1>2, AllTend
  <2>2. Mid' => Mid /\ seen' = seen
    BY <1>2 DEF Next, Run, StartOnTick, StartOnTrigger, Return, ScanSteps, EndSweep, NameSelf, QueueProbe,
       SkipRow, QueueFull, ProbeEnds, ProbesDone, FillVendors, SaveScan, SaveScanFails, SkipSave, EndScan,
       ArpFails, Others, TickerFires, Trigger, Stop, DeleteDevice, SaveByOthers, scan, vars
  <2>3. \A i \in DOMAIN seen : seen[i].mac \in MACs
    BY SeenRows DEF IInv, Types
  <2>4. ASSUME Mid', OneRowEach'
        PROVE  AtTheirAddress(devices', seen')
    <3>1. AtTheirAddress(devices, seen)
      BY <2>2, <2>4 DEF IInv, AddressesSeen, AtTheirAddress, OneRowEach
    <3>2. QED
      BY <2>1, <2>2, <2>3, <2>4, <3>1 DEF Tended, AtTheirAddress
  <2>5. QED
    BY <2>4, JobsStep DEF AddressesSeen, AtTheirAddress
<1>3. CASE Restart
  BY <1>3 DEF Restart, AddressesSeen
<1>4. QED
  BY <1>1, <1>2, <1>3

-----------------------------------------------------------------------------
(* The invariant, and what follows from it. *)

LEMMA InitInv == Init => IInv
<1> SUFFICES ASSUME Init PROVE IInv
  OBVIOUS
<1>1. NoDevices \in DeviceMaps /\ Stamped(NoDevices)
  BY DEF NoDevices, DeviceMaps, Opt, Stamped
<1>2. Enough
  <2>1. MaxProbes \in Nat
    BY ScannerAssumption
  <2>2. QED
    BY <2>1, FS_EmptySet DEF Init, Enough
<1>3. Types
  <2>1. row \in 1 .. Len(seen) + 1
    BY DEF Init
  <2>2. probed \in [MACs -> Opt(Probe)]
    BY DEF Init, Opt
  <2>3. QED
    BY <1>1, <2>1, <2>2 DEF Init, Types, Phases
<1>4. ByPhase /\ KnownToDiffer /\ AddressesSeen
  BY <1>1 DEF Init, ByPhase, KnownToDiffer, AddressesSeen
<1>5. QED
  BY <1>2, <1>3, <1>4 DEF IInv

LEMMA NextInv == IInv /\ [Next]_vars => IInv'
<1> SUFFICES ASSUME IInv, [Next]_vars PROVE IInv'
  OBVIOUS
<1>1. Types' /\ ByPhase'
  BY TypesStep DEF IInv
<1>2. Enough' /\ KnownToDiffer' /\ AddressesSeen'
  BY EnoughStep, KnownStep, AddressesStep
<1>3. QED
  BY <1>1, <1>2 DEF IInv

LEMMA Invariant == Spec => []IInv
  BY InitInv, NextInv, PTL DEF Spec

\* Scanner's types, and that a scan never has more probes under way than
\* maxProbesPerScan.
THEOREM ScannerTypes == Spec => []TypeOK
<1>1. IInv => TypeOK
  BY DEF IInv, Types, Enough, TypeOK
<1>2. QED
  BY <1>1, Invariant, PTL

\* A scan saves whatever it changed beyond a time stamp: once Run waits again
\* and no save has failed, the file holds the devices as readers see them.
THEOREM ScansAreSaved == Spec => []MaterialIsSaved
<1>1. IInv => MaterialIsSaved
  BY DEF IInv, ByPhase, KnownToDiffer, MaterialIsSaved
<1>2. QED
  BY <1>1, Invariant, PTL

\* SetDiscoveredHostname and fillVendors never create a device.
THEOREM DeletionsLast == Spec => DeletedStaysDeleted
<1> DEFINE Made(m) == devices[m] = None /\ devices'[m] # None
           Read == phase = "read" /\ phase' = "self"
           Back(m) == phase' = "sweep" /\ saved[m] # None
<1>1. IInv /\ [Next]_vars => [\A m \in MACs : Made(m) => Read \/ Back(m)]_vars
  <2> SUFFICES ASSUME IInv, [Next]_vars, NEW m \in MACs, Made(m)
               PROVE  Read \/ Back(m)
    OBVIOUS
  <2>1. CASE \E table \in ArpTables : ApplyScan(table)
    BY <2>1 DEF ApplyScan
  <2>2. CASE Restart
    BY <2>2 DEF Restart
  <2>3. CASE ~(\E table \in ArpTables : ApplyScan(table)) /\ ~Restart
    BY <2>3, AllTend DEF Tended
  <2>4. QED
    BY <2>1, <2>2, <2>3
<1>2. QED
  BY <1>1, Invariant, PTL DEF Spec, DeletedStaysDeleted

\* probeHostnames waits for its probes before the next scan can move a
\* device: the name stored is that of the address the device has.
THEOREM AnswersFindTheirDevice == Spec => NamesComeFromCurrentAddress
<1> DEFINE Named(m) == /\ devices[m] # None /\ devices'[m] # None
                       /\ devices'[m].hostname # devices[m].hostname
                       /\ phase = "answers" /\ phase' = "answers" /\ OneRowEach
           Asked(m) == [mac |-> m, ip |-> devices[m].ip] \in jobs
<1>1. IInv /\ [Next]_vars => [\A m \in MACs : Named(m) => Asked(m)]_vars
  <2> SUFFICES ASSUME IInv, [Next]_vars, NEW m \in MACs, Named(m)
               PROVE  Asked(m)
    OBVIOUS
  <2>1. devices'[m] # devices[m]
    OBVIOUS
  <2>2. \E j \in jobs, name \in Opt(Names) : ProbeEnds(j, name)
    BY <2>1 DEF Next, Run, StartOnTick, StartOnTrigger, Return, ScanSteps, EndSweep, ApplyScan, NameSelf,
       QueueProbe, SkipRow, QueueFull, ProbesDone, FillVendors, SaveScan, SaveScanFails, SkipSave, EndScan,
       ArpFails, Others, TickerFires, Trigger, Stop, DeleteDevice, SaveByOthers, Restart, store, vars,
       IInv, Types, DeviceMaps
  <2>3. PICK j \in jobs, name \in Opt(Names) : ProbeEnds(j, name)
    BY <2>2
  <2>4. j \in Job /\ j.mac = m
    BY <2>1, <2>3, HostnameTended DEF ProbeEnds, IInv, Types, Job
  <2>5. PICK i \in DOMAIN seen : seen[i].mac = j.mac /\ seen[i].ip = j.ip
    BY DEF IInv, AddressesSeen
  <2>6. j.ip # None
    BY <2>4, NoneAssumption DEF Job
  <2>7. devices[m].ip = j.ip
    BY <2>4, <2>5, <2>6 DEF IInv, AddressesSeen
  <2>8. j = [mac |-> m, ip |-> devices[m].ip]
    BY <2>4, <2>7 DEF Job
  <2>9. QED
    BY <2>8
<1>2. QED
  BY <1>1, Invariant, PTL DEF Spec, NamesComeFromCurrentAddress
=============================================================================
