------------------------------ MODULE Scanner ------------------------------
(***************************************************************************)
(* internal/scanner on top of the store: the Run loop, the phases of one   *)
(* scan, the bookkeeping of the host name probes, and the requests of the  *)
(* web API that fall between any two of its steps.                         *)
(*                                                                         *)
(* The store is used as Registry describes it: readers see "devices", a    *)
(* save that succeeds makes them durable as a whole, a save that fails     *)
(* changes nothing but is remembered here.  Mappings play no part in a     *)
(* scan.  The time of a probe is kept as its age in units of Elapsed       *)
(* time, which is all that reprobeAfter is compared with; LastSeen is the  *)
(* subject of Store.                                                       *)
(***************************************************************************)
EXTENDS StoreData, FiniteSetsExt

CONSTANTS
  ArpTables,     \* what readARPTable and fillSelf can yield: sequences of rows
  SelfName,      \* os.Hostname up to its first dot
  VendorOf,      \* the OUI table
  MaxProbes,     \* maxProbesPerScan
  Interval,      \* scan_interval, in units of time
  ReprobeAfter   \* reprobeAfter, in the same units

ASSUME ScannerAssumption ==
  /\ \A t \in ArpTables : t \in Seq(SeenDevice) /\ \A i \in DOMAIN t : t[i].mac # None
  /\ SelfName \in Opt(Names)
  /\ VendorOf \in [MACs -> Opt(Vendors)]
  /\ MaxProbes \in Nat \ {0} /\ Interval \in Nat \ {0} /\ ReprobeAfter \in Nat

VARIABLES
  devices,    \* the store's devices, as readers see them
  saved,      \* the devices in the state file
  failed,     \* history: the last attempt to save failed
  phase,      \* where Run is
  seen,       \* the rows of the scan in progress
  row,        \* the row probeHostnames looks at
  jobs,       \* probes queued or in progress
  probed,     \* probedAt and probedIP: age and address of the last probe
  material,   \* scan's local variable
  trigger,    \* the channel Trigger fills, of capacity 1
  tick,       \* the ticker's channel, of capacity 1
  stopped,    \* ctx is cancelled
  owed        \* history: a trigger that no scan has started after

vars == <<devices, saved, failed, phase, seen, row, jobs, probed, material,
          trigger, tick, stopped, owed>>
store == <<devices, saved, failed>>
scan == <<seen, row, jobs, probed, material>>
signals == <<trigger, tick, stopped, owed>>

Phases == {"sweep", "read", "self", "queue", "answers", "vendors", "save", "wait", "done"}
Ages == 0 .. ReprobeAfter + 1
Probe == [age : Ages, ip : Opt(IPs)]
Job == [mac : MACs, ip : IPs]

\* A first start: no state file, and Run scans at once.
Init ==
  /\ devices = NoDevices /\ saved = NoDevices /\ failed = FALSE
  /\ phase = "sweep"
  /\ seen = <<>> /\ row = 1 /\ jobs = {} /\ material = FALSE
  /\ probed = [m \in MACs |-> None]
  /\ trigger = FALSE /\ tick = FALSE /\ stopped = FALSE /\ owed = FALSE

-----------------------------------------------------------------------------
(* Run: a select over the cancelled context, the ticker and the trigger. *)

StartOnTick ==
  /\ phase = "wait" /\ tick
  /\ phase' = "sweep" /\ tick' = FALSE /\ owed' = FALSE
  /\ UNCHANGED <<store, scan, trigger, stopped>>

StartOnTrigger ==
  /\ phase = "wait" /\ trigger
  /\ phase' = "sweep" /\ trigger' = FALSE /\ owed' = FALSE
  /\ UNCHANGED <<store, scan, tick, stopped>>

\* Mutant of Return: the other cases of the select come first.
ReturnLast ==
  /\ phase = "wait" /\ stopped /\ ~tick /\ ~trigger
  /\ phase' = "done"
  /\ UNCHANGED <<store, scan, signals>>

Return ==
  /\ phase = "wait" /\ stopped
  /\ phase' = "done"
  /\ UNCHANGED <<store, scan, signals>>

-----------------------------------------------------------------------------
(* One scan. *)

\* The sweep and the time to settle end early when ctx is cancelled.
EndSweep ==
  /\ phase = "sweep"
  /\ phase' = IF stopped THEN "wait" ELSE "read"
  /\ UNCHANGED <<store, scan, signals>>

\* The ARP table cannot be read: the scan ends here.
ArpFails ==
  /\ phase = "read"
  /\ phase' = "wait"
  /\ UNCHANGED <<store, scan, signals>>

\* The table is read and applied; ApplyScan marks the store dirty but does
\* not save.
ApplyScan(table) ==
  /\ phase = "read"
  /\ phase' = "self"
  /\ seen' = table
  /\ devices' = Observe(devices, table, 0)
  /\ material' = Material(devices, table)
  /\ UNCHANGED <<saved, failed, row, jobs, probed, signals>>

\* SetDiscoveredHostname: a device that was deleted in the meantime stays
\* deleted, and only a name that differs is worth a save.
IsNews(m, name) ==
  name # None /\ devices[m] # None /\ devices[m].hostname # name

\* Mutant of SetDiscoveredHostname: a device that is not there is created.
SetHostnameOfAny(m, name) ==
  IF name # None /\ (devices[m] = None \/ devices[m].hostname # name)
  THEN devices' = [devices EXCEPT ![m] = [Before(devices, m, 0) EXCEPT !.hostname = name]]
       /\ material' = TRUE
  ELSE UNCHANGED <<devices, material>>

SetDiscoveredHostname(m, name) ==
  IF IsNews(m, name)
  THEN devices' = [devices EXCEPT ![m].hostname = name] /\ material' = TRUE
  ELSE UNCHANGED <<devices, material>>

IsSelf(m) == \E i \in RowsOf(seen, m) : seen[i].self

\* This machine's own name needs no probe.  Its MAC address and its IP address
\* are found together or not at all (netinfo.go:50-55, 75-77), and then the
\* scan has its row.
NameSelf ==
  /\ phase = "self"
  /\ phase' = "queue" /\ row' = 1
  /\ \/ \E m \in MACs : IsSelf(m) /\ SetDiscoveredHostname(m, SelfName)
     \/ (\A m \in MACs : ~IsSelf(m)) /\ UNCHANGED <<devices, material>>
  /\ UNCHANGED <<saved, failed, seen, jobs, probed, signals>>

\* Mutant of WantsProbe: reprobeAfter is not observed.
WantsProbeAgain(m, ip) ==
  devices[m].hostname = None \/ (probed[m] # None /\ probed[m].ip # ip)

\* The test of probeHostnames for a row of a known device.
WantsProbe(m, ip) ==
  IF probed[m] = None THEN devices[m].hostname = None
  ELSE \/ devices[m].hostname = None /\ probed[m].age > ReprobeAfter
       \/ probed[m].ip # ip

Probeable(r) ==
  /\ ~r.self /\ r.ip # None /\ devices[r.mac] # None
  /\ WantsProbe(r.mac, r.ip)

\* Mutant of QueueProbe: no limit on the probes of a scan.
QueueProbeUnlimited ==
  /\ phase = "queue" /\ row <= Len(seen)
  /\ Probeable(seen[row])
  /\ jobs' = jobs \cup {[mac |-> seen[row].mac, ip |-> seen[row].ip]}
  /\ probed' = [probed EXCEPT ![seen[row].mac] = [age |-> 0, ip |-> seen[row].ip]]
  /\ row' = row + 1
  /\ UNCHANGED <<store, phase, seen, material, signals>>

QueueProbe ==
  /\ phase = "queue" /\ row <= Len(seen) /\ Cardinality(jobs) < MaxProbes
  /\ Probeable(seen[row])
  /\ jobs' = jobs \cup {[mac |-> seen[row].mac, ip |-> seen[row].ip]}
  /\ probed' = [probed EXCEPT ![seen[row].mac] = [age |-> 0, ip |-> seen[row].ip]]
  /\ row' = row + 1
  /\ UNCHANGED <<store, phase, seen, material, signals>>

SkipRow ==
  /\ phase = "queue" /\ row <= Len(seen) /\ Cardinality(jobs) < MaxProbes
  /\ ~Probeable(seen[row])
  /\ row' = row + 1
  /\ UNCHANGED <<store, phase, seen, jobs, probed, material, signals>>

\* All rows were looked at, or the scan has all the probes it may make.  A
\* cancelled ctx drops them, though they were booked as made.
QueueFull ==
  /\ phase = "queue"
  /\ row > Len(seen) \/ Cardinality(jobs) >= MaxProbes
  /\ phase' = "answers"
  /\ jobs' = IF stopped THEN {} ELSE jobs
  /\ UNCHANGED <<store, seen, row, probed, material, signals>>

\* A probe ends, with a name or (name = None) without one, in any order.
ProbeEnds(j, name) ==
  /\ phase = "answers" /\ j \in jobs
  /\ jobs' = jobs \ {j}
  /\ SetDiscoveredHostname(j.mac, name)
  /\ UNCHANGED <<saved, failed, phase, seen, row, probed, signals>>

\* Mutant of ProbesDone: the scan does not wait for its probes.
ProbesLeft ==
  /\ phase = "answers"
  /\ phase' = "vendors"
  /\ UNCHANGED <<store, scan, signals>>

\* wg.Wait
ProbesDone ==
  /\ phase = "answers" /\ jobs = {}
  /\ phase' = "vendors"
  /\ UNCHANGED <<store, scan, signals>>

\* fillVendors.  The rows are independent of each other and a deleted device
\* is left alone, so the loop is one step.
Unlabelled == {m \in MACs : /\ RowsOf(seen, m) # {} /\ devices[m] # None
                            /\ devices[m].vendor = None /\ VendorOf[m] # None}

\* Mutant of FillVendors: a vendor found is not worth a save.
FillVendorsQuietly ==
  /\ phase = "vendors"
  /\ phase' = "save"
  /\ devices' = [m \in MACs |-> IF m \in Unlabelled
                                THEN [devices[m] EXCEPT !.vendor = VendorOf[m]]
                                ELSE devices[m]]
  /\ UNCHANGED <<saved, failed, scan, signals>>

FillVendors ==
  /\ phase = "vendors"
  /\ phase' = "save"
  /\ devices' = [m \in MACs |-> IF m \in Unlabelled
                                THEN [devices[m] EXCEPT !.vendor = VendorOf[m]]
                                ELSE devices[m]]
  /\ material' = (material \/ Unlabelled # {})
  /\ UNCHANGED <<saved, failed, seen, row, jobs, probed, signals>>

EndScan ==
  /\ phase = "save" /\ phase' = "wait"
  /\ seen' = <<>> /\ row' = 1 /\ material' = FALSE
  /\ UNCHANGED <<jobs, probed, signals>>

SaveScan ==
  /\ EndScan /\ material
  /\ saved' = devices /\ failed' = FALSE
  /\ UNCHANGED devices

\* A failed save is logged and forgotten.
SaveScanFails ==
  /\ EndScan /\ material
  /\ failed' = TRUE
  /\ UNCHANGED <<devices, saved>>

SkipSave == EndScan /\ ~material /\ UNCHANGED store

-----------------------------------------------------------------------------
(* What happens around the scanner, between any two of its steps. *)

\* The ticker fires, at any moment of a scan; a tick that finds one pending is
\* dropped, but the time has passed.
TickerFires ==
  /\ phase # "done"
  /\ tick' = TRUE
  /\ probed' = [m \in MACs |->
       IF probed[m] = None THEN None
       ELSE [probed[m] EXCEPT !.age = Min({@ + Interval, ReprobeAfter + 1})]]
  /\ UNCHANGED <<store, phase, seen, row, jobs, material, trigger, stopped, owed>>

\* Mutant of Trigger: an unbuffered channel, received from in select only.
TriggerUnbuffered ==
  /\ phase # "done"
  /\ trigger' = (trigger \/ phase = "wait") /\ owed' = TRUE
  /\ UNCHANGED <<store, phase, scan, tick, stopped>>

\* The web API asks for a scan: a send that never blocks.
Trigger ==
  /\ phase # "done"
  /\ trigger' = TRUE /\ owed' = TRUE
  /\ UNCHANGED <<store, phase, scan, tick, stopped>>

\* A signal, or the web server's failure, cancels ctx.
Stop ==
  /\ ~stopped /\ stopped' = TRUE
  /\ UNCHANGED <<store, phase, scan, trigger, tick, owed>>

\* A user deletes a device; DeleteDevice saves, or fails to.
DeleteDevice(m) ==
  /\ devices[m] # None
  /\ devices' = [devices EXCEPT ![m] = None]
  /\ \/ saved' = devices' /\ failed' = FALSE
     \/ saved' = saved /\ failed' = TRUE
  /\ UNCHANGED <<phase, scan, signals>>

\* The other operations that save: mappings, labels, the periodic flush.
SaveByOthers ==
  /\ \/ saved' = devices /\ failed' = FALSE
     \/ saved' = saved /\ failed' = TRUE
  /\ UNCHANGED <<devices, phase, scan, signals>>

\* The process dies and starts again.
Restart ==
  /\ devices' = saved /\ saved' = saved /\ failed' = FALSE
  /\ phase' = "sweep"
  /\ seen' = <<>> /\ row' = 1 /\ jobs' = {} /\ material' = FALSE
  /\ probed' = [m \in MACs |-> None]
  /\ trigger' = FALSE /\ tick' = FALSE /\ stopped' = FALSE /\ owed' = FALSE

-----------------------------------------------------------------------------
Run == StartOnTick \/ StartOnTrigger \/ Return

ScanSteps ==
  \/ EndSweep
  \/ \E table \in ArpTables : ApplyScan(table)
  \/ NameSelf
  \/ QueueProbe \/ SkipRow \/ QueueFull
  \/ \E j \in jobs, name \in Opt(Names) : ProbeEnds(j, name)
  \/ ProbesDone
  \/ FillVendors
  \/ SaveScan \/ SaveScanFails \/ SkipSave

Others ==
  \/ TickerFires \/ Trigger \/ Stop
  \/ \E m \in MACs : DeleteDevice(m)
  \/ SaveByOthers
  \/ Restart

Next == Run \/ ScanSteps \/ ArpFails \/ Others

Spec == Init /\ [][Next]_vars

\* A scan always goes on: every wait in it has a timeout.  select picks at
\* random among the ready cases, so a cancelled ctx is not passed over forever.
\* That the ticker fires is not needed.
Fairness == WF_vars(ScanSteps) /\ WF_vars(Run) /\ SF_vars(Return)

\* A network on which nothing but time and the scanner acts: no restart, no
\* request, and an ARP table that can be read and shows every device at the
\* address it had.  A scan is over before the second next tick.
Timely == TickerFires /\ ~tick

Calm ==
  \/ Run \/ Timely
  \/ ScanSteps /\ (phase = "read" /\ phase' = "self" =>
       \A m \in MACs : devices[m] # None =>
         /\ RowsOf(seen', m) # {}
         /\ \A i \in RowsOf(seen', m) : seen'[i].ip = devices[m].ip)

QuietSpec == Init /\ [][Calm]_vars /\ Fairness /\ WF_vars(Timely)

-----------------------------------------------------------------------------
(* Properties *)

TypeOK ==
  /\ devices \in DeviceMaps /\ saved \in DeviceMaps /\ failed \in BOOLEAN
  /\ phase \in Phases
  /\ seen \in ArpTables \cup {<<>>}
  /\ row \in 1 .. Len(seen) + 1
  /\ jobs \subseteq Job /\ Cardinality(jobs) <= MaxProbes
  /\ probed \in [MACs -> Opt(Probe)]
  /\ {material, trigger, tick, stopped, owed} \subseteq BOOLEAN

\* Between scans, unless the last save failed, everything a scan has found
\* that is more than a time stamp is in the file: no return value that
\* reports a material change is lost on the way to the save.
MaterialIsSaved == phase \in {"wait", "done"} /\ ~failed => devices = saved

\* Only an observation, or the file a restart reads, creates a device: the
\* answer of a probe, a vendor or a save that comes after the user deleted it
\* does not bring it back.
DeletedStaysDeleted ==
  [][\A m \in MACs : devices[m] = None /\ devices'[m] # None
       => (phase = "read" /\ phase' = "self") \/ (phase' = "sweep" /\ saved[m] # None)]_vars

\* A probe's answer is stored while the device still has the address that was
\* asked, as far as the table it comes from gives one address per device:
\* scans follow each other and each waits for its probes.
OneRowEach == \A i, j \in DOMAIN seen : seen[i].mac = seen[j].mac => i = j

NamesComeFromCurrentAddress ==
  [][\A m \in MACs :
       (/\ devices[m] # None /\ devices'[m] # None
        /\ devices'[m].hostname # devices[m].hostname
        /\ phase = "answers" /\ phase' = "answers" /\ OneRowEach)
         => [mac |-> m, ip |-> devices[m].ip] \in jobs]_vars

\* A scan a user asked for starts after it was asked for, even if it was asked
\* for while another was running and no tick comes, unless the process is told
\* to stop.
TriggerIsServed == owed ~> (~owed \/ stopped)

\* Run returns once ctx is cancelled, whatever phase the scan is in.
RunReturns == stopped ~> (phase = "done" \/ ~stopped)

Nameless == {m \in MACs : devices[m] # None /\ devices[m].hostname = None}
JustAsked(m) == probed[m] # None /\ probed[m].age = 0

\* The nameless devices that come before one cannot use up the probes of every
\* scan: each of them may be asked once in more than reprobeAfter, and in that
\* time scans make MaxProbes * ReprobeAfter / Interval probes.
ProbesForAll ==
  \/ Cardinality(Nameless) <= MaxProbes
  \/ (Cardinality(Nameless) - 1) * Interval <= MaxProbes * ReprobeAfter

\* A device without a name is asked for it again and again, wherever it is in
\* the table and whatever happened before, once the network is calm and the
\* ticker goes on firing, unless the process is told to stop, and as long as the
\* nameless devices are not too many.
NamelessTakeTurns ==
  <>[][Calm]_vars /\ []<>tick /\ <>[]ProbesForAll =>
    \A m \in MACs :
      m \in Nameless ~> (JustAsked(m) \/ m \notin Nameless \/ IsSelf(m) \/ stopped)

\* "probeHostnames resolves hostnames for devices that are [...] still nameless
\* (rate-limited per scan)": each nameless device is asked at least once,
\* however many there are.
NamelessIsProbed ==
  <>[][Calm]_vars /\ []<>tick =>
    \A m \in MACs :
      m \in Nameless ~> (probed[m] # None \/ m \notin Nameless \/ IsSelf(m) \/ stopped)
=============================================================================
