------------------------------ MODULE Tracking ------------------------------
(***************************************************************************)
(* A device, a name mapped to it, and whoever looks: the way from the      *)
(* address the device has, over the kernel's ARP table, the scans and the  *)
(* store, to the DNS answers that clients keep and to the online mark of   *)
(* the web page.                                                           *)
(*                                                                         *)
(* Time is relative: lastSeen of a device is how long ago it was seen, and *)
(* likewise for everything else that ages; Tick lets a unit pass.  A scan  *)
(* is the moment at which it reads the table; the sweep before it makes    *)
(* that moment up to Jitter late.  The address Watched had before a move,  *)
(* or an address that has a new holder, can stay in the ARP table as it    *)
(* was for up to Linger.                                                   *)
(*                                                                         *)
(* The rows of a scan act on one device each (Observe), so the store is    *)
(* kept to Watched; of its neighbours only the addresses matter.           *)
(***************************************************************************)
EXTENDS StoreData, SequencesExt

CONSTANTS
  Interval,    \* scan_interval
  Jitter,      \* bound on the delay of one scan
  MinWindow,   \* the 90 seconds of main.go
  TTL,         \* ttl of the answers
  Linger,      \* bound on the life of an outdated ARP entry
  Watched,     \* a device
  Neighbours,  \* other devices
  Name         \* the host name mapped to it

VARIABLES
  up,        \* the process runs
  devices,   \* Store.devices
  saved,     \* the devices in the state file
  sinceScan, \* since the table was last read
  where,     \* the address of each device, None when it is not there
  ghosts,    \* per address, the device that last left it, and when
  cache,     \* the answer a client has for Name, and its age
  since,     \* history: since Watched came, moved or left; or did not answer a
             \* scan, was deleted, or had no process to see it
  missed     \* history: the scans since one saw Watched; MaxMissed if none did

vars == <<up, devices, saved, sinceScan, where, ghosts, cache, since, missed>>
network == <<where, ghosts>>
process == <<up, devices, saved, sinceScan>>
history == <<since, missed>>

Mapped == [hostname |-> Name, mac |-> Watched, ip |-> None]

onlineWindow == Max({3 * Interval, MinWindow})

Bound == Linger + Interval + Jitter + TTL
MaxSince == Max({Bound, Linger + onlineWindow}) + 1
MaxMissed == 3

ASSUME TrackingAssumption ==
  /\ {Interval, TTL} \subseteq Nat \ {0}
  /\ {Jitter, MinWindow, Linger} \subseteq Nat
  /\ MACs = {Watched} /\ Watched \notin Neighbours /\ Name \in Hosts
  /\ MaxTime > onlineWindow
  /\ IsFiniteSet(IPs)

Stations == {Watched} \cup Neighbours

Ghost == [station : Stations, age : 0 .. Linger]
Answer == [ip : Opt(IPs), age : 0 .. TTL]

Init ==
  /\ up = FALSE
  /\ devices = NoDevices /\ saved = NoDevices
  /\ sinceScan = Interval
  /\ where = [x \in Stations |-> None]
  /\ ghosts = [ip \in IPs |-> None]
  /\ cache = None
  /\ since = 0 /\ missed = MaxMissed

-----------------------------------------------------------------------------
(* The network. *)

Holders(ip) == {x \in Stations : where[x] = ip}
Present == {x \in Stations : where[x] # None}

\* A device arrives at, moves to, or (None) leaves the network.
Goes(x, ip) ==
  /\ where[x] # ip /\ (ip = None \/ Holders(ip) = {})
  /\ where' = [where EXCEPT ![x] = ip]
  /\ ghosts' = IF x \notin Present THEN ghosts
               ELSE [ghosts EXCEPT ![where[x]] = [station |-> x, age |-> 0]]
  /\ since' = IF x = Watched THEN 0 ELSE since
  /\ UNCHANGED <<process, cache, missed>>

\* The addresses with a row of Watched: where it is, if it answers, unless
\* the row is still that of who left the address; where it was, for a while.
MayBeListed(ip) ==
  where[Watched] = ip \/ (ghosts[ip] # None /\ ghosts[ip].station = Watched)
IsListed(ip) ==
  where[Watched] = ip /\ (ghosts[ip] = None \/ ghosts[ip].station = Watched)

\* The rows of Watched, in any order.
Row(ip) == [mac |-> Watched, ip |-> ip, self |-> FALSE]
Orders == UNION {SetToSeqs({Row(ip) : ip \in S}) : S \in SUBSET IPs}
Tables(answers) ==
  LET Lists(rows, ip) == \E k \in DOMAIN rows : rows[k].ip = ip
  IN  {rows \in Orders : \A ip \in IPs :
         /\ Lists(rows, ip) => MayBeListed(ip)
         /\ answers /\ IsListed(ip) => Lists(rows, ip)}

-----------------------------------------------------------------------------
(* The process. *)

\* The store is opened; the first scan begins at once, so it is due.
Start ==
  /\ ~up /\ up' = TRUE
  /\ devices' = saved
  /\ UNCHANGED <<saved, sinceScan, network, cache, history>>

Stops ==
  /\ up /\ up' = FALSE
  /\ devices' = NoDevices
  /\ sinceScan' = Interval
  /\ since' = IF Watched \in Present THEN 0 ELSE since
  /\ missed' = MaxMissed
  /\ UNCHANGED <<saved, network, cache>>

\* A scan, by the ticker or asked for: ApplyScan, and Save, which may fail, if
\* it returns true.
Scan(seen, answers) ==
  /\ up
  /\ devices' = Observe(devices, seen, 0)
  /\ saved' \in IF Material(devices, seen) THEN {devices', saved} ELSE {saved}
  /\ sinceScan' = 0
  /\ missed' = IF seen # <<>> THEN 0 ELSE Min({missed + 1, MaxMissed})
  /\ since' = IF Watched \in Present /\ ~answers THEN 0 ELSE since
  /\ UNCHANGED <<up, network, cache>>

\* The periodic flush, or a request that saves.
Saves ==
  /\ up /\ saved # devices
  /\ saved' = devices
  /\ UNCHANGED <<up, devices, sinceScan, network, cache, history>>

DeleteDevice(m) ==
  /\ up /\ devices[m] # None
  /\ devices' = [devices EXCEPT ![m] = None]
  /\ saved' \in {devices', saved}
  /\ since' = IF m \in Present THEN 0 ELSE since
  /\ missed' = MaxMissed
  /\ UNCHANGED <<up, sinceScan, network, cache>>

\* A client asks for Name; NODATA is kept for as long as an address (the SOA
\* of the answer gives TTL as its minimum).
Ask ==
  /\ up /\ cache = None
  /\ cache' = [ip |-> Resolve(devices, Mapped), age |-> 0]
  /\ UNCHANGED <<process, network, history>>

\* Mutant of Online: the limit itself is offline.
OnlineBelow(m) == devices[m] # None /\ devices[m].lastSeen < onlineWindow

\* onlineLocked: the mark of a device on the web page.
Online(m) == devices[m] # None /\ devices[m].lastSeen <= onlineWindow

-----------------------------------------------------------------------------
(* Time. *)

Older(devs) ==
  [m \in MACs |-> IF devs[m] = None THEN None
                  ELSE [devs[m] EXCEPT !.lastSeen = Min({@ + 1, MaxTime})]]

OlderOrGone(x, limit) ==
  IF x = None THEN None ELSE IF x.age = limit THEN None ELSE [x EXCEPT !.age = @ + 1]

\* Mutant of Tick: no ticker.
TickAlone ==
  /\ sinceScan < MaxTime /\ sinceScan' = sinceScan + 1
  /\ devices' = Older(devices) /\ saved' = Older(saved)
  /\ ghosts' = [ip \in IPs |-> OlderOrGone(ghosts[ip], Linger)]
  /\ cache' = OlderOrGone(cache, TTL)
  /\ since' = IF up \/ Watched \notin Present THEN Min({since + 1, MaxSince}) ELSE 0
  /\ UNCHANGED <<up, where, missed>>

\* A unit of time passes; the ticker sees to it that a scan comes in time.
Tick ==
  /\ up => sinceScan < Interval + Jitter
  /\ sinceScan' = IF up THEN sinceScan + 1 ELSE sinceScan
  /\ devices' = Older(devices) /\ saved' = Older(saved)
  /\ ghosts' = [ip \in IPs |-> OlderOrGone(ghosts[ip], Linger)]
  /\ cache' = OlderOrGone(cache, TTL)
  /\ since' = IF up \/ Watched \notin Present THEN Min({since + 1, MaxSince}) ELSE 0
  /\ UNCHANGED <<up, where, missed>>

-----------------------------------------------------------------------------
Next ==
  \/ \E x \in Stations, ip \in Opt(IPs) : Goes(x, ip)
  \/ Start \/ Stops \/ Saves
  \/ \E answers \in BOOLEAN : \E seen \in Tables(answers) : Scan(seen, answers)
  \/ \E m \in MACs : DeleteDevice(m)
  \/ Ask \/ Tick

Spec == Init /\ [][Next]_vars

-----------------------------------------------------------------------------
(* Properties *)

TypeOK ==
  /\ up \in BOOLEAN
  /\ devices \in DeviceMaps /\ saved \in DeviceMaps
  /\ sinceScan \in 0 .. Interval + Jitter
  /\ where \in [Stations -> Opt(IPs)]
  /\ ghosts \in [IPs -> Opt(Ghost)]
  /\ cache \in Opt(Answer)
  /\ since \in 0 .. MaxSince /\ missed \in 0 .. MaxMissed

\* README: a change of address reaches DNS after scan_interval and ttl.  With
\* the time a scan takes, and the time the ARP table may go on listing the old
\* address: a device that has been at its address for longer, answering scans,
\* is registered with it, and so is every answer a client still uses, whatever
\* order the table lists old and new in, and whatever was restarted, deleted
\* or held that address before.
Settled == up /\ Watched \in Present /\ since > Bound

AnswersFollow ==
  Settled =>
    /\ Resolve(devices, Mapped) = where[Watched]
    /\ cache # None => cache.ip = where[Watched]

\* A device is shown online as long as the scans it missed, and the one that
\* is due, fit into the three intervals of the README: a scan may miss it.
PresentIsOnline ==
  up /\ devices[Watched] # None /\ (missed + 1) * (Interval + Jitter) <= 3 * Interval
    => Online(Watched)

\* A device that has left is shown offline when the window has passed since
\* its last row can have been read, restarts or not.
GoneIsOffline ==
  up /\ Watched \notin Present /\ since > Linger + onlineWindow => ~Online(Watched)
=============================================================================
