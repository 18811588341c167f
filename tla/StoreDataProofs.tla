-------------------------- MODULE StoreDataProofs --------------------------
(***************************************************************************)
(* What one scan does to the devices, for every table of rows: the lemmas  *)
(* that the proofs about Store and Scanner have in common.                 *)
(***************************************************************************)
EXTENDS StoreData, TLAPS

LEMMA SeenIPType ==
  ASSUME NEW seen, \A i \in DOMAIN seen : seen[i] \in SeenDevice,
         NEW m, NEW old \in Opt(IPs)
  PROVE  SeenIP(seen, m, old) \in Opt(IPs)
<1> DEFINE last == {i \in AddressedRowsOf(seen, m) :
                      \A j \in AddressedRowsOf(seen, m) : j <= i}
<1>1. CASE last = {}
  BY <1>1 DEF SeenIP
<1>2. CASE last # {}
  <2>1. (CHOOSE i \in last : TRUE) \in DOMAIN seen
    BY <1>2 DEF AddressedRowsOf, RowsOf
  <2>2. seen[CHOOSE i \in last : TRUE].ip \in Opt(IPs)
    BY <2>1 DEF SeenDevice
  <2>3. QED
    BY <1>2, <2>2 DEF SeenIP
<1>3. QED
  BY <1>1, <1>2

\* A scan leaves devices that are well typed, and every label as it was; a
\* device it creates has none.  A device it sees has the address of its last
\* row that has one, and the time of the scan.
LEMMA ObserveDevices ==
  ASSUME NEW devs \in DeviceMaps, NEW t \in Time,
         NEW seen, \A i \in DOMAIN seen : seen[i] \in SeenDevice
  PROVE  /\ Observe(devs, seen, t) \in DeviceMaps
         /\ \A maps, k : k \in Keys =>
              UserValue(Observe(devs, seen, t), maps, k) = UserValue(devs, maps, k)
         /\ \A m \in MACs : RowsOf(seen, m) # {} =>
              /\ Observe(devs, seen, t)[m] # None
              /\ Observe(devs, seen, t)[m].ip = SeenIP(seen, m, Before(devs, m, t).ip)
              /\ Observe(devs, seen, t)[m].lastSeen = t
<1> DEFINE new == Observe(devs, seen, t)
<1>1. ASSUME NEW m \in MACs
      PROVE  /\ Before(devs, m, t) \in Device
             /\ Before(devs, m, t).label =
                  IF devs[m] = None THEN None ELSE devs[m].label
  BY DEF Before, NewDevice, Device, DeviceMaps, Opt
<1>2. ASSUME NEW m \in MACs, RowsOf(seen, m) # {}
      PROVE  /\ new[m] \in Device /\ new[m].label = Before(devs, m, t).label
             /\ new[m].ip = SeenIP(seen, m, Before(devs, m, t).ip)
             /\ new[m].lastSeen = t
  <2> DEFINE d == Before(devs, m, t)
  <2>1. d \in Device
    BY <1>1
  <2>2. SeenIP(seen, m, d.ip) \in Opt(IPs)
    BY <2>1, SeenIPType DEF Device
  <2>3. new[m] = [d EXCEPT !.ip = SeenIP(seen, m, d.ip),
                           !.self = d.self \/ \E i \in RowsOf(seen, m) : seen[i].self,
                           !.lastSeen = t]
    BY <1>2 DEF Observe
  <2>4. \A b \in BOOLEAN :
          /\ [d EXCEPT !.ip = SeenIP(seen, m, d.ip), !.self = b, !.lastSeen = t] \in Device
          /\ [d EXCEPT !.ip = SeenIP(seen, m, d.ip), !.self = b, !.lastSeen = t].label = d.label
          /\ [d EXCEPT !.ip = SeenIP(seen, m, d.ip), !.self = b, !.lastSeen = t].ip =
               SeenIP(seen, m, d.ip)
          /\ [d EXCEPT !.ip = SeenIP(seen, m, d.ip), !.self = b, !.lastSeen = t].lastSeen = t
    BY <2>1, <2>2 DEF Device
  <2>5. (d.self \/ \E i \in RowsOf(seen, m) : seen[i].self) \in BOOLEAN
    OBVIOUS
  <2>6. QED
    BY <2>3, <2>4, <2>5
<1>3. ASSUME NEW m \in MACs, RowsOf(seen, m) = {}
      PROVE  new[m] = devs[m]
  BY <1>3 DEF Observe
<1>4. \A m \in MACs : new[m] \in Opt(Device)
  BY <1>2, <1>3 DEF DeviceMaps, Opt
<1>5. new \in DeviceMaps
  BY <1>4 DEF Observe, DeviceMaps
<1>6. ASSUME NEW maps, NEW k \in Keys
      PROVE  UserValue(new, maps, k) = UserValue(devs, maps, k)
  <2>1. CASE k \in Hosts
    BY <2>1 DEF UserValue
  <2>2. CASE k \notin Hosts
    <3>1. k \in MACs
      BY <2>2 DEF Keys
    <3>2. new[k] # None /\ RowsOf(seen, k) # {}
            => new[k].label = IF devs[k] = None THEN None ELSE devs[k].label
      BY <3>1, <1>1, <1>2
    <3>3. RowsOf(seen, k) # {} => new[k] # None
      BY <3>1, <1>2, RecordAssumption
    <3>4. QED
      BY <2>2, <3>1, <3>2, <3>3, <1>3 DEF UserValue
  <2>3. QED
    BY <2>1, <2>2
<1>7. QED
  BY <1>2, <1>5, <1>6, RecordAssumption

\* A scan without a row of a valid address changes no device.
LEMMA ObserveNothing ==
  ASSUME NEW devs \in DeviceMaps, NEW t,
         NEW seen, \A i \in DOMAIN seen : seen[i].mac = None
  PROVE  Observe(devs, seen, t) = devs
<1>1. \A m \in MACs : RowsOf(seen, m) = {}
  BY NoneAssumption DEF RowsOf
<1>2. QED
  BY <1>1 DEF Observe, DeviceMaps

\* The one row of a device decides its address.
LEMMA SeenIPOfOne ==
  ASSUME NEW seen, NEW m, NEW i \in DOMAIN seen, seen[i].mac = m, seen[i].ip # None,
         DOMAIN seen \subseteq Nat, \A j \in DOMAIN seen : seen[j].mac = m => j = i,
         NEW old
  PROVE  SeenIP(seen, m, old) = seen[i].ip
<1>1. AddressedRowsOf(seen, m) = {i}
  BY DEF AddressedRowsOf, RowsOf
<1>2. {j \in AddressedRowsOf(seen, m) : \A k \in AddressedRowsOf(seen, m) : k <= j} = {i}
  BY <1>1
<1>3. QED
  BY <1>2 DEF SeenIP

\* A scan that finds nothing material changes no more than time stamps.
LEMMA ObserveImmaterial ==
  ASSUME NEW devs \in DeviceMaps, NEW t \in Time,
         NEW seen, \A i \in DOMAIN seen : seen[i] \in SeenDevice,
         \A m \in MACs : devs[m] # None => devs[m].lastSeen = t,
         ~Material(devs, seen)
  PROVE  Observe(devs, seen, t) = devs
<1> DEFINE new == Observe(devs, seen, t)
<1>1. ASSUME NEW m \in MACs, RowsOf(seen, m) # {} PROVE new[m] = devs[m]
  <2>1. devs[m] # None /\ devs[m] \in Device /\ Before(devs, m, t) = devs[m]
    BY <1>1 DEF Material, Before, DeviceMaps, Opt
  <2>2. \A i \in AddressedRowsOf(seen, m) : seen[i].ip = devs[m].ip
    BY <1>1 DEF Material
  <2>3. SeenIP(seen, m, devs[m].ip) = devs[m].ip
    <3> DEFINE last == {i \in AddressedRowsOf(seen, m) :
                          \A j \in AddressedRowsOf(seen, m) : j <= i}
    <3>1. last # {} => (CHOOSE i \in last : TRUE) \in AddressedRowsOf(seen, m)
      OBVIOUS
    <3>2. QED
      BY <2>2, <3>1 DEF SeenIP
  <2>4. (devs[m].self \/ \E i \in RowsOf(seen, m) : seen[i].self) = devs[m].self
    <3>1. ~devs[m].self => ~\E i \in RowsOf(seen, m) : seen[i].self
      BY <1>1 DEF Material
    <3>2. devs[m].self \in BOOLEAN
      BY <2>1 DEF Device
    <3>3. QED
      BY <3>1, <3>2
  <2>5. new[m] = [devs[m] EXCEPT !.ip = devs[m].ip, !.self = devs[m].self, !.lastSeen = t]
    BY <1>1, <2>1, <2>3, <2>4 DEF Observe
  <2>6. QED
    BY <2>1, <2>5 DEF Device
<1>2. ASSUME NEW m \in MACs, RowsOf(seen, m) = {} PROVE new[m] = devs[m]
  BY <1>2 DEF Observe
<1>3. QED
  BY <1>1, <1>2 DEF Observe, DeviceMaps
=============================================================================
