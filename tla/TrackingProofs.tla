--------------------------- MODULE TrackingProofs ---------------------------
(***************************************************************************)
(* Proofs about Tracking, for every interval, delay and lifetime, every    *)
(* number of neighbours and every set of addresses.                        *)
(*                                                                         *)
(* The argument: every age is measured against since.  What the ARP table  *)
(* still has of the past is as old as since, so it is gone once since      *)
(* exceeds Linger; the first scan after that has the one row of Watched,   *)
(* and the answers given after that scan are the ones that last.           *)
(***************************************************************************)
EXTENDS Tracking, StoreDataProofs, FiniteSetTheorems, FunctionTheorems

Period == Interval + Jitter

\* No two stations have the same address.
OneHolder ==
  \A x, y \in Stations : where[x] = where[y] /\ where[x] # None => x = y

\* An outdated entry that bears upon Watched, for it names Watched or hides
\* it, is at least as old as since.
GhostsAreOlder ==
  \A ip \in IPs :
    ghosts[ip] # None /\ (ghosts[ip].station = Watched \/ where[Watched] = ip)
      => since <= ghosts[ip].age

\* Nobody sees Watched while there is no process.
DownIsBlind == ~up => /\ Watched \in Present => since = 0
                      /\ missed = MaxMissed

\* The last scan came when the ARP table was true.
Registered ==
  up /\ Watched \in Present /\ since > Linger + sinceScan
    => devices[Watched] # None /\ devices[Watched].ip = where[Watched]

\* The answer was given when the registry was true.
CacheFollows ==
  Watched \in Present /\ cache # None /\ since > Linger + Period + cache.age
    => cache.ip = where[Watched]

\* A scan that missed Watched came at most a period after the one before it.
SeenLately ==
  up /\ devices[Watched] # None /\ missed < MaxMissed
    => devices[Watched].lastSeen <= missed * Period + sinceScan

\* The last row of Watched was read when its entry was still in the table.
Aged(devs) ==
  devs[Watched] # None /\ Watched \notin Present
    => since <= Linger + devs[Watched].lastSeen \/ devs[Watched].lastSeen = MaxTime

IInv ==
  /\ TypeOK
  /\ OneHolder /\ GhostsAreOlder /\ DownIsBlind
  /\ Registered /\ CacheFollows /\ SeenLately
  /\ Aged(devices) /\ Aged(saved)

-----------------------------------------------------------------------------
(* Constants and ages. *)

LEMMA SmallerOfTwo ==
  ASSUME NEW x \in Nat, NEW y \in Nat
  PROVE  Min({x, y}) = IF x <= y THEN x ELSE y
<1>1. \E z \in {x, y} : \A w \in {x, y} : z <= w
  OBVIOUS
<1>2. Min({x, y}) \in {x, y} /\ \A w \in {x, y} : Min({x, y}) <= w
  BY <1>1 DEF Min
<1>3. QED
  BY <1>2

LEMMA GreaterOfTwo ==
  ASSUME NEW x \in Nat, NEW y \in Nat
  PROVE  Max({x, y}) = IF x >= y THEN x ELSE y
<1>1. \E z \in {x, y} : \A w \in {x, y} : z >= w
  OBVIOUS
<1>2. Max({x, y}) \in {x, y} /\ \A w \in {x, y} : Max({x, y}) >= w
  BY <1>1 DEF Max
<1>3. QED
  BY <1>2

\* What is known of the constants.
LEMMA Numbers ==
  /\ Interval \in Nat /\ TTL \in Nat /\ Jitter \in Nat /\ Linger \in Nat /\ MaxTime \in Nat
  /\ Interval > 0 /\ TTL > 0 /\ Period \in Nat
  /\ onlineWindow \in Nat /\ onlineWindow >= 3 * Interval /\ onlineWindow < MaxTime
  /\ MaxSince \in Nat /\ Bound = Linger + Period + TTL
  /\ MaxSince > Bound /\ MaxSince > Linger + onlineWindow
  /\ MACs = {Watched} /\ Watched \in Stations
<1>1. /\ Interval \in Nat /\ TTL \in Nat /\ Jitter \in Nat /\ Linger \in Nat /\ MinWindow \in Nat
      /\ Interval > 0 /\ TTL > 0
  BY TrackingAssumption
<1>2. onlineWindow \in Nat /\ onlineWindow >= 3 * Interval
  BY <1>1, GreaterOfTwo DEF onlineWindow
<1>3. Bound \in Nat /\ Linger + onlineWindow \in Nat
  BY <1>1, <1>2 DEF Bound
<1>4. MaxSince \in Nat /\ MaxSince > Bound /\ MaxSince > Linger + onlineWindow
  BY <1>3, GreaterOfTwo DEF MaxSince
<1>5. QED
  BY <1>1, <1>2, <1>4, TrackingAssumption, TimeAssumption DEF Period, Bound, Stations

LEMMA OlderDevices ==
  ASSUME NEW devs \in DeviceMaps
  PROVE  /\ Older(devs) \in DeviceMaps
         /\ \A m \in MACs :
              /\ Older(devs)[m] = None <=> devs[m] = None
              /\ devs[m] # None =>
                   /\ Older(devs)[m].ip = devs[m].ip
                   /\ Older(devs)[m].lastSeen = IF devs[m].lastSeen < MaxTime
                                                THEN devs[m].lastSeen + 1 ELSE MaxTime
<1>1. ASSUME NEW m \in MACs, devs[m] # None
      PROVE  /\ Older(devs)[m] \in Device
             /\ Older(devs)[m].ip = devs[m].ip
             /\ Older(devs)[m].lastSeen = IF devs[m].lastSeen < MaxTime
                                          THEN devs[m].lastSeen + 1 ELSE MaxTime
  <2> DEFINE d == devs[m]
             t == Min({d.lastSeen + 1, MaxTime})
  <2>1. d \in Device /\ d.lastSeen \in 0 .. MaxTime /\ MaxTime \in Nat
    BY <1>1, TimeAssumption DEF DeviceMaps, Opt, Device, Time
  <2>2. t = IF d.lastSeen < MaxTime THEN d.lastSeen + 1 ELSE MaxTime
    BY <2>1, SmallerOfTwo
  <2>3. t \in Time
    BY <2>1, <2>2 DEF Time
  <2>4. Older(devs)[m] = [d EXCEPT !.lastSeen = t]
    BY <1>1 DEF Older
  <2> HIDE DEF d, t
  <2>5. [d EXCEPT !.lastSeen = t] \in Device /\ [d EXCEPT !.lastSeen = t].ip = d.ip
        /\ [d EXCEPT !.lastSeen = t].lastSeen = t
    BY <2>1, <2>3 DEF Device
  <2>6. QED
    BY <2>2, <2>4, <2>5 DEF d
<1>2. \A m \in MACs : devs[m] = None => Older(devs)[m] = None
  BY DEF Older
<1>3. Older(devs) \in DeviceMaps
  <2>1. Older(devs) = [m \in MACs |-> Older(devs)[m]]
    BY DEF Older
  <2>2. QED
    BY <1>1, <1>2, <2>1 DEF DeviceMaps, Opt
<1>4. QED
  BY <1>1, <1>2, <1>3, RecordAssumption

\* An age grows by one, or its bearer is gone.
LEMMA OlderGhost ==
  ASSUME NEW x \in Opt(Ghost)
  PROVE  /\ OlderOrGone(x, Linger) \in Opt(Ghost)
         /\ OlderOrGone(x, Linger) # None =>
              /\ x # None /\ OlderOrGone(x, Linger).station = x.station
              /\ OlderOrGone(x, Linger).age = x.age + 1
<1>1. CASE x # None /\ x.age # Linger
  <2>1. x \in Ghost /\ Linger \in Nat
    BY <1>1, Numbers DEF Opt
  <2>2. [x EXCEPT !.age = x.age + 1] \in Ghost
        /\ [x EXCEPT !.age = x.age + 1].station = x.station
        /\ [x EXCEPT !.age = x.age + 1].age = x.age + 1
    BY <1>1, <2>1 DEF Ghost
  <2>3. QED
    BY <1>1, <2>2 DEF OlderOrGone, Opt
<1>2. CASE x = None \/ x.age = Linger
  BY <1>2 DEF OlderOrGone, Opt
<1>3. QED
  BY <1>1, <1>2

LEMMA OlderAnswer ==
  ASSUME NEW x \in Opt(Answer)
  PROVE  /\ OlderOrGone(x, TTL) \in Opt(Answer)
         /\ OlderOrGone(x, TTL) # None =>
              /\ x # None /\ OlderOrGone(x, TTL).ip = x.ip
              /\ OlderOrGone(x, TTL).age = x.age + 1
<1>1. CASE x # None /\ x.age # TTL
  <2>1. x \in Answer /\ TTL \in Nat
    BY <1>1, Numbers DEF Opt
  <2>2. [x EXCEPT !.age = x.age + 1] \in Answer
        /\ [x EXCEPT !.age = x.age + 1].ip = x.ip
        /\ [x EXCEPT !.age = x.age + 1].age = x.age + 1
    BY <1>1, <2>1 DEF Answer
  <2>3. QED
    BY <1>1, <2>2 DEF OlderOrGone, Opt
<1>2. CASE x = None \/ x.age = TTL
  BY <1>2 DEF OlderOrGone, Opt
<1>3. QED
  BY <1>1, <1>2

-----------------------------------------------------------------------------
(* What a scan reads, and what it does to Watched. *)

LEMMA TableRows ==
  ASSUME NEW answers, NEW seen \in Tables(answers)
  PROVE  /\ DOMAIN seen \subseteq Nat
         /\ \A k \in DOMAIN seen : \E ip \in IPs : seen[k] = Row(ip) /\ MayBeListed(ip)
         /\ \A j, k \in DOMAIN seen : seen[j] = seen[k] => j = k
         /\ answers => \A ip \in IPs : IsListed(ip) => \E k \in DOMAIN seen : seen[k].ip = ip
         /\ seen = <<>> <=> DOMAIN seen = {}
<1>1. PICK S \in SUBSET IPs : seen \in SetToSeqs({Row(ip) : ip \in S})
  BY DEF Tables, Orders
<1> DEFINE R == {Row(ip) : ip \in S}
           n == Cardinality(R)
<1>2. IsFiniteSet(S)
  BY FS_Subset, TrackingAssumption
<1>3. IsFiniteSet(R)
  <2> DEFINE f == [ip \in S |-> Row(ip)]
  <2>1. f \in Surjection(S, R)
    BY Fun_IsSurj
  <2>2. QED
    BY <1>2, <2>1, FS_Surjection
<1>4. n \in Nat
  BY <1>3, FS_CardinalityType
<1> HIDE DEF R, n
<1>5. seen \in [1 .. n -> R] /\ \A j, k \in 1 .. n : j # k => seen[j] # seen[k]
  BY <1>1 DEF SetToSeqs, R, n
<1>6. DOMAIN seen = 1 .. n
  BY <1>5
<1>7. \A k \in DOMAIN seen : \E ip \in IPs : seen[k] = Row(ip) /\ seen[k].ip = ip
  BY <1>5, <1>6 DEF R, Row
<1>8. \A ip \in IPs :
        /\ (\E k \in DOMAIN seen : seen[k].ip = ip) => MayBeListed(ip)
        /\ answers /\ IsListed(ip) => \E k \in DOMAIN seen : seen[k].ip = ip
  BY DEF Tables
<1>9. seen \in Seq(R)
  BY <1>4, <1>5
<1>10. seen = <<>> <=> DOMAIN seen = {}
  BY <1>9
<1>11. QED
  BY <1>4, <1>5, <1>6, <1>7, <1>8, <1>10

LEMMA WatchedRows ==
  ASSUME NEW answers, NEW seen \in Tables(answers)
  PROVE  /\ \A k \in DOMAIN seen : seen[k] \in SeenDevice /\ seen[k].mac = Watched /\ seen[k].ip # None
         /\ RowsOf(seen, Watched) = DOMAIN seen
<1>1. ASSUME NEW k \in DOMAIN seen
      PROVE  seen[k] \in SeenDevice /\ seen[k].mac = Watched /\ seen[k].ip # None
  <2>1. PICK ip \in IPs : seen[k] = Row(ip)
    BY TableRows
  <2>2. ip # None /\ Watched \in MACs
    BY NoneAssumption, Numbers
  <2>3. QED
    BY <2>1, <2>2 DEF Row, SeenDevice, Opt
<1>2. QED
  BY <1>1 DEF RowsOf

LEMMA ScanOfWatched ==
  ASSUME devices \in DeviceMaps, NEW answers, NEW seen \in Tables(answers)
  PROVE  /\ Observe(devices, seen, 0) \in DeviceMaps
         /\ seen = <<>> => Observe(devices, seen, 0) = devices
         /\ seen # <<>> => /\ Observe(devices, seen, 0)[Watched] # None
                           /\ Observe(devices, seen, 0)[Watched].lastSeen = 0
<1>1. 0 \in Time /\ Watched \in MACs
  BY TimeAssumption, Numbers DEF Time
<1>2. Observe(devices, seen, 0) \in DeviceMaps
  BY <1>1, WatchedRows, ObserveDevices
<1>3. seen = <<>> => Observe(devices, seen, 0) = devices
  BY TableRows, ObserveNothing
<1>4. ASSUME seen # <<>>
      PROVE  /\ Observe(devices, seen, 0)[Watched] # None
             /\ Observe(devices, seen, 0)[Watched].lastSeen = 0
  <2>1. RowsOf(seen, Watched) # {}
    BY <1>4, TableRows, WatchedRows
  <2>2. QED
    BY <1>1, <2>1, WatchedRows, ObserveDevices
<1>5. QED
  BY <1>2, <1>3, <1>4

\* Once what is outdated has gone from the ARP table, a device that answers
\* has the one row it should have.
LEMMA TableIsTrue ==
  ASSUME IInv, Watched \in Present, since > Linger, NEW seen \in Tables(TRUE)
  PROVE  /\ Observe(devices, seen, 0)[Watched] # None
         /\ Observe(devices, seen, 0)[Watched].ip = where[Watched]
<1> DEFINE w == where[Watched]
<1>1. w \in IPs /\ devices \in DeviceMaps /\ since \in Nat /\ Linger \in Nat
  BY Numbers DEF IInv, TypeOK, Present, Opt
<1>2. ASSUME NEW ip \in IPs, ghosts[ip] # None, ghosts[ip].station = Watched \/ ip = w PROVE FALSE
  <2>1. ghosts[ip] \in Ghost
    BY <1>2 DEF IInv, TypeOK, Opt
  <2>2. since <= ghosts[ip].age /\ ghosts[ip].age \in 0 .. Linger
    BY <1>2, <2>1 DEF IInv, GhostsAreOlder, Ghost
  <2>3. QED
    BY <1>1, <2>2
<1>3. IsListed(w) /\ \A ip \in IPs : MayBeListed(ip) => ip = w
  BY <1>1, <1>2 DEF IsListed, MayBeListed
<1>4. PICK k \in DOMAIN seen : seen[k].ip = w
  BY <1>1, <1>3, TableRows
<1>5. \A j \in DOMAIN seen : seen[j] = Row(w)
  BY <1>3, TableRows
<1>6. \A j \in DOMAIN seen : j = k
  BY <1>5, TableRows
<1>7. seen[k].mac = Watched /\ seen[k].ip # None /\ DOMAIN seen \subseteq Nat
  BY WatchedRows, TableRows
<1>8. SeenIP(seen, Watched, Before(devices, Watched, 0).ip) = w
  BY <1>4, <1>6, <1>7, SeenIPOfOne
<1>9. RowsOf(seen, Watched) = DOMAIN seen /\ \A j \in DOMAIN seen : seen[j] \in SeenDevice
  BY WatchedRows, Zenon
<1>10. RowsOf(seen, Watched) # {} /\ Watched \in MACs /\ 0 \in Time
  BY <1>4, <1>9, Numbers, TimeAssumption DEF Time
<1>11. QED
  BY <1>1, <1>8, <1>9, <1>10, ObserveDevices

-----------------------------------------------------------------------------
(* One lemma for each action. *)

LEMMA GoesStep ==
  ASSUME IInv, NEW x \in Stations, NEW ip \in Opt(IPs), Goes(x, ip)
  PROVE  IInv'
<1> USE DEF IInv
<1>1. /\ where \in [Stations -> Opt(IPs)] /\ where' = [where EXCEPT ![x] = ip]
      /\ UNCHANGED <<process, cache, missed>>
      /\ where[x] # ip /\ (ip = None \/ Holders(ip) = {})
      /\ Watched \in Stations /\ None \notin IPs
  BY Numbers, NoneAssumption DEF Goes, TypeOK
<1>2. since' = IF x = Watched THEN 0 ELSE since
  BY DEF Goes
<1>3. x # Watched => where'[Watched] = where[Watched] /\ (Watched \in Present' <=> Watched \in Present)
  BY <1>1 DEF Present
<1>4. OneHolder'
  BY <1>1 DEF OneHolder, Holders
<1>5. ghosts' \in [IPs -> Opt(Ghost)]
  <2>1. CASE x \notin Present
    BY <2>1 DEF Goes, TypeOK
  <2>2. CASE x \in Present
    <3>1. [station |-> x, age |-> 0] \in Ghost
      BY Numbers DEF Ghost
    <3>2. ghosts' = [ghosts EXCEPT ![where[x]] = [station |-> x, age |-> 0]]
      BY <2>2 DEF Goes
    <3>3. QED
      BY <3>1, <3>2 DEF TypeOK, Opt
  <2>3. QED
    BY <2>1, <2>2
<1>6. TypeOK'
  BY <1>1, <1>2, <1>5, Numbers DEF TypeOK, process
<1>7. GhostsAreOlder'
  <2>1. CASE x = Watched
    <3>1. since' = 0
      BY <1>2, <2>1
    <3>2. \A a \in IPs : ghosts'[a] # None => ghosts'[a].age \in Nat
      BY <1>5 DEF Opt, Ghost
    <3>3. QED
      BY <3>1, <3>2 DEF GhostsAreOlder
  <2>2. CASE x # Watched /\ x \notin Present
    BY <1>2, <1>3, <2>2 DEF GhostsAreOlder, Goes
  <2>3. CASE x # Watched /\ x \in Present
    <3>1. where[x] # where[Watched]
      BY <1>1, <2>3 DEF OneHolder, Present
    <3>2. ghosts' = [ghosts EXCEPT ![where[x]] = [station |-> x, age |-> 0]]
      BY <2>3 DEF Goes
    <3>3. \A a \in IPs : IF a = where[x] THEN ghosts'[a] = [station |-> x, age |-> 0]
                                         ELSE ghosts'[a] = ghosts[a]
      BY <3>2 DEF TypeOK
    <3>4. QED
      BY <1>2, <1>3, <2>3, <3>1, <3>3 DEF GhostsAreOlder
  <2>4. QED
    BY <2>1, <2>2, <2>3
<1>8. since' = 0 \/ (since' = since /\ where'[Watched] = where[Watched]
                     /\ (Watched \in Present' <=> Watched \in Present))
  BY <1>2, <1>3
<1>9. /\ sinceScan \in Nat /\ Linger \in Nat /\ Period \in Nat
      /\ cache # None => cache.age \in Nat
      /\ \A devs \in {devices, saved} : devs[Watched] # None => devs[Watched].lastSeen \in Nat
  BY Numbers, TimeAssumption DEF TypeOK, Opt, Answer, DeviceMaps, Device, Time
<1>10. DownIsBlind' /\ Registered' /\ CacheFollows' /\ SeenLately'
  BY <1>1, <1>8, <1>9 DEF DownIsBlind, Registered, CacheFollows, SeenLately, process
<1>11. Aged(devices)' /\ Aged(saved)'
  BY <1>1, <1>8, <1>9 DEF Aged, process
<1>12. QED
  BY <1>4, <1>6, <1>7, <1>10, <1>11

LEMMA StartStep ==
  ASSUME IInv, Start
  PROVE  IInv'
<1> USE DEF IInv, Start, network, history
<1>1. TypeOK' /\ OneHolder' /\ GhostsAreOlder' /\ DownIsBlind' /\ Aged(devices)' /\ Aged(saved)'
  BY DEF TypeOK, OneHolder, GhostsAreOlder, DownIsBlind, Aged, Present
<1>2. since \in Nat /\ sinceScan \in Nat /\ Linger \in Nat
  BY Numbers DEF TypeOK
<1>3. Registered' /\ SeenLately'
  BY <1>2 DEF DownIsBlind, Registered, SeenLately, Present, MaxMissed
<1>4. CacheFollows'
  BY DEF CacheFollows, Present
<1>5. QED
  BY <1>1, <1>3, <1>4

LEMMA StopsStep ==
  ASSUME IInv, Stops
  PROVE  IInv'
<1> USE DEF IInv, Stops, network
<1>1. 0 \in 0 .. MaxSince /\ Interval \in 0 .. Interval + Jitter /\ MaxMissed \in 0 .. MaxMissed
  BY Numbers DEF MaxMissed
<1>2. NoDevices \in DeviceMaps /\ NoDevices[Watched] = None
  BY Numbers DEF NoDevices, DeviceMaps, Opt
<1>3. TypeOK'
  BY <1>1, <1>2 DEF TypeOK
<1>4. OneHolder' /\ GhostsAreOlder'
  <2>1. \A ip \in IPs : ghosts[ip] # None => ghosts[ip].age \in Nat
    BY DEF TypeOK, Opt, Ghost
  <2>2. QED
    BY <2>1 DEF OneHolder, GhostsAreOlder
<1>5. DownIsBlind' /\ Registered' /\ SeenLately'
  BY DEF DownIsBlind, Registered, SeenLately, Present
<1>6. CacheFollows'
  <2>1. Watched \in Present => since' = 0
    OBVIOUS
  <2>2. cache # None => cache.age \in Nat /\ Linger \in Nat /\ Period \in Nat
    BY Numbers DEF TypeOK, Opt, Answer
  <2>3. QED
    BY <2>1, <2>2 DEF CacheFollows, Present
<1>7. Aged(devices)' /\ Aged(saved)'
  BY <1>2 DEF Aged, Present
<1>8. QED
  BY <1>3, <1>4, <1>5, <1>6, <1>7

LEMMA SavesStep ==
  ASSUME IInv, Saves
  PROVE  IInv'
BY DEF IInv, Saves, network, history, TypeOK, OneHolder, GhostsAreOlder, DownIsBlind, Registered,
   CacheFollows, SeenLately, Aged, Present

LEMMA DeleteStep ==
  ASSUME IInv, NEW m \in MACs, DeleteDevice(m)
  PROVE  IInv'
<1> USE DEF IInv, DeleteDevice, network
<1>1. m = Watched
  BY Numbers
<1>2. devices' \in DeviceMaps /\ devices'[Watched] = None /\ saved' \in {devices', saved}
  BY <1>1 DEF TypeOK, DeviceMaps, Opt
<1>3. 0 \in 0 .. MaxSince /\ MaxMissed \in 0 .. MaxMissed
  BY Numbers DEF MaxMissed
<1>4. TypeOK'
  BY <1>2, <1>3 DEF TypeOK
<1>5. since' = IF Watched \in Present THEN 0 ELSE since
  BY <1>1
<1>6. OneHolder' /\ GhostsAreOlder'
  <2>1. \A ip \in IPs : ghosts[ip] # None => ghosts[ip].age \in Nat
    BY DEF TypeOK, Opt, Ghost
  <2>2. QED
    BY <1>5, <2>1 DEF OneHolder, GhostsAreOlder
<1>7. DownIsBlind' /\ SeenLately'
  BY <1>2 DEF DownIsBlind, SeenLately
<1>8. Registered' /\ CacheFollows'
  <2>1. sinceScan \in Nat /\ Linger \in Nat /\ Period \in Nat /\ (cache # None => cache.age \in Nat)
    BY Numbers DEF TypeOK, Opt, Answer
  <2>2. QED
    BY <1>5, <2>1 DEF Registered, CacheFollows, Present
<1>9. Aged(devices)' /\ Aged(saved)'
  BY <1>2, <1>5 DEF Aged, Present
<1>10. QED
  BY <1>4, <1>6, <1>7, <1>8, <1>9

LEMMA AskStep ==
  ASSUME IInv, Ask
  PROVE  IInv'
<1> USE DEF IInv, Ask, process, network, history
<1> DEFINE addr == Resolve(devices, Mapped)
<1>1. addr = IF devices[Watched] # None THEN devices[Watched].ip ELSE None
  BY Numbers DEF Resolve, Mapped
<1>2. addr \in Opt(IPs)
  BY <1>1, Numbers DEF TypeOK, DeviceMaps, Device, Opt
<1>3. [ip |-> addr, age |-> 0] \in Answer /\ [ip |-> addr, age |-> 0].ip = addr
      /\ [ip |-> addr, age |-> 0].age = 0
  BY <1>2, Numbers DEF Answer
<1>4. TypeOK'
  BY <1>3 DEF TypeOK, Opt
<1>5. CacheFollows'
  <2>1. since \in Nat /\ sinceScan \in 0 .. Period /\ Period \in Nat /\ Linger \in Nat
    BY Numbers DEF TypeOK, Period
  <2>2. cache'.ip = addr /\ cache'.age = 0 /\ up
    BY <1>3
  <2>3. QED
    BY <1>1, <2>1, <2>2 DEF CacheFollows, Registered, Present
<1>6. QED
  BY <1>4, <1>5 DEF OneHolder, GhostsAreOlder, DownIsBlind, Registered, SeenLately, Aged, Present

LEMMA ScanStep ==
  ASSUME IInv, NEW answers \in BOOLEAN, NEW seen \in Tables(answers), Scan(seen, answers)
  PROVE  IInv'
<1> USE DEF IInv, Scan, network
<1> DEFINE new == Observe(devices, seen, 0)
<1>1. /\ new \in DeviceMaps
      /\ seen = <<>> => new = devices
      /\ seen # <<>> => new[Watched] # None /\ new[Watched].lastSeen = 0
  BY ScanOfWatched DEF TypeOK
<1>2. devices' = new /\ (saved' = new \/ saved' = saved)
  OBVIOUS
<1> HIDE DEF new
<1>3. missed \in 0 .. 3 /\ missed' = IF seen # <<>> THEN 0 ELSE IF missed < 3 THEN missed + 1 ELSE 3
  <2>1. missed \in 0 .. 3 /\ missed + 1 \in Nat
    BY DEF TypeOK, MaxMissed
  <2>2. Min({missed + 1, 3}) = IF missed + 1 <= 3 THEN missed + 1 ELSE 3
    BY <2>1, SmallerOfTwo
  <2>3. QED
    BY <2>1, <2>2 DEF MaxMissed
<1>4. since \in Nat /\ 0 \in 0 .. MaxSince /\ Linger \in Nat /\ Period \in Nat /\ 0 \in 0 .. Interval + Jitter
  BY Numbers DEF TypeOK, Period
<1>5. since' = 0 \/ since' = since
  OBVIOUS
<1>6. TypeOK'
  BY <1>1, <1>2, <1>3, <1>4 DEF TypeOK, MaxMissed
<1>7. OneHolder' /\ GhostsAreOlder' /\ DownIsBlind'
  <2>1. \A ip \in IPs : ghosts[ip] # None => ghosts[ip].age \in Nat
    BY DEF TypeOK, Opt, Ghost
  <2>2. QED
    BY <1>5, <2>1 DEF OneHolder, GhostsAreOlder, DownIsBlind
<1>8. Registered'
  <2>1. SUFFICES ASSUME Watched \in Present, since' > Linger
                 PROVE  new[Watched] # None /\ new[Watched].ip = where[Watched]
    BY <1>2, <1>4, <1>5 DEF Registered, Present
  <2>2. answers = TRUE /\ since' = since
    BY <1>4, <2>1
  <2>3. QED
    BY <2>1, <2>2, TableIsTrue DEF new
<1>9. CacheFollows'
  <2>1. cache # None => cache.age \in Nat
    BY DEF TypeOK, Opt, Answer
  <2>2. QED
    BY <1>4, <1>5, <2>1 DEF CacheFollows, Present
<1>10. SeenLately'
  <2>1. CASE seen # <<>>
    BY <1>1, <1>2, <1>3, <1>4, <2>1 DEF SeenLately
  <2>2. CASE seen = <<>>
    <3>1. SUFFICES ASSUME devices[Watched] # None, missed' < 3
                   PROVE  devices[Watched].lastSeen <= missed' * Period + 0
      BY <1>1, <1>2, <2>2 DEF SeenLately, MaxMissed
    <3>2. missed' = missed + 1 /\ missed \in {0, 1}
      BY <1>3, <2>2, <3>1
    <3>3. devices[Watched].lastSeen <= missed * Period + sinceScan
      BY <3>1, <3>2 DEF SeenLately, MaxMissed
    <3>4. devices[Watched].lastSeen \in Nat /\ sinceScan \in 0 .. Period
      BY <3>1, Numbers, TimeAssumption DEF TypeOK, DeviceMaps, Device, Opt, Time, Period
    <3>5. QED
      BY <1>4, <3>2, <3>3, <3>4
  <2>3. QED
    BY <2>1, <2>2
<1>11. Aged(devices)' /\ Aged(saved)'
  <2>1. ASSUME Watched \notin Present, seen # <<>> PROVE since <= Linger
    <3>1. PICK ip \in IPs : MayBeListed(ip)
      BY <2>1, TableRows
    <3>2. ghosts[ip] # None /\ ghosts[ip].station = Watched
      BY <2>1, <3>1, NoneAssumption, Numbers DEF MayBeListed, Present
    <3>3. ghosts[ip] \in Ghost
      BY <3>2 DEF TypeOK, Opt
    <3>4. QED
      BY <1>4, <3>2, <3>3 DEF GhostsAreOlder, Ghost
  <2>2. Watched \notin Present => since' = since
    OBVIOUS
  <2>3. Aged(devices)'
    BY <1>1, <1>2, <1>4, <2>1, <2>2 DEF Aged, Present
  <2>4. QED
    BY <1>2, <2>2, <2>3 DEF Aged, Present
<1>12. QED
  BY <1>6, <1>7, <1>8, <1>9, <1>10, <1>11

LEMMA TickStep ==
  ASSUME IInv, Tick
  PROVE  IInv'
<1> USE DEF IInv
<1>1. /\ sinceScan' = IF up THEN sinceScan + 1 ELSE sinceScan
      /\ up => sinceScan < Interval + Jitter
      /\ devices' = Older(devices) /\ saved' = Older(saved)
      /\ UNCHANGED <<up, where, missed>>
  BY DEF Tick
<1>2. /\ since' \in 0 .. MaxSince /\ since' <= since + 1
      /\ ~up /\ Watched \in Present => since' = 0
  <2>1. since \in 0 .. MaxSince /\ MaxSince \in Nat /\ since + 1 \in Nat
    BY Numbers DEF TypeOK
  <2>2. Min({since + 1, MaxSince}) = IF since + 1 <= MaxSince THEN since + 1 ELSE MaxSince
    BY <2>1, SmallerOfTwo
  <2>3. since' = IF up \/ Watched \notin Present THEN Min({since + 1, MaxSince}) ELSE 0
    BY DEF Tick
  <2>4. QED
    BY <2>1, <2>2, <2>3
<1>3. /\ ghosts' \in [IPs -> Opt(Ghost)]
      /\ \A ip \in IPs : ghosts'[ip] # None => /\ ghosts[ip] # None
                                               /\ ghosts'[ip].station = ghosts[ip].station
                                               /\ ghosts'[ip].age = ghosts[ip].age + 1
  <2>1. \A ip \in IPs : ghosts[ip] \in Opt(Ghost)
    BY DEF TypeOK
  <2>2. ghosts' = [ip \in IPs |-> OlderOrGone(ghosts[ip], Linger)]
    BY DEF Tick
  <2>3. QED
    BY <2>1, <2>2, OlderGhost
<1>4. /\ cache' \in Opt(Answer)
      /\ cache' # None => cache # None /\ cache'.ip = cache.ip /\ cache'.age = cache.age + 1
  BY OlderAnswer DEF Tick, TypeOK
<1>5. ASSUME NEW devs \in {devices, saved}
      PROVE  /\ Older(devs) \in DeviceMaps
             /\ Older(devs)[Watched] = None <=> devs[Watched] = None
             /\ devs[Watched] # None =>
                  /\ Older(devs)[Watched].ip = devs[Watched].ip
                  /\ Older(devs)[Watched].lastSeen = IF devs[Watched].lastSeen < MaxTime
                                                     THEN devs[Watched].lastSeen + 1 ELSE MaxTime
                  /\ devs[Watched].lastSeen \in 0 .. MaxTime
  <2>1. devs \in DeviceMaps /\ Watched \in MACs
    BY Numbers DEF TypeOK
  <2>2. devs[Watched] # None => devs[Watched].lastSeen \in 0 .. MaxTime
    BY <2>1 DEF DeviceMaps, Device, Opt, Time
  <2>3. QED
    BY <2>1, <2>2, OlderDevices
<1>6. sinceScan \in Nat /\ since \in Nat /\ Linger \in Nat /\ Period \in Nat /\ MaxTime \in Nat
  BY Numbers DEF TypeOK
<1>7. TypeOK'
  BY <1>1, <1>2, <1>3, <1>4, <1>5, Numbers DEF TypeOK
<1>8. OneHolder' /\ DownIsBlind'
  BY <1>1, <1>2 DEF OneHolder, DownIsBlind, Present
<1>9. GhostsAreOlder'
  <2>1. \A ip \in IPs : ghosts[ip] # None => ghosts[ip].age \in Nat
    BY DEF TypeOK, Opt, Ghost
  <2>2. QED
    BY <1>1, <1>2, <1>3, <1>6, <2>1 DEF GhostsAreOlder
<1>10. Registered'
  BY <1>1, <1>2, <1>5, <1>6 DEF Registered, Present
<1>11. CacheFollows'
  <2>1. cache # None => cache.age \in Nat
    BY DEF TypeOK, Opt, Answer
  <2>2. QED
    BY <1>1, <1>2, <1>4, <1>6, <2>1 DEF CacheFollows, Present
<1>12. SeenLately'
  <2>1. missed * Period \in Nat
    BY <1>6 DEF TypeOK, MaxMissed
  <2>2. QED
    BY <1>1, <1>5, <1>6, <2>1 DEF SeenLately
<1>13. Aged(devices)' /\ Aged(saved)'
  BY <1>1, <1>2, <1>5, <1>6 DEF Aged, Present
<1>14. QED
  BY <1>7, <1>8, <1>9, <1>10, <1>11, <1>12, <1>13
-----------------------------------------------------------------------------
(* The invariant, and what follows from it. *)

LEMMA InitInv == Init => IInv
<1> SUFFICES ASSUME Init PROVE IInv
  OBVIOUS
<1> USE DEF Init
<1>1. NoDevices \in DeviceMaps /\ NoDevices[Watched] = None
  BY Numbers DEF NoDevices, DeviceMaps, Opt
<1>2. Watched \notin Present
  BY DEF Present
<1>3. TypeOK
  <2>1. Interval \in 0 .. Interval + Jitter /\ 0 \in 0 .. MaxSince /\ MaxMissed \in 0 .. MaxMissed
    BY Numbers DEF MaxMissed
  <2>2. where \in [Stations -> Opt(IPs)] /\ ghosts \in [IPs -> Opt(Ghost)] /\ cache \in Opt(Answer)
    BY DEF Opt
  <2>3. QED
    BY <1>1, <2>1, <2>2 DEF TypeOK
<1>4. OneHolder /\ GhostsAreOlder
  BY DEF OneHolder, GhostsAreOlder
<1>5. DownIsBlind /\ Registered /\ CacheFollows /\ SeenLately /\ Aged(devices) /\ Aged(saved)
  BY <1>1, <1>2 DEF DownIsBlind, Registered, CacheFollows, SeenLately, Aged
<1>6. QED
  BY <1>3, <1>4, <1>5 DEF IInv

LEMMA NextInv == IInv /\ [Next]_vars => IInv'
<1> SUFFICES ASSUME IInv, [Next]_vars PROVE IInv'
  OBVIOUS
<1>1. CASE Next
  BY <1>1, GoesStep, StartStep, StopsStep, SavesStep, ScanStep, DeleteStep, AskStep, TickStep DEF Next
<1>2. CASE UNCHANGED vars
  BY <1>2 DEF vars, IInv, TypeOK, OneHolder, GhostsAreOlder, DownIsBlind, Registered, CacheFollows,
     SeenLately, Aged, Present
<1>3. QED
  BY <1>1, <1>2

LEMMA Invariant == Spec => []IInv
  BY InitInv, NextInv, PTL DEF Spec

\* Tracking's types, in which every age stays within its bound: a scan is
\* never later than a period, no ARP entry and no answer outlives its time.
THEOREM TrackingTypes == Spec => []TypeOK
<1>1. IInv => TypeOK
  BY DEF IInv
<1>2. QED
  BY <1>1, Invariant, PTL

\* ApplyScan, ResolveName and the TTL of the answers together: a device that
\* has been at its address for the bound is resolved to it by everyone.
THEOREM AnswersFollowDevices == Spec => []AnswersFollow
<1>1. IInv => AnswersFollow
  <2> SUFFICES ASSUME IInv, up, Watched \in Present, since > Linger + Period + TTL
               PROVE  /\ Resolve(devices, Mapped) = where[Watched]
                      /\ cache # None => cache.ip = where[Watched]
    BY Numbers DEF AnswersFollow, Settled
  <2>1. /\ since \in Nat /\ sinceScan \in 0 .. Period /\ Period \in Nat /\ Linger \in Nat /\ TTL \in Nat
        /\ cache # None => cache.age \in 0 .. TTL
    BY Numbers DEF IInv, TypeOK, Period, Opt, Answer
  <2>2. devices[Watched] # None /\ devices[Watched].ip = where[Watched]
    BY <2>1 DEF IInv, Registered
  <2>3. cache # None => cache.ip = where[Watched]
    BY <2>1 DEF IInv, CacheFollows
  <2>4. QED
    BY <2>2, <2>3, Numbers DEF Resolve, Mapped
<1>2. QED
  BY <1>1, Invariant, PTL

\* onlineLocked: a device survives as many missed scans as fit into the
\* window, however late each scan is.
THEOREM PresentStaysOnline == Spec => []PresentIsOnline
<1>1. IInv => PresentIsOnline
  <2> SUFFICES ASSUME IInv, up, devices[Watched] # None, (missed + 1) * Period <= 3 * Interval
               PROVE  devices[Watched].lastSeen <= onlineWindow
    BY DEF PresentIsOnline, Online, Period
  <2>1. missed \in 0 .. 3 /\ sinceScan \in 0 .. Period /\ Period \in Nat /\ Period >= Interval
    BY Numbers DEF IInv, TypeOK, MaxMissed, Period
  <2>2. missed < 3
    BY <2>1, Numbers
  <2>3. devices[Watched].lastSeen <= missed * Period + sinceScan /\ missed \in {0, 1, 2}
    BY <2>1, <2>2 DEF IInv, SeenLately, MaxMissed
  <2>4. devices[Watched].lastSeen \in Nat
    BY Numbers, TimeAssumption DEF IInv, TypeOK, DeviceMaps, Device, Opt, Time
  <2>5. QED
    BY <2>1, <2>3, <2>4, Numbers
<1>2. QED
  BY <1>1, Invariant, PTL

\* onlineLocked over ApplyScan, Open and Save: neither an outdated ARP entry
\* nor a restart from an old file keeps a device online that has left.
THEOREM LeftGoesOffline == Spec => []GoneIsOffline
<1>1. IInv => GoneIsOffline
  <2> SUFFICES ASSUME IInv, Watched \notin Present, since > Linger + onlineWindow,
                      devices[Watched] # None
               PROVE  ~(devices[Watched].lastSeen <= onlineWindow)
    BY DEF GoneIsOffline, Online
  <2>1. devices[Watched].lastSeen \in Nat /\ since \in Nat
    BY Numbers, TimeAssumption DEF IInv, TypeOK, DeviceMaps, Device, Opt, Time
  <2>2. QED
    BY <2>1, Numbers DEF IInv, Aged
<1>2. QED
  BY <1>1, Invariant, PTL
=============================================================================
