-------------------------- MODULE LifecycleProofs --------------------------
(***************************************************************************)
(* Proofs about Lifecycle for every value of the constants: the goroutines *)
(* of the process use the store as Store allows, so that what StoreProofs  *)
(* shows of every use of the store holds of the process; and a shutdown    *)
(* loses nothing.                                                          *)
(*                                                                         *)
(* The argument for the latter: a change that is not in the file keeps the *)
(* dirty flag up until a save that writes it has renamed its file.  So the *)
(* final flush skips the save only when nothing is owed, and a save that   *)
(* returns, whoever began it, leaves nothing owed.                         *)
(***************************************************************************)
EXTENDS Lifecycle, StoreProofs

\* A change that is not in the file is marked dirty.
OwedIsDirty == owes => dirty /\ pc \notin {"return", "down"}

LInv ==
  /\ at \in Places
  /\ OwedIsDirty
  /\ StopLosesNothing
-----------------------------------------------------------------------------
\* Every step of the process is a step of the store or leaves it alone.
LEMMA StoreStep == Steps => [Next]_vars
<1> SUFFICES ASSUME Steps PROVE [Next]_vars
  OBVIOUS
<1>1. CASE Signal \/ BeginShutdown \/ HttpDown \/ DnsDown
  BY <1>1 DEF Signal, BeginShutdown, HttpDown, DnsDown
<1>2. CASE Start \/ Exit \/ Die
  BY <1>2 DEF Start, Exit, Die, Next
<1>3. CASE FinalFlush
  BY <1>3 DEF FinalFlush, Next
<1>4. CASE ScanBegins \/ EndSweep \/ ArpFails \/ ScanSaves \/ ScannerReturns
  BY <1>4 DEF ScanBegins, EndSweep, ArpFails, ScanSaves, ScannerReturns
<1>5. CASE \E seen \in ScanResults : ReadsTable(seen)
  BY <1>5 DEF ReadsTable, Next, ScannerOps
<1>6. CASE \E m \in MACs : FillsIn(m)
  BY <1>6 DEF FillsIn, Next, ScannerOps
<1>7. CASE ScannerSave \/ Flush
  BY <1>7 DEF ScannerSave, Flush, Next
<1>8. CASE FlusherReturns \/ RequestArrives \/ RequestRefused
  BY <1>8 DEF FlusherReturns, RequestArrives, RequestRefused
<1>9. CASE RequestWrites
  BY <1>9 DEF RequestWrites, Next
<1>10. CASE Saving
  BY <1>10 DEF Saving, SaveGoesOn, SaveEnds, Next, SaveSteps
<1>11. QED
  BY <1>1, <1>2, <1>3, <1>4, <1>5, <1>6, <1>7, <1>8, <1>9, <1>10 DEF Steps

\* A request that changes the store goes on to save it.
LEMMA WebWrites ==
  ASSUME WebOps
  PROVE  pc = "idle" /\ pc' = "write" /\ dirty'
<1> DEFINE Writes == pc = "idle" /\ pc' = "write" /\ dirty'
<1>1. \A m \in MACs, label \in Opt(Labels) : SetLabel(m, label) => Writes
  BY DEF SetLabel, Request
<1>2. \A m \in MACs : DeleteDevice(m) => Writes
  BY DEF DeleteDevice, Request
<1>3. \A h \in Hosts, mac \in Opt(MACs), ip \in Opt(IPs) : SetMapping(h, mac, ip) => Writes
  BY DEF SetMapping, Request
<1>4. \A old, h \in Hosts, mac \in Opt(MACs), ip \in Opt(IPs) :
        UpdateMapping(old, h, mac, ip) => Writes
  BY DEF UpdateMapping, Request
<1>5. \A h \in Hosts : DeleteMapping(h) => Writes
  BY DEF DeleteMapping, Request
<1>6. QED
  BY <1>1, <1>2, <1>3, <1>4, <1>5 DEF WebOps

\* What the store's steps do to the dirty flag while the process runs.
LEMMA DirtyFlag ==
  ASSUME TypeOK, [Next]_vars, pc # "down", pc' # "down"
  PROVE  /\ dirty /\ pc # "return" => dirty'
         /\ memory' # memory => dirty' /\ pc = "idle"
         /\ pc' = "return" => pc \in {"rename", "return"}
<1>1. CASE \E seen \in ScanResults : ApplyScan(seen)
  <2>1. PICK seen \in ScanResults : ApplyScan(seen)
    BY <1>1
  <2>2. devices \in DeviceMaps
    BY DEF TypeOK
  <2>3. ~dirty' => devices' = devices
    BY <2>1, <2>2, ObserveNothing DEF ApplyScan
  <2>4. QED
    BY <2>1, <2>3 DEF ApplyScan, TypeOK, memory
<1>2. CASE ScannerOps /\ ~\E seen \in ScanResults : ApplyScan(seen)
  BY <1>2 DEF ScannerOps, SetDiscoveredHostname, SetVendor
<1>3. CASE WebOps
  BY <1>3, WebWrites
<1>4. CASE Save \/ SaveIfDirty
  BY <1>4 DEF Save, SaveIfDirty, Request, memory
<1>5. CASE SaveSteps
  BY <1>5 DEF SaveSteps, SaveWrite, SaveRename, SaveFails, SaveReturns, memory
<1>6. CASE Open \/ MoveAside \/ Crash \/ Damage
  BY <1>6 DEF Open, MoveAside, Crash, Damage
<1>7. CASE UNCHANGED vars
  BY <1>7 DEF vars, memory
<1>8. QED
  BY <1>1, <1>2, <1>3, <1>4, <1>5, <1>6, <1>7 DEF Next

LEMMA OwedStep ==
  ASSUME TypeOK, OwedIsDirty, [Next]_vars, Follow
  PROVE  OwedIsDirty'
<1> SUFFICES ASSUME owes' PROVE dirty' /\ pc' \notin {"return", "down"}
  BY DEF OwedIsDirty
<1>1. pc # "down" /\ pc' # "down"
  BY DEF Follow, OwedIsDirty
<1>2. dirty'
  BY <1>1, DirtyFlag DEF Follow, OwedIsDirty
<1>3. ASSUME pc' = "return" PROVE FALSE
  <2>1. pc = "return"
    BY <1>1, <1>3, DirtyFlag DEF Follow
  <2>2. ~owes /\ memory' = memory
    BY <1>1, <2>1, DirtyFlag DEF OwedIsDirty
  <2>3. QED
    BY <2>2 DEF Follow
<1>4. QED
  BY <1>1, <1>2, <1>3

\* How main gets to the end, and what the others do when it is there.
LEMMA WaysToTheEnd ==
  ASSUME at \in Places, Steps, at'.main = "end", ~failed'
  PROVE  \/ at.main = "end" /\ ~failed
         \/ ~dirty /\ pc = "idle" /\ UNCHANGED memory
         \/ pc = "return" /\ UNCHANGED memory
<1> USE DEF Places, Go
<1>1. CASE Signal \/ BeginShutdown \/ HttpDown \/ DnsDown
  BY <1>1 DEF Signal, BeginShutdown, HttpDown, DnsDown, flags
<1>2. CASE Start \/ Exit \/ Die
  BY <1>2 DEF Start, Exit, Die, Started, NoProcess
<1>3. CASE FinalFlush
  BY <1>3 DEF FinalFlush, flags, vars, memory
<1>4. CASE ScanBegins \/ EndSweep \/ ArpFails \/ ScanSaves \/ ScannerReturns
  BY <1>4 DEF ScanBegins, EndSweep, ArpFails, ScanSaves, ScannerReturns, flags
<1>5. CASE \E seen \in ScanResults : ReadsTable(seen)
  BY <1>5 DEF ReadsTable
<1>6. CASE \E m \in MACs : FillsIn(m)
  BY <1>6 DEF FillsIn
<1>7. CASE ScannerSave \/ Flush
  BY <1>7 DEF ScannerSave, Flush, flags
<1>8. CASE FlusherReturns \/ RequestArrives \/ RequestRefused
  BY <1>8 DEF FlusherReturns, RequestArrives, RequestRefused, flags
<1>9. CASE RequestWrites
  BY <1>9 DEF RequestWrites, flags
<1>10. CASE SaveGoesOn
  BY <1>10 DEF SaveGoesOn, flags
<1>11. CASE \E g \in DOMAIN at : SaveEnds(g)
  <2>1. PICK g \in DOMAIN at : SaveEnds(g)
    BY <1>11
  <2>2. CASE g = "main"
    BY <2>1, <2>2 DEF SaveEnds, SaveReturns
  <2>3. CASE g # "main"
    BY <2>1, <2>3 DEF SaveEnds
  <2>4. QED
    BY <2>2, <2>3
<1>12. QED
  BY <1>1, <1>2, <1>3, <1>4, <1>5, <1>6, <1>7, <1>8, <1>9, <1>10, <1>11
     DEF Steps, Saving

LEMMA StopStep ==
  ASSUME LInv, Steps, Follow
  PROVE  StopLosesNothing'
<1> SUFFICES ASSUME at'.main = "end", ~failed' PROVE ~owes'
  BY DEF StopLosesNothing
<1> USE DEF LInv
<1>1. CASE at.main = "end" /\ ~failed
  BY <1>1 DEF StopLosesNothing, Follow, BeforeFlush
<1>2. CASE ~dirty /\ pc = "idle" /\ UNCHANGED memory
  BY <1>2 DEF OwedIsDirty, Follow
<1>3. CASE pc = "return" /\ UNCHANGED memory
  BY <1>3 DEF OwedIsDirty, Follow
<1>4. QED
  BY <1>1, <1>2, <1>3, WaysToTheEnd

\* Each goroutine stays in its places.
LEMMA PlacesStep ==
  ASSUME at \in Places, Steps
  PROVE  at' \in Places
<1> USE DEF Places, Go
<1>1. CASE Signal \/ BeginShutdown \/ HttpDown \/ DnsDown
  BY <1>1 DEF Signal, BeginShutdown, HttpDown, DnsDown
<1>2. CASE Start \/ Exit \/ Die
  BY <1>2 DEF Start, Exit, Die, Started, NoProcess
<1>3. CASE FinalFlush
  BY <1>3 DEF FinalFlush
<1>4. CASE ScanBegins \/ EndSweep \/ ArpFails \/ ScanSaves \/ ScannerReturns
  BY <1>4 DEF ScanBegins, EndSweep, ArpFails, ScanSaves, ScannerReturns
<1>5. CASE \E seen \in ScanResults : ReadsTable(seen)
  BY <1>5 DEF ReadsTable
<1>6. CASE \E m \in MACs : FillsIn(m)
  BY <1>6 DEF FillsIn
<1>7. CASE ScannerSave \/ Flush
  BY <1>7 DEF ScannerSave, Flush
<1>8. CASE FlusherReturns \/ RequestArrives \/ RequestRefused
  BY <1>8 DEF FlusherReturns, RequestArrives, RequestRefused
<1>9. CASE RequestWrites
  BY <1>9 DEF RequestWrites
<1>10. CASE SaveGoesOn
  BY <1>10 DEF SaveGoesOn
<1>11. CASE \E g \in DOMAIN at : SaveEnds(g)
  BY <1>11 DEF SaveEnds, AfterSave
<1>12. QED
  BY <1>1, <1>2, <1>3, <1>4, <1>5, <1>6, <1>7, <1>8, <1>9, <1>10, <1>11
     DEF Steps, Saving

-----------------------------------------------------------------------------
(* Who runs saveLocked. *)

Held == pc \in {"write", "rename", "return"}
IsSaving(g) == at[g] = "saving"

\* While saveLocked runs, one goroutine waits for it, otherwise none does.
OneSaver ==
  /\ Held => \E g \in DOMAIN at : IsSaving(g)
  /\ ~Held => \A g \in DOMAIN at : ~IsSaving(g)
  /\ \A g, h \in DOMAIN at : IsSaving(g) /\ IsSaving(h) => g = h

\* One goroutine moves: on its own, into saveLocked, or out of it.
LEMMA MovesStep ==
  ASSUME at \in Places, OneSaver, NEW g \in DOMAIN at, NEW place, Go(g, place),
         \/ Held' = Held /\ ~IsSaving(g) /\ place # "saving"
         \/ ~Held /\ Held' /\ place = "saving"
         \/ Held /\ ~Held' /\ IsSaving(g) /\ place # "saving"
  PROVE  OneSaver'
<1>1. at' = [at EXCEPT ![g] = place] /\ at = [h \in DOMAIN at |-> at[h]]
  BY DEF Places, Go
<1>2. DOMAIN at' = DOMAIN at /\ \A h \in DOMAIN at : at'[h] = IF h = g THEN place ELSE at[h]
  BY <1>1
<1>3. QED
  BY <1>2 DEF OneSaver, IsSaving

LEMMA SaverStep ==
  ASSUME at \in Places, OneSaver, Steps
  PROVE  OneSaver'
<1>0. DOMAIN at = {"main", "scanner", "flusher", "request"}
      /\ at.main = at["main"] /\ at.scanner = at["scanner"]
      /\ at.flusher = at["flusher"] /\ at.request = at["request"]
  BY DEF Places
<1> USE DEF Held, IsSaving
<1>1. CASE BeginShutdown \/ HttpDown \/ DnsDown
  BY <1>0, <1>1, MovesStep DEF BeginShutdown, HttpDown, DnsDown, vars
<1>2. CASE Start \/ Exit \/ Die
  BY <1>2 DEF Start, Exit, Die, Started, NoProcess, Open, Crash, OneSaver
<1>3. CASE FinalFlush
  BY <1>0, <1>3, MovesStep DEF FinalFlush, SaveIfDirty, Request, vars
<1>4. CASE ScanBegins \/ EndSweep \/ ArpFails \/ ScanSaves \/ ScannerReturns
  BY <1>0, <1>4, MovesStep DEF ScanBegins, EndSweep, ArpFails, ScanSaves, ScannerReturns, vars
<1>5. CASE \E seen \in ScanResults : ReadsTable(seen)
  BY <1>0, <1>5, MovesStep DEF ReadsTable, ApplyScan
<1>6. CASE (\E m \in MACs : FillsIn(m)) \/ Signal
  BY <1>6 DEF FillsIn, Signal, SetDiscoveredHostname, SetVendor, OneSaver, vars
<1>7. CASE ScannerSave \/ Flush
  BY <1>0, <1>7, MovesStep DEF ScannerSave, Flush, Save, SaveIfDirty, Request
<1>8. CASE FlusherReturns \/ RequestArrives \/ RequestRefused
  BY <1>0, <1>8, MovesStep DEF FlusherReturns, RequestArrives, RequestRefused, vars
<1>9. CASE RequestWrites
  <2>1. ~Held /\ Held'
    BY <1>9, WebWrites DEF RequestWrites
  <2>2. QED
    BY <1>0, <1>9, <2>1, MovesStep DEF RequestWrites
<1>10. CASE SaveGoesOn
  BY <1>10 DEF SaveGoesOn, SaveWrite, SaveRename, OneSaver
<1>11. CASE \E g \in DOMAIN at : SaveEnds(g)
  <2>1. PICK g \in DOMAIN at : SaveEnds(g)
    BY <1>11
  <2>2. Held /\ ~Held' /\ IsSaving(g) /\ Go(g, AfterSave[g]) /\ AfterSave[g] # "saving"
    BY <1>0, <2>1 DEF SaveEnds, SaveReturns, SaveFails, AfterSave
  <2> HIDE DEF Held, IsSaving
  <2>3. QED
    BY <2>2, MovesStep
<1>12. QED
  BY <1>1, <1>2, <1>3, <1>4, <1>5, <1>6, <1>7, <1>8, <1>9, <1>10, <1>11
     DEF Steps, Saving

LEMMA FlagsStep ==
  ASSUME cancelled \in BOOLEAN, news \in BOOLEAN, failed \in BOOLEAN, Steps
  PROVE  cancelled' \in BOOLEAN /\ news' \in BOOLEAN /\ failed' \in BOOLEAN
<1>1. CASE UNCHANGED flags
  BY <1>1 DEF flags
<1>2. CASE Start \/ Exit \/ Die \/ Signal \/ BeginShutdown
  BY <1>2 DEF Start, Exit, Die, NoFlags, Signal, BeginShutdown
<1>3. CASE \E seen \in ScanResults : ReadsTable(seen)
  BY <1>3 DEF ReadsTable, Material
<1>4. CASE \E m \in MACs : FillsIn(m)
  BY <1>4 DEF FillsIn
<1>5. CASE \E g \in DOMAIN at : SaveEnds(g)
  BY <1>5 DEF SaveEnds
<1>6. QED
  BY <1>1, <1>2, <1>3, <1>4, <1>5 DEF Steps, HttpDown, DnsDown, FinalFlush, ScanBegins, EndSweep,
     ArpFails, ScanSaves, ScannerSave, ScannerReturns, Flush, FlusherReturns, RequestArrives,
     RequestRefused, RequestWrites, Saving, SaveGoesOn

LEMMA SaverCounted ==
  ASSUME OneSaver
  PROVE  Cardinality({g \in DOMAIN at : at[g] = "saving"}) = IF Held THEN 1 ELSE 0
<1> DEFINE Savers == {g \in DOMAIN at : at[g] = "saving"}
<1>1. CASE Held
  <2>1. PICK g \in DOMAIN at : Savers = {g}
    BY <1>1 DEF OneSaver, IsSaving
  <2>2. Cardinality({g}) = 1
    BY FS_Singleton
  <2>3. QED
    BY <1>1, <2>1, <2>2
<1>2. CASE ~Held
  <2>1. Savers = {}
    BY <1>2 DEF OneSaver, IsSaving
  <2>2. QED
    BY <1>2, <2>1, FS_EmptySet
<1>3. QED
  BY <1>1, <1>2
-----------------------------------------------------------------------------
\* Whatever the goroutines do, the store behaves as Store specifies: no
\* interleaving of main, the scanner, the flusher and requests goes beyond the
\* operations of store.go, each with the mutex to itself.
THEOREM ProcessImplementsStore == LifeSpec => ImplementsStore
<1>1. LifeInit => Init
  BY DEF LifeInit
<1>2. [LifeNext]_lifeVars => [Next]_vars
  <2>1. LifeNext => [Next]_vars
    BY StoreStep DEF LifeNext
  <2>2. UNCHANGED lifeVars => UNCHANGED vars
    BY DEF lifeVars
  <2>3. QED
    BY <2>1, <2>2
<1>3. QED
  BY <1>1, <1>2, PTL DEF LifeSpec, ImplementsStore, Spec

\* Seen from outside the process is a registry: its readers see one content
\* at a time, whichever goroutine changes it, and when main returns, is killed
\* or dies and is started again, they are back at a content they have seen,
\* with all that clients were promised in it.
THEOREM ProcessImplementsRegistry == LifeSpec => ImplementsRegistry
<1>1. QED
  BY ProcessImplementsStore, StoreImplementsRegistry, PTL DEF ImplementsStore

\* While the process runs and is shut down, a clean store is a saved store.
THEOREM ProcessCleanIsSaved == LifeSpec => []CleanMeansSaved
<1>1. QED
  BY ProcessImplementsStore, CleanIsSaved, PTL DEF ImplementsStore

\* What clients were told is stored survives every shutdown and every death
\* of the process.
THEOREM ProcessKeepsPromises == LifeSpec => []PromisesKept
<1>1. QED
  BY ProcessImplementsStore, PromisesAreKept, PTL DEF ImplementsStore

\* When run returns and its own save did not fail, the file holds every change
\* made before the final flush, whoever made it and whoever's saves failed.
THEOREM ShutdownLosesNothing == LifeSpec => []StopLosesNothing
<1>1. LifeInit => LInv
  BY DEF LifeInit, LInv, Places, NoProcess, OwedIsDirty, StopLosesNothing
<1>2. TypeOK /\ LInv /\ [LifeNext]_lifeVars => LInv'
  <2> SUFFICES ASSUME TypeOK, LInv, [LifeNext]_lifeVars PROVE LInv'
    OBVIOUS
  <2>1. CASE LifeNext
    <3>1. [Next]_vars
      BY <2>1, StoreStep DEF LifeNext
    <3>2. at' \in Places
      BY <2>1, PlacesStep DEF LifeNext, LInv
    <3>3. OwedIsDirty'
      BY <2>1, <3>1, OwedStep DEF LifeNext, LInv
    <3>4. StopLosesNothing'
      BY <2>1, StopStep DEF LifeNext
    <3>5. QED
      BY <3>2, <3>3, <3>4 DEF LInv
  <2>2. CASE UNCHANGED lifeVars
    BY <2>2 DEF lifeVars, vars, flags, LInv, OwedIsDirty, StopLosesNothing
  <2>3. QED
    BY <2>1, <2>2
<1>3. LifeSpec => []TypeOK
  BY ProcessImplementsStore, TypeCorrect, PTL DEF ImplementsStore
<1>4. LInv => StopLosesNothing
  BY DEF LInv
<1>5. QED
  BY <1>1, <1>2, <1>3, <1>4, PTL DEF LifeSpec

\* A goroutine in a save of its own is the one that holds the mutex: at most
\* one is, and one is as long as saveLocked runs.
THEOREM OneSavesAtATime == LifeSpec => []LifeTypeOK
<1> DEFINE Flags == cancelled \in BOOLEAN /\ news \in BOOLEAN /\ failed \in BOOLEAN /\ owes \in BOOLEAN
           I == at \in Places /\ OneSaver /\ Flags
<1>1. LifeInit => I
  <2> SUFFICES ASSUME LifeInit PROVE I
    OBVIOUS
  <2>1. at = NoProcess /\ pc = "down" /\ Flags
    BY DEF LifeInit, Init
  <2>2. at \in Places /\ \A g \in DOMAIN at : at[g] # "saving"
    BY <2>1 DEF Places, NoProcess
  <2>3. QED
    BY <2>1, <2>2 DEF OneSaver, Held, IsSaving
<1>2. I /\ [LifeNext]_lifeVars => I'
  <2> SUFFICES ASSUME I, [LifeNext]_lifeVars PROVE I'
    OBVIOUS
  <2>1. CASE LifeNext
    <3>1. at' \in Places /\ OneSaver'
      BY <2>1, PlacesStep, SaverStep DEF LifeNext
    <3>2. owes' \in BOOLEAN
      BY <2>1 DEF LifeNext, Follow
    <3>3. cancelled' \in BOOLEAN /\ news' \in BOOLEAN /\ failed' \in BOOLEAN
      BY <2>1, FlagsStep DEF LifeNext
    <3>4. QED
      BY <3>1, <3>2, <3>3
  <2>2. CASE UNCHANGED lifeVars
    BY <2>2 DEF lifeVars, vars, flags, OneSaver, Held, IsSaving
  <2>3. QED
    BY <2>1, <2>2
<1>3. I => LifeTypeOK
  BY SaverCounted DEF LifeTypeOK, Held
<1>4. QED
  BY <1>1, <1>2, <1>3, PTL DEF LifeSpec
=============================================================================
