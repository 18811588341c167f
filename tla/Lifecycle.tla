----------------------------- MODULE Lifecycle ------------------------------
(***************************************************************************)
(* cmd/local-dns/main.go: the goroutines of the process around the store,  *)
(* from start to exit.  main waits for a signal or for the web server to   *)
(* fail, shuts the servers down, flushes the store and returns; returning  *)
(* ends the scanner, the flusher and a request that is still there,        *)
(* wherever they are.                                                      *)
(*                                                                         *)
(* An action is one of Store's actions taken by one goroutine, or a step   *)
(* that leaves the store alone.  The scanner is kept to what it does to    *)
(* the store (its own bookkeeping is in Scanner), requests to those that   *)
(* change the store; a damaged file is the subject of Store.               *)
(***************************************************************************)
EXTENDS Store

VARIABLES
  at,          \* where each goroutine is; "saving" is in saveLocked
  cancelled,   \* ctx is cancelled
  news,        \* scan's local variable material
  failed,      \* history: the final save failed
  owes         \* history: a change made before the final flush is not in the file

flags == <<cancelled, news, failed>>
lifeVars == <<vars, at, flags, owes>>

Places == [main    : {"down", "serve", "http", "dns", "flush", "saving", "end"},
           scanner : {"down", "select", "sweep", "read", "fill", "save", "saving", "returned"},
           flusher : {"down", "select", "saving", "returned"},
           request : {"none", "open", "saving"}]

NoProcess == [main |-> "down", scanner |-> "down", flusher |-> "down", request |-> "none"]
Started == [main |-> "serve", scanner |-> "sweep", flusher |-> "select", request |-> "none"]
NoFlags == /\ cancelled' = FALSE /\ news' = FALSE /\ failed' = FALSE

LifeInit ==
  /\ Init
  /\ at = NoProcess
  /\ cancelled = FALSE /\ news = FALSE /\ failed = FALSE
  /\ owes = FALSE

Go(g, place) == at' = [at EXCEPT ![g] = place]

-----------------------------------------------------------------------------
(* main *)

\* The store is opened; the first scan begins at once.
Start ==
  /\ at.main = "down" /\ Open
  /\ at' = Started
  /\ NoFlags

Signal ==
  /\ at.main # "down" /\ ~cancelled
  /\ cancelled' = TRUE
  /\ UNCHANGED <<vars, at, news, failed>>

\* run leaves its select: for the signal, or because the web server cannot
\* listen, and then stop() cancels ctx.  The web server's listener is closed.
BeginShutdown ==
  /\ at.main = "serve"
  /\ Go("main", "http")
  /\ cancelled' = TRUE
  /\ UNCHANGED <<vars, news, failed>>

\* Mutant of HttpDown: the shutdown has no deadline.
HttpDownWaits ==
  /\ at.main = "http" /\ at.request = "none"
  /\ Go("main", "dns")
  /\ UNCHANGED <<vars, flags>>

\* httpSrv.Shutdown returns: no request is left, or it has taken 5 seconds.
HttpDown ==
  /\ at.main = "http"
  /\ Go("main", "dns")
  /\ UNCHANGED <<vars, flags>>

DnsDown ==
  /\ at.main = "dns"
  /\ Go("main", "flush")
  /\ UNCHANGED <<vars, flags>>

\* The final SaveIfDirty, once main has the mutex.
FinalFlush ==
  /\ at.main = "flush" /\ pc = "idle"
  /\ IF dirty THEN SaveIfDirty /\ Go("main", "saving")
     ELSE UNCHANGED vars /\ Go("main", "end")
  /\ UNCHANGED flags

\* run returns, and with it the process ends.
Exit ==
  /\ at.main = "end" /\ Crash
  /\ at' = NoProcess
  /\ NoFlags

\* The process dies of something else, a second signal for one.
Die ==
  /\ Crash
  /\ at' = NoProcess
  /\ NoFlags

-----------------------------------------------------------------------------
(* The scanner: Run, and what a scan does to the store. *)

\* A tick, or a trigger; select may prefer it to a cancelled ctx.
ScanBegins ==
  /\ at.scanner = "select"
  /\ Go("scanner", "sweep")
  /\ UNCHANGED <<vars, flags>>

EndSweep ==
  /\ at.scanner = "sweep"
  /\ Go("scanner", IF cancelled THEN "select" ELSE "read")
  /\ UNCHANGED <<vars, flags>>

ArpFails ==
  /\ at.scanner = "read"
  /\ Go("scanner", "select")
  /\ UNCHANGED <<vars, flags>>

\* Mutant of ReadsTable: the store's mutex is not taken.
ReadsTableUnlocked(seen) ==
  /\ at.scanner = "read" /\ pc # "down"
  /\ Go("scanner", "fill")
  /\ dirty' = TRUE
  /\ \E t \in Time : devices' = Observe(devices, seen, t)
  /\ news' = Material(devices, seen)
  /\ UNCHANGED <<mappings, pc, files, history, cancelled, failed>>

ReadsTable(seen) ==
  /\ at.scanner = "read" /\ ApplyScan(seen)
  /\ Go("scanner", "fill")
  /\ news' = Material(devices, seen)
  /\ UNCHANGED <<cancelled, failed>>

\* Names that probes return, and vendors.
FillsIn(m) ==
  /\ at.scanner = "fill"
  /\ \/ \E name \in Names : SetDiscoveredHostname(m, name)
     \/ \E vendor \in Vendors : devices[m] # None /\ devices[m].vendor = None /\ SetVendor(m, vendor)
  /\ news' = TRUE
  /\ UNCHANGED <<at, cancelled, failed>>

ScanSaves ==
  /\ at.scanner = "fill"
  /\ Go("scanner", IF news THEN "save" ELSE "select")
  /\ UNCHANGED <<vars, flags>>

\* Mutant of ScannerSave: the scanner does not wait for the save it began.
ScannerSaveAside ==
  /\ at.scanner = "save" /\ Save
  /\ Go("scanner", "select")
  /\ UNCHANGED flags

ScannerSave ==
  /\ at.scanner = "save" /\ Save
  /\ Go("scanner", "saving")
  /\ UNCHANGED flags

ScannerReturns ==
  /\ at.scanner = "select" /\ cancelled
  /\ Go("scanner", "returned")
  /\ UNCHANGED <<vars, flags>>

-----------------------------------------------------------------------------
(* The periodic flush, and the requests. *)

Flush ==
  /\ at.flusher = "select" /\ SaveIfDirty
  /\ Go("flusher", "saving")
  /\ UNCHANGED flags

FlusherReturns ==
  /\ at.flusher = "select" /\ cancelled
  /\ Go("flusher", "returned")
  /\ UNCHANGED <<vars, flags>>

\* A request is accepted as long as the listener is open; how long its client
\* takes to send the rest of it is not bounded.
RequestArrives ==
  /\ at.main = "serve" /\ at.request = "none"
  /\ Go("request", "open")
  /\ UNCHANGED <<vars, flags>>

RequestRefused ==
  /\ at.request = "open"
  /\ Go("request", "none")
  /\ UNCHANGED <<vars, flags>>

RequestWrites ==
  /\ at.request = "open" /\ WebOps
  /\ Go("request", "saving")
  /\ UNCHANGED flags

-----------------------------------------------------------------------------
(* saveLocked, run by whoever is "saving". *)

AfterSave == [main |-> "end", scanner |-> "select", flusher |-> "select", request |-> "none"]

SaveGoesOn == (SaveWrite \/ SaveRename) /\ UNCHANGED <<at, flags>>

SaveEnds(g) ==
  /\ at[g] = "saving"
  /\ \/ SaveReturns /\ UNCHANGED failed
     \/ SaveFails /\ failed' = (failed \/ g = "main")
  /\ Go(g, AfterSave[g])
  /\ UNCHANGED <<cancelled, news>>

-----------------------------------------------------------------------------
MainSteps == (BeginShutdown /\ cancelled) \/ HttpDown \/ DnsDown \/ Exit

Saving == SaveGoesOn \/ \E g \in DOMAIN at : SaveEnds(g)

Steps ==
  \/ Start \/ Signal \/ BeginShutdown \/ HttpDown \/ DnsDown \/ FinalFlush \/ Exit \/ Die
  \/ ScanBegins \/ EndSweep \/ ArpFails
  \/ \E seen \in ScanResults : ReadsTable(seen)
  \/ \E m \in MACs : FillsIn(m)
  \/ ScanSaves \/ ScannerSave \/ ScannerReturns
  \/ Flush \/ FlusherReturns
  \/ RequestArrives \/ RequestRefused \/ RequestWrites
  \/ Saving

\* The history of changes that are not in the file.
BeforeFlush == at.main \in {"serve", "http", "dns", "flush"}

Follow ==
  owes' = /\ pc' # "down"
          /\ ~(pc = "rename" /\ pc' = "return")
          /\ owes \/ (pc # "down" /\ BeforeFlush /\ memory' # memory)

LifeNext == Steps /\ Follow

LifeSpec == LifeInit /\ [][LifeNext]_lifeVars

\* main goes on, and so does whoever holds the mutex, if only to fail; the
\* mutex does not starve main.
LifeFairSpec ==
  /\ LifeSpec
  /\ WF_lifeVars(MainSteps /\ Follow) /\ WF_lifeVars(Saving /\ Follow)
  /\ SF_lifeVars(FinalFlush /\ Follow)
-----------------------------------------------------------------------------
(* Properties *)

\* Types, and: saveLocked is run by exactly the goroutine that waits for it.
LifeTypeOK ==
  /\ at \in Places
  /\ {cancelled, news, failed, owes} \subseteq BOOLEAN
  /\ Cardinality({g \in DOMAIN at : at[g] = "saving"})
       = IF pc \in {"write", "rename", "return"} THEN 1 ELSE 0

\* When run returns, unless its own last save failed, the file holds every
\* change made before the final flush began, whoever made it and whatever
\* earlier saves of the scanner, the flusher and requests failed.
StopLosesNothing == at.main = "end" /\ ~failed => ~owes

\* Whatever the goroutines do is what the store allows: taken together they
\* are behaviours of Store, each operation with the mutex to itself.
ImplementsStore == Spec

\* Once told to stop the process ends, whatever a client does that has a
\* request open and however the scanner and the flusher compete for the store.
ShutdownEnds == cancelled ~> at.main = "down"
=============================================================================
