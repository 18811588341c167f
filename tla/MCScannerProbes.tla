-------------------------- MODULE MCScannerProbes --------------------------
(***************************************************************************)
(* The scanner with one more history variable: the devices the scan in     *)
(* progress found new or at another address.                               *)
(***************************************************************************)
EXTENDS MCScanner

VARIABLE fresh

FreshIn(table) ==
  {m \in MACs : \E i \in RowsOf(table, m) :
     ~table[i].self /\ (devices[m] = None \/ devices[m].ip # table[i].ip)}

ProbesInit == Init /\ fresh = {}
ProbesNext ==
  /\ Next
  /\ fresh' = IF phase = "read" /\ phase' = "self" THEN FreshIn(seen') ELSE fresh
ProbesSpec == ProbesInit /\ [][ProbesNext]_<<vars, fresh>>

\* "probeHostnames resolves hostnames for devices that are new, changed IP, or
\* are still nameless (rate-limited per scan)": a device this scan found new
\* or at another address is asked for its name, unless the scan has all the
\* probes it may make.
NewOrMovedIsProbed ==
  [][phase = "queue" /\ phase' = "answers" /\ ~stopped
       => \A m \in fresh :
            \/ devices[m] = None
            \/ \E j \in jobs : j.mac = m
            \/ Cardinality(jobs) >= MaxProbes]_<<vars, fresh>>
=============================================================================
