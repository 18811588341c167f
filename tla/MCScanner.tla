----------------------------- MODULE MCScanner -----------------------------
(***************************************************************************)
(* The scanner on small instances.  b is the machine local-dns runs on and *)
(* has one address; a is a neighbour.  Tables has the ARP tables in which  *)
(* a has no row, one, or two while it changes its address; StillTables     *)
(* those of a network whose devices never move.                            *)
(***************************************************************************)
EXTENDS Scanner, SequencesExt

CONSTANTS a, b, c, v

Row(m, ip, self) == [mac |-> m, ip |-> ip, self |-> self]

Neighbour == {Row(a, ip, FALSE) : ip \in IPs}
Address == CHOOSE ip \in IPs : TRUE
Own == Row(b, Address, TRUE)

Tables ==
  {<<>>, <<Own>>}
  \cup {<<r>> : r \in Neighbour} \cup {<<r, Own>> : r \in Neighbour}
  \cup {<<r, s>> : r \in Neighbour, s \in Neighbour}

StillRows == <<Row(a, Address, FALSE), Row(b, Address, FALSE), Row(c, Address, FALSE)>>
StillTables == {StillRows}
LiveTables == {<<>>, StillRows, Reverse(StillRows)}

\* Users ask for scans, but change nothing.
LiveNext ==
  \/ Run \/ ScanSteps \/ ArpFails
  \/ TickerFires \/ Trigger \/ Stop \/ Restart

LiveSpec == Init /\ [][LiveNext]_vars /\ Fairness

NoVendors == [m \in MACs |-> None]
OneVendor == [m \in MACs |-> IF m = a THEN v ELSE None]
=============================================================================
