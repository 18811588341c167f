------------------------------- MODULE Subnet -------------------------------
(***************************************************************************)
(* internal/scanner/netinfo.go: hostsInSubnet, the addresses a sweep of    *)
(* the network touches.  Addresses have Width bits (32 in the code).  Each *)
(* scan asks resolveNetwork for the network, which may change in between.  *)
(***************************************************************************)
EXTENDS Integers, Sequences, FiniteSets, Functions

CONSTANTS
  Width,
  MaxHosts     \* maxSweepHosts

ASSUME SubnetAssumption == Width \in Nat \ {0} /\ MaxHosts \in Nat \ {0, 1}

VARIABLE net   \* the network of the present scan: its address and the prefix's length

\* 1 << bits
Shifted[bits \in Nat] == IF bits = 0 THEN 1 ELSE 2 * Shifted[bits - 1]

Addresses == 0..(Shifted[Width] - 1)

\* ipn.IP.Mask(ipn.Mask)
Base(ip, ones) == ip - (ip % Shifted[Width - ones])

\* Mutant of Skipped: the two ends are left out of every subnet.
SkippedAlways(i, total, ones) == i \in {0, total - 1}

\* The network and broadcast addresses; /31 and /32 have none.
Skipped(i, total, ones) == ones < Width - 1 /\ i \in {0, total - 1}

\* What is collected in the first turns of the loop; uint32 wraps around.
Collected(ip, ones) ==
  LET total == Shifted[Width - ones]
      out[turns \in Nat] ==
        IF turns = 0 THEN <<>>
        ELSE IF Skipped(turns - 1, total, ones) THEN out[turns - 1]
        ELSE Append(out[turns - 1], (Base(ip, ones) + turns - 1) % Shifted[Width])
  IN  out

\* The empty sequence (nil) when there are too many hosts.
hostsInSubnet(ip, ones) ==
  LET total == Shifted[Width - ones]
  IN  IF total - 2 > MaxHosts THEN <<>> ELSE Collected(ip, ones)[total]

\* What resolveNetwork returns: the bits behind the prefix are 0.
Networks == {[ip |-> Base(ip, ones), ones |-> ones] : ip \in Addresses, ones \in 0..Width}

FirstScan == net \in Networks

NextScan == net' \in Networks

Sweeps == FirstScan /\ [][NextScan]_net

-----------------------------------------------------------------------------
\* The addresses that share the prefix, without the lowest and the highest
\* where the subnet has room for more than two.
HostsOf(ip, ones) ==
  LET size == Shifted[Width - ones]
      all == {a \in Addresses : a \div size = ip \div size}
      Lowest(a) == \A b \in all : a <= b
      Highest(a) == \A b \in all : b <= a
  IN  IF size > 2 THEN {a \in all : ~Lowest(a) /\ ~Highest(a)} ELSE all

\* hostsInSubnet yields each host of the subnet once, none outside it, at the
\* ends of the address space and for the shortest and longest prefixes as
\* well; or none at all if there are more than MaxHosts.
HostsAreTheSubnet ==
  LET hosts == hostsInSubnet(net.ip, net.ones)
      all == HostsOf(net.ip, net.ones)
  IN  /\ Range(hosts) = IF Cardinality(all) > MaxHosts THEN {} ELSE all
      /\ IsInjective(hosts)
=============================================================================
