---------------------------- MODULE MCDnsServer ----------------------------
(***************************************************************************)
(* The DNS server on a small instance: a UDP and a TCP lane, two upstreams *)
(* and one message of each kind.  A lane writes only its own entries and   *)
(* the maps may change at any time whoever else is reading them, so a lane *)
(* cannot tell whether another is busy: the runs let one message in at a   *)
(* time.                                                                   *)
(***************************************************************************)
EXTENDS DnsServer

CONSTANTS g, h, i

Ask(name, host, ip, type) ==
  [form |-> "normal", name |-> name, host |-> host, ip |-> ip, type |-> type]

EveryKind ==
  {[Ask("other", None, None, "A") EXCEPT !.form = form] : form \in Forms}
  \cup {Ask("apex", None, None, "SOA"), Ask("zone", g, None, "A"),
        Ask("label", g, None, "ANY"), Ask("reverse", None, i, "PTR")}

ByName == [x \in Hosts |-> IF x = g THEN 1 ELSE 2]

OneBusy == \A k, l \in Lanes : k = l \/ at[k] \in {"idle", "closed"} \/ at[l] \in {"idle", "closed"}

OneByOneSpec ==
  Init /\ [][Next /\ OneBusy']_vars /\ \A l \in Lanes : WF_vars(Serve(l))
=============================================================================
