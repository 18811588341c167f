----------------------------- MODULE DnsServer -----------------------------
(***************************************************************************)
(* internal/dnsserver: what becomes of a DNS message while the registry    *)
(* changes under it.                                                       *)
(*                                                                         *)
(* A lane is one goroutine that handles messages one after the other: a    *)
(* UDP lane stands for the goroutine serveUDP starts for a packet (and,    *)
(* when that has ended, for the next one), a TCP lane for serveTCPConn on  *)
(* one connection.  Lanes meet only in the store, whose operations are     *)
(* atomic to a reader: each ResolveName or ResolvePTR sees one state of    *)
(* the maps, two of them may see two.                                      *)
(*                                                                         *)
(* A message is kept to what decides its fate: its form, how its name      *)
(* relates to the domain, and whether its type asks for a v4 or a v6       *)
(* address.  A reply is its code, the AA flag and the one datum of its     *)
(* answer.                                                                 *)
(***************************************************************************)
EXTENDS StoreData

CONSTANTS
  UDPLanes, TCPLanes,
  Questions,       \* the messages clients send
  V6,              \* the addresses of IPs that are IPv6
  Rank,            \* the alphabetical order of host names
  LongHosts,       \* names that exceed 255 bytes with the domain appended
  SingleLabel,     \* answer_single_label
  NumUpstreams,    \* len(Upstreams)
  MaxTCPQueries    \* queries served on one connection

Forms == {"junk", "odd", "broken", "chaos", "normal"}
NameKinds == {"apex", "zone", "label", "reverse", "other"}
Types == {"A", "AAAA", "ANY", "PTR", "SOA"}

\* "junk" is a short message or a response, "odd" one with an opcode or
\* several questions, "broken" an unparsable question, "chaos" another class.
Question == [form : Forms, name : NameKinds, host : Opt(Hosts),
             ip : Opt(IPs), type : Types]

ASSUME DnsAssumption ==
  /\ UDPLanes \cap TCPLanes = {}
  /\ \A q \in Questions :
       /\ q \in Question
       /\ q.name \in {"zone", "label"} => q.host # None
       /\ q.name = "reverse" => q.ip # None
  /\ V6 \subseteq IPs /\ LongHosts \subseteq Hosts
  /\ Rank \in [Hosts -> Nat] /\ \A g, h \in Hosts : Rank[g] = Rank[h] => g = h
  /\ SingleLabel \in BOOLEAN
  /\ NumUpstreams \in Nat \ {0} /\ MaxTCPQueries \in Nat \ {0}

Lanes == UDPLanes \cup TCPLanes
Upstreams == 1 .. NumUpstreams
MaxReads == 3     \* datagrams exchangeUDP reads from one upstream

VARIABLES
  devices, mappings,  \* the store, as readers see it
  listening,          \* the sockets are open
  at,                 \* per lane, where it is
  query,              \* per lane, the message it handles
  upstream,           \* per lane, the upstream it asks
  reads,              \* per lane, datagrams read from that upstream
  reply,              \* per lane, the reply it is about to write
  served,             \* per TCP lane, replies written on this connection
  verdicts,           \* history: what local would have said, since the arrival
  down                \* history: the upstreams that failed this query

registry == <<devices, mappings>>
work == <<query, upstream, reads, reply, verdicts, down>>
vars == <<registry, listening, at, work, served>>

Places == {"idle", "closed", "handle", "again", "upstream", "reply"}
Reply == [rcode : {"noerror", "nxdomain", "servfail", "formerr", "relayed", "forward", "none"},
          aa : BOOLEAN, data : Opt(IPs \cup Hosts)]

Local(rcode, data) == [rcode |-> rcode, aa |-> TRUE, data |-> data]
Plain(rcode) == [rcode |-> rcode, aa |-> FALSE, data |-> None]
Forward == Plain("forward")   \* local's nil
NoReply == Plain("none")

-----------------------------------------------------------------------------
(* What the store and local say of a message, in one state of the maps. *)

Known(h) == mappings[h] # None
Address(h) == Resolve(devices, mappings[h])

\* answerName's records: the address if the type asks for its family.
AnswerData(q, ip) ==
  IF \/ ip # None /\ ip \notin V6 /\ q.type \in {"A", "ANY"}
     \/ ip # None /\ ip \in V6 /\ q.type \in {"AAAA", "ANY"}
  THEN ip ELSE None

AnswerName(q) ==
  IF Known(q.host) THEN Local("noerror", AnswerData(q, Address(q.host)))
  ELSE Local("nxdomain", None)

\* ResolvePTR: the first name in alphabetical order that has the address.
NamesOf(ip) == {h \in Hosts : Known(h) /\ Address(h) = ip}
FirstOf(hosts) == CHOOSE h \in hosts : \A g \in hosts : Rank[h] <= Rank[g]
ResolvePTR(ip) == FirstOf(NamesOf(ip))

AnswerPTR(q) ==
  IF NamesOf(q.ip) = {} THEN Forward
  ELSE IF ResolvePTR(q.ip) \in LongHosts THEN Local("servfail", None)
  ELSE Local("noerror", ResolvePTR(q.ip))

IsPTR(q) == q.type = "PTR" /\ q.name \notin {"apex", "zone"}
IsSingleLabel(q) == SingleLabel /\ q.name = "label" /\ ~IsPTR(q)

\* Mutant of LocalAnswer: unknown names of the domain go upstream.
LocalAnswerOrForward(q) ==
  IF q.name = "apex" THEN Local("noerror", None)
  ELSE IF IsPTR(q) THEN IF q.name = "reverse" THEN AnswerPTR(q) ELSE Forward
  ELSE IF (q.name = "zone" \/ IsSingleLabel(q)) /\ Known(q.host) THEN AnswerName(q)
  ELSE Forward

LocalAnswer(q) ==
  IF q.name = "apex" THEN Local("noerror", None)
  ELSE IF q.name = "zone" THEN AnswerName(q)
  ELSE IF IsPTR(q) THEN IF q.name = "reverse" THEN AnswerPTR(q) ELSE Forward
  ELSE IF IsSingleLabel(q) /\ Known(q.host) THEN AnswerName(q)
  ELSE Forward

Verdict(q) == IF q.form = "normal" THEN LocalAnswer(q) ELSE Forward

-----------------------------------------------------------------------------
Idle(l) == IF l \in UDPLanes THEN "idle" ELSE "closed"
ForAll(S, x) == [l \in S |-> x]

Init ==
  /\ devices = NoDevices /\ mappings = NoMappings
  /\ listening = TRUE
  /\ at = [l \in Lanes |-> Idle(l)]
  /\ query = ForAll(Lanes, None) /\ reply = ForAll(Lanes, NoReply)
  /\ upstream = ForAll(Lanes, 1) /\ reads = ForAll(Lanes, 0)
  /\ served = ForAll(TCPLanes, 0)
  /\ verdicts = ForAll(Lanes, {}) /\ down = ForAll(Lanes, {})

\* serveTCP accepts a connection.
Accept(l) ==
  /\ listening /\ l \in TCPLanes /\ at[l] = "closed"
  /\ at' = [at EXCEPT ![l] = "idle"]
  /\ served' = [served EXCEPT ![l] = 0]
  /\ UNCHANGED <<registry, listening, work>>

\* A UDP lane needs the socket; an accepted connection outlives the listener.
Receive(l, q) ==
  /\ at[l] = "idle" /\ (l \in UDPLanes => listening)
  /\ at' = [at EXCEPT ![l] = "handle"]
  /\ query' = [query EXCEPT ![l] = q]
  /\ verdicts' = [verdicts EXCEPT ![l] = {Verdict(q)}]
  /\ UNCHANGED <<registry, listening, upstream, reads, reply, served, down>>

\* The client closes the connection, or is silent for tcpIdle.
Hangup(l) ==
  /\ l \in TCPLanes /\ at[l] = "idle"
  /\ at' = [at EXCEPT ![l] = "closed"]
  /\ UNCHANGED <<registry, listening, work, served>>

\* The lane is done with its message.
Clear(l) ==
  /\ query' = [query EXCEPT ![l] = None]
  /\ reply' = [reply EXCEPT ![l] = NoReply]
  /\ upstream' = [upstream EXCEPT ![l] = 1] /\ reads' = [reads EXCEPT ![l] = 0]
  /\ verdicts' = [verdicts EXCEPT ![l] = {}] /\ down' = [down EXCEPT ![l] = {}]

\* handle returns nil: no reply, and a TCP connection is closed.
Drop(l) ==
  /\ at[l] = "handle" /\ query[l].form = "junk"
  /\ at' = [at EXCEPT ![l] = Idle(l)]
  /\ Clear(l)
  /\ UNCHANGED <<registry, listening, served>>

Say(l, r) ==
  /\ at' = [at EXCEPT ![l] = "reply"]
  /\ reply' = [reply EXCEPT ![l] = r]

AskUpstream(l) ==
  /\ at' = [at EXCEPT ![l] = "upstream"]
  /\ UNCHANGED reply

FormErr(l) ==
  /\ at[l] = "handle" /\ query[l].form = "broken"
  /\ Say(l, Plain("formerr"))
  /\ UNCHANGED <<registry, listening, query, upstream, reads, served, verdicts, down>>

\* Opcodes, message counts and classes that are not for this server.
Relay(l) ==
  /\ at[l] = "handle" /\ query[l].form \in {"odd", "chaos"}
  /\ AskUpstream(l)
  /\ UNCHANGED <<registry, listening, query, upstream, reads, served, verdicts, down>>

\* The cases of local that look into the store at most once.
AnswerOnce(l) ==
  /\ at[l] = "handle" /\ query[l].form = "normal" /\ ~IsSingleLabel(query[l])
  /\ IF LocalAnswer(query[l]) = Forward THEN AskUpstream(l)
     ELSE Say(l, LocalAnswer(query[l]))
  /\ UNCHANGED <<registry, listening, query, upstream, reads, served, verdicts, down>>

\* A single label is looked up once to see whether it exists ...
LookupLabel(l) ==
  /\ at[l] = "handle" /\ query[l].form = "normal" /\ IsSingleLabel(query[l])
  /\ IF Known(query[l].host) THEN at' = [at EXCEPT ![l] = "again"] /\ UNCHANGED reply
     ELSE AskUpstream(l)
  /\ UNCHANGED <<registry, listening, query, upstream, reads, served, verdicts, down>>

\* Mutant of AnswerLabel: the second lookup's "found" is taken for granted.
AnswerLabelUnchecked(l) ==
  /\ at[l] = "again"
  /\ LET q == query[l] IN
     Say(l, Local("noerror", IF Known(q.host) THEN AnswerData(q, Address(q.host)) ELSE None))
  /\ UNCHANGED <<registry, listening, query, upstream, reads, served, verdicts, down>>

\* ... and once more by answerName.
AnswerLabel(l) ==
  /\ at[l] = "again"
  /\ Say(l, AnswerName(query[l]))
  /\ UNCHANGED <<registry, listening, query, upstream, reads, served, verdicts, down>>

-----------------------------------------------------------------------------
(* forward: the upstreams in order, over the client's transport. *)

UpstreamAnswers(l) ==
  /\ at[l] = "upstream"
  /\ Say(l, Plain("relayed"))
  /\ UNCHANGED <<registry, listening, query, upstream, reads, served, verdicts, down>>

\* Mutants of NextUpstream: the last upstream is never asked; the first one
\* is asked again after the last.
NextButLast(l) ==
  /\ down' = [down EXCEPT ![l] = @ \cup {upstream[l]}]
  /\ reads' = [reads EXCEPT ![l] = 0]
  /\ IF upstream[l] + 1 < NumUpstreams
     THEN upstream' = [upstream EXCEPT ![l] = @ + 1] /\ UNCHANGED <<at, reply>>
     ELSE Say(l, Plain("servfail")) /\ UNCHANGED upstream

NextAround(l) ==
  /\ down' = [down EXCEPT ![l] = @ \cup {upstream[l]}]
  /\ reads' = [reads EXCEPT ![l] = 0]
  /\ upstream' = [upstream EXCEPT ![l] = IF @ < NumUpstreams THEN @ + 1 ELSE 1]
  /\ UNCHANGED <<at, reply>>

\* The exchange with this upstream failed: the next one, or SERVFAIL.
NextUpstream(l) ==
  /\ down' = [down EXCEPT ![l] = @ \cup {upstream[l]}]
  /\ reads' = [reads EXCEPT ![l] = 0]
  /\ IF upstream[l] < NumUpstreams
     THEN upstream' = [upstream EXCEPT ![l] = @ + 1] /\ UNCHANGED <<at, reply>>
     ELSE Say(l, Plain("servfail")) /\ UNCHANGED upstream

\* A dial, write or read error, or a timeout.
UpstreamFails(l) ==
  /\ at[l] = "upstream"
  /\ NextUpstream(l)
  /\ UNCHANGED <<registry, listening, query, served, verdicts>>

\* Mutant of Mismatch: one read too many.
MismatchOnceMore(l) ==
  /\ l \in UDPLanes /\ at[l] = "upstream"
  /\ IF reads[l] < MaxReads
     THEN reads' = [reads EXCEPT ![l] = @ + 1] /\ UNCHANGED <<at, reply, upstream, down>>
     ELSE NextUpstream(l)
  /\ UNCHANGED <<registry, listening, query, served, verdicts>>

\* A datagram with another ID (over TCP the ID is not looked at).
Mismatch(l) ==
  /\ l \in UDPLanes /\ at[l] = "upstream"
  /\ IF reads[l] + 1 < MaxReads
     THEN reads' = [reads EXCEPT ![l] = @ + 1] /\ UNCHANGED <<at, reply, upstream, down>>
     ELSE NextUpstream(l)
  /\ UNCHANGED <<registry, listening, query, served, verdicts>>

-----------------------------------------------------------------------------
(* Writing the reply. *)

\* WriteToUDP, into a closed socket after Shutdown; the goroutine ends.
WriteUDP(l) ==
  /\ l \in UDPLanes /\ at[l] = "reply"
  /\ at' = [at EXCEPT ![l] = "idle"]
  /\ Clear(l)
  /\ UNCHANGED <<registry, listening, served>>

\* writeTCPMsg succeeds; the loop reads the next message unless the
\* connection has had its share.
WriteTCP(l) ==
  /\ l \in TCPLanes /\ at[l] = "reply"
  /\ served' = [served EXCEPT ![l] = @ + 1]
  /\ at' = [at EXCEPT ![l] = IF served[l] + 1 < MaxTCPQueries THEN "idle" ELSE "closed"]
  /\ Clear(l)
  /\ UNCHANGED <<registry, listening>>

\* writeTCPMsg fails or takes longer than tcpTimeout.
WriteTCPFails(l) ==
  /\ l \in TCPLanes /\ at[l] = "reply"
  /\ at' = [at EXCEPT ![l] = "closed"]
  /\ Clear(l)
  /\ UNCHANGED <<registry, listening, served>>

\* Shutdown closes the listeners; it waits for the two serve loops only.
Shutdown ==
  /\ listening /\ listening' = FALSE
  /\ UNCHANGED <<registry, at, work, served>>

-----------------------------------------------------------------------------
(* The store's other users change the maps: users edit mappings and delete *)
(* devices, scans move devices.                                            *)

Deciding(l) == at[l] \in {"handle", "again"}

\* Appended to every change of the maps: the history, and what stays.
Witness ==
  /\ UNCHANGED <<listening, at, query, upstream, reads, reply, served, down>>
  /\ verdicts' = [l \in Lanes |-> IF Deciding(l) THEN verdicts[l] \cup {Verdict(query[l])'}
                                  ELSE verdicts[l]]

SetMapping(h, mac, ip) ==
  /\ ExactlyOneTarget(mac, ip)
  /\ mappings' = [mappings EXCEPT ![h] = [hostname |-> h, mac |-> mac, ip |-> ip]]
  /\ UNCHANGED devices
  /\ Witness

RenameMapping(old, h) ==
  /\ mappings[old] # None /\ mappings[h] = None
  /\ mappings' = [mappings EXCEPT ![h] = [mappings[old] EXCEPT !.hostname = h],
                                  ![old] = None]
  /\ UNCHANGED devices
  /\ Witness

DeleteMapping(h) ==
  /\ mappings[h] # None
  /\ mappings' = [mappings EXCEPT ![h] = None]
  /\ UNCHANGED devices
  /\ Witness

ScanSees(m, ip) ==
  /\ devices' = Observe(devices, <<[mac |-> m, ip |-> ip, self |-> FALSE]>>, 0)
  /\ UNCHANGED mappings
  /\ Witness

DeleteDevice(m) ==
  /\ devices[m] # None
  /\ devices' = [devices EXCEPT ![m] = None]
  /\ UNCHANGED mappings
  /\ Witness

-----------------------------------------------------------------------------
\* What a lane does with a message it has.
Serve(l) ==
  \/ Drop(l) \/ FormErr(l) \/ Relay(l)
  \/ AnswerOnce(l) \/ LookupLabel(l) \/ AnswerLabel(l)
  \/ UpstreamAnswers(l) \/ UpstreamFails(l) \/ Mismatch(l)
  \/ WriteUDP(l) \/ WriteTCP(l) \/ WriteTCPFails(l)

Clients ==
  \E l \in Lanes : Accept(l) \/ Hangup(l) \/ \E q \in Questions : Receive(l, q)

Users ==
  \/ \E h \in Hosts, mac \in Opt(MACs), ip \in Opt(IPs) : SetMapping(h, mac, ip)
  \/ \E old, h \in Hosts : RenameMapping(old, h)
  \/ \E h \in Hosts : DeleteMapping(h)
  \/ \E m \in MACs, ip \in IPs : ScanSees(m, ip)
  \/ \E m \in MACs : DeleteDevice(m)

Next == (\E l \in Lanes : Serve(l)) \/ Clients \/ Users \/ Shutdown

Spec == Init /\ [][Next]_vars

\* Each goroutine runs on: every exchange and every write has a deadline.
FairSpec == Spec /\ \A l \in Lanes : WF_vars(Serve(l))

-----------------------------------------------------------------------------
(* Properties *)

TypeOK ==
  /\ devices \in DeviceMaps /\ mappings \in MappingMaps
  /\ listening \in BOOLEAN
  /\ at \in [Lanes -> Places]
  /\ query \in [Lanes -> Opt(Questions)]
  /\ upstream \in [Lanes -> Upstreams]
  /\ reads \in [Lanes -> 0 .. MaxReads - 1]
  /\ reply \in [Lanes -> Reply]
  /\ served \in [TCPLanes -> 0 .. MaxTCPQueries]
  /\ verdicts \in [Lanes -> SUBSET Reply]
  /\ down \in [Lanes -> SUBSET Upstreams]

\* The end of a query as its client sees it: a relayed answer, and the
\* SERVFAIL of forward, are both "not mine".
Outcome(l) == IF reply[l].rcode \in {"relayed", "servfail"} /\ ~reply[l].aa
              THEN Forward ELSE reply[l]

Replying(l) == at[l] = "reply" /\ query[l].form # "broken"

\* A query is answered as if it had been looked up at one moment since it
\* arrived, however the registry changed meanwhile: the address belongs to
\* the name, the name to the address, and "no such address" was true.  (Not
\* for the NXDOMAIN of a single label, see SingleLabelGoesUpstream.)
AnsweredAsOfOneMoment ==
  \A l \in Lanes :
    Replying(l) /\ ~(IsSingleLabel(query[l]) /\ reply[l].rcode = "nxdomain")
      => Outcome(l) \in verdicts[l]

\* A name of the domain never goes upstream, and neither does a single label
\* or an address that was known as long as the query was being decided.
OwnNamesStayHome ==
  \A l \in Lanes : at[l] = "upstream" /\ query[l].form = "normal" =>
    query[l].name \notin {"apex", "zone"} /\ Forward \in verdicts[l]

\* The client is told SERVFAIL by forward only when every upstream failed it.
ServFailAfterAll ==
  \A l \in Lanes : at[l] = "reply" /\ reply[l] = Plain("servfail") => down[l] = Upstreams

\* No message but junk goes without a reply: whatever upstreams do, within a
\* bounded number of steps something is written to the client.
QueriesAreAnswered ==
  \A l \in Lanes :
    (at[l] = "handle" /\ query[l].form # "junk") ~> at[l] = "reply"

\* server_test.go:301, "Unknown single-label goes upstream": a single label is
\* never answered with NXDOMAIN.
SingleLabelGoesUpstream ==
  \A l \in Lanes : at[l] = "reply" /\ query[l].name = "label"
    => reply[l].rcode # "nxdomain"
=============================================================================
