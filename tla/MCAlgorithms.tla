---------------------------- MODULE MCAlgorithms ----------------------------
(***************************************************************************)
(* The pure functions of DnsNames, DnsMessage and Subnet on all small      *)
(* inputs, compared with definitions that do not compute the way the code  *)
(* does.  NameReading builds the messages and Subnet chooses the networks, *)
(* one kind of input at a time.                                            *)
(***************************************************************************)
EXTENDS NameReading, DnsMessage, Subnet

CONSTANTS
  MaxData,     \* the length of the longest data of a record
  MaxList      \* the length of the longest part of a list of node names

LocalLabel == <<0>>

\* The networks are tried at one of the messages.
NoNet == [ip |-> 0, ones |-> Width]
Zeros == [i \in 1..MaxLen |-> 0]

FirstInput == Init /\ net = NoNet

NextInput ==
  \/ NextByte /\ net = NoNet /\ UNCHANGED net
  \/ NextScan /\ msg = Zeros /\ UNCHANGED msg

Inputs == FirstInput /\ [][NextInput]_<<msg, net>>

-----------------------------------------------------------------------------
(* Names *)

\* Names of up to three labels, of every length and one beyond; letters are in
\* either case.
TestNames == UNION {[1..n -> {[i \in 1..len |-> 0] : len \in 0..(MaxLabel + 1)}] : n \in 0..3}
CaseNames == UNION {[1..n -> {<<c>> : c \in Uppers}] : n \in 1..2}
AllTestNames == TestNames \cup CaseNames

-----------------------------------------------------------------------------
(* Messages *)

Writable == {name \in TestNames : EncodeName(name) # Error}

Record(owner, type, class, data) ==
  [name |-> owner, type |-> type, class |-> class, ttl |-> 0, data |-> data]

\* The reply to a question for name has up to two records behind a pointer to
\* it, the second of which names target, and perhaps one that target owns.
Answers(target, class) ==
  <<Record(NamePtr(HeaderLen), NBStat, class, msg),
    Record(NamePtr(HeaderLen), PTR, class, EncodeName(target))>>
Authority(target, class) == <<Record(EncodeName(target), NBStat, class, msg)>>

\* The question is the one that was asked, up to the end of the query.
IsQuestion(q, req, name) == q.name = name /\ q.next = Len(req)

\* Each record is behind the other up to the end.
HasRecords(read, reply, names, written, class) ==
  /\ read.response /\ read.next = Len(reply)
  /\ Len(read.rrs) = Len(written)
  /\ \A i \in DOMAIN written :
       /\ read.rrs[i].name = names[i]
       /\ <<read.rrs[i].type, read.rrs[i].class>> = <<written[i].type, class>>
       /\ SubSeq(reply, read.rrs[i].start + 1, read.rrs[i].next) = written[i].data

\* The host that is asked for is target if the reply has its PTR record, but
\* without the label "local" if that comes last behind another.
InLocal(name) == Len(name) > 1 /\ name[Len(name)] = Local
IsHost(host, target, given) ==
  IF given THEN target = IF InLocal(target) THEN Append(host, Local) ELSE host
  ELSE host = <<>>

ReadsBack(reply, read, name, target, class, n, m) ==
  /\ read.questions = <<[name |-> name, type |-> PTR, class |-> class,
                         next |-> HeaderLen + Len(EncodeName(name)) + QuestionTail]>>
  /\ HasRecords(read, reply, [i \in 1..(n + m) |-> IF i <= n THEN name ELSE target],
                SubSeq(Answers(target, class), 1, n) \o SubSeq(Authority(target, class), 1, m), class)
  /\ \A i \in 1..(n + m) : read.rrs[i].section = IF i <= n THEN 1 ELSE 2
  /\ IsHost(extractMDNSPtr(reply, name), target, n = 2)
  /\ \A other \in Writable \ {name} : extractMDNSPtr(reply, other) = <<>>
  /\ \A k \in 0..(Len(reply) - 1) : ParseMessage(SubSeq(reply, 1, k)) = Error

Exchange(req, q, name, target, class, n, m) ==
  LET reply == BuildReply(req, q, SubSeq(Answers(target, class), 1, n),
                          SubSeq(Authority(target, class), 1, m))
  IN  IsQuestion(q, req, name) /\ ReadsBack(reply, ParseMessage(reply), name, target, class, n, m)

\* What the server writes is read as it was written: a query by the decoder
\* of questions, a reply by the decoder of replies, each record behind the
\* other up to the end, and the scanner takes the target of the PTR record that
\* answers its question, and of no other, without the label "local" behind
\* another one.  A reply that is cut, wherever, is refused.
RepliesReadBack == Len(msg) <= MaxData =>
  \A name, target \in Writable, class \in {ClassIN, ClassIN + HighBit}, n \in 0..2, m \in 0..1 :
    LET req == BuildQuery(1, 1, name, PTR, class)
    IN  Exchange(req, ParseQuestion(req, decodeNameUncompressed(req, HeaderLen)),
                 name, target, class, n, m)

\* A node status reply, whatever questions it echoes and whichever way its
\* name is written, yields the name of the first complete entry that is one of
\* a workstation and can be read, without its padding; otherwise none.
NodeNameIsFirst == Len(msg) <= MaxList =>
  \A wire \in {EncodeName(<<>>), EncodeName(<<<<1>>, <<0>>>>), NamePtr(0)}, qd \in 0..2 :
    LET list == msg \o <<2, 9, 0, 0>>
        fields == <<NBStat, ClassIN>>
        reply == <<1, HighBit, qd, 1, 0, 0>> \o FlattenSeq([i \in 1..qd |-> wire \o fields])
                   \o wire \o fields \o <<0, Len(list)>> \o list
        read == parseNBNSReply(reply)
        entries == 1..Min({At(list, 0), (Len(list) - 1) \div EntryLen})
        ByteAt(i, k) == At(list, (i - 1) * EntryLen + k)
        Padding == {Blank, 0}
        Names(i) ==
          IF ByteAt(i, NameLen + 1) # 0 \/ ByteAt(i, NameLen + 2) >= HighBit THEN {}
          ELSE {name \in {[k \in 1..len |-> ByteAt(i, k)] : len \in 1..NameLen} :
                  /\ name[Len(name)] \notin Padding
                  /\ \A k \in (Len(name) + 1)..NameLen : ByteAt(i, k) \in Padding
                  /\ \A k \in DOMAIN name : name[k] \notin Unprintable}
    IN  IF read = <<>> THEN \A i \in entries : Names(i) = {}
        ELSE \E i \in entries : read \in Names(i) /\ \A j \in 1..(i - 1) : Names(j) = {}

=============================================================================
