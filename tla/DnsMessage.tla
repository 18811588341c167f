----------------------------- MODULE DnsMessage -----------------------------
(***************************************************************************)
(* internal/dnsmsg/dnsmsg.go: whole messages, built and parsed, and        *)
(* internal/scanner/probe.go: what the scanner reads out of the replies to *)
(* its mDNS and NetBIOS questions.                                         *)
(*                                                                         *)
(* A message is its bytes, header included, since pointers count from the  *)
(* first of them.  A field is one byte wide whatever its width in the      *)
(* code; so a header has 6 bytes, a question 2 behind its name and a       *)
(* record 4 before its data.  Of the flags there are QR, the highest bit,  *)
(* and the bits a reply takes over from the request, below it.             *)
(***************************************************************************)
EXTENDS DnsNames

CONSTANTS
  PTR, NBStat,      \* types of records
  ClassIN,          \* the class of records
  Local,            \* the label "local"
  Blank,            \* the byte ' '
  Unprintable,      \* the bytes a NetBIOS name must not contain
  NameLen           \* the length of a NetBIOS name, 15 in the code

HighBit == ByteSize \div 2
HeaderLen == 6
QuestionTail == 2
RecordTail == 4
EntryLen == NameLen + 2

ParseHeader(msg) ==
  IF Len(msg) < HeaderLen THEN Error
  ELSE [response |-> At(msg, 1) >= HighBit,
        questions |-> At(msg, 2), sections |-> SubSeq(msg, 4, HeaderLen)]

ParseQuestion(msg, name) ==
  IF name = Error THEN Error
  ELSE IF name.next + QuestionTail > Len(msg) THEN Error
  ELSE [name |-> name.name, type |-> At(msg, name.next), class |-> At(msg, name.next + 1),
        next |-> name.next + QuestionTail]

DataInside(msg, end) == end <= Len(msg)

ParseRecord(msg, name, section) ==
  IF name = Error THEN Error
  ELSE IF name.next + RecordTail > Len(msg) THEN Error
  ELSE LET start == name.next + RecordTail
           len == At(msg, start - 1)
       IN  IF ~DataInside(msg, start + len) THEN Error
           ELSE [name |-> name.name, type |-> At(msg, name.next), class |-> At(msg, name.next + 1),
                 start |-> start, next |-> start + len, section |-> section]

\* count items more, one behind the other, after those read before.
Items(Parse(_), count, before) ==
  FoldLeft(LAMBDA read, i :
             IF read = Error THEN Error
             ELSE LET item == Parse(read.next)
                  IN  IF item = Error THEN Error
                      ELSE [items |-> Append(read.items, item), next |-> item.next],
           before, [i \in 1..count |-> i])

Nothing == [items |-> <<>>, next |-> HeaderLen]

Questions(msg, h) ==
  Items(LAMBDA off : ParseQuestion(msg, DecodeNameAt(msg, off)), h.questions, Nothing)

Records(msg, h, questions) ==
  FoldLeft(LAMBDA read, s :
             IF read = Error THEN Error
             ELSE Items(LAMBDA off : ParseRecord(msg, DecodeNameAt(msg, off), s), h.sections[s], read),
           IF questions = Error THEN Error ELSE [questions EXCEPT !.items = <<>>],
           <<1, 2, 3>>)

Message(h, questions, rrs) ==
  IF rrs = Error THEN Error
  ELSE [response |-> h.response, questions |-> questions.items, rrs |-> rrs.items,
        next |-> rrs.next]

ParseSections(msg, h, questions) == Message(h, questions, Records(msg, h, questions))

ParseMessage(msg) ==
  LET h == ParseHeader(msg)
  IN  IF h = Error THEN Error ELSE ParseSections(msg, h, Questions(msg, h))

-----------------------------------------------------------------------------
NamePtr(off) == <<3 * Quarter + off \div ByteSize, off % ByteSize>>

AppendRecord(b, rr) == b \o rr.name \o <<rr.type, rr.class, rr.ttl, Len(rr.data)>> \o rr.data

\* q is the question of req.
BuildReply(req, q, answers, authority) ==
  FoldLeft(AppendRecord,
           <<req[1], HighBit + (At(req, 1) % HighBit), 1, Len(answers), Len(authority), 0>>
             \o SubSeq(req, HeaderLen + 1, q.next),
           answers \o authority)

BuildQuery(id, flags, name, qtype, qclass) ==
  LET wire == EncodeName(name)
  IN  IF wire = Error THEN Error ELSE <<id, flags, 1, 0, 0, 0>> \o wire \o <<qtype, qclass>>

-----------------------------------------------------------------------------
\* Mutant of WithoutLocal: nothing is taken off.
WithLocal(target) == target

\* TrimSuffix(target, ".local")
WithoutLocal(target) ==
  IF Len(target) > 1 /\ Last(target) = Local THEN Front(target) ELSE target

\* The names that PTR records of qname give, and <<>> for every other record.
PtrTargets(msg, rrs, qname) ==
  LET IsAnswer(rr) == rr.type = PTR /\ rr.class % HighBit = ClassIN /\ rr.name = qname
      Target(rr, name) == IF IsAnswer(rr) /\ name # Error THEN name.name ELSE <<>>
  IN  [i \in DOMAIN rrs |-> Target(rrs[i], DecodeNameAt(msg, rrs[i].start))]

FirstHost(targets) ==
  LET given == SelectSeq(targets, LAMBDA name : name # <<>>)
  IN  IF given = <<>> THEN <<>> ELSE WithoutLocal(Head(given))

PtrHost(msg, parsed, qname) ==
  IF parsed = Error THEN <<>>
  ELSE IF ~parsed.response THEN <<>>
  ELSE FirstHost(PtrTargets(msg, parsed.rrs, qname))

\* The first name a PTR record of qname gives; <<>> when there is none.
extractMDNSPtr(msg, qname) == PtrHost(msg, ParseMessage(msg), qname)

\* Mutant of BehindPointer: pointers have one byte.
BehindPointerByte(off) == off + 1

BehindPointer(off) == off + 2

\* Where reading goes on after a name that is a pointer or has none in it.
skipNBName(msg, off) ==
  IF off >= Len(msg) THEN Error
  ELSE IF IsPointer(At(msg, off)) THEN IF BehindPointer(off) > Len(msg) THEN Error ELSE BehindPointer(off)
  ELSE LET Walk[o \in Nat] ==
             IF o >= Len(msg) THEN Error
             ELSE IF At(msg, o) = 0 THEN o + 1 ELSE Walk[o + 1 + At(msg, o)]
       IN  Walk[off]

TrimRight(raw) == SubSeq(raw, 1, Max({0} \cup {i \in DOMAIN raw : raw[i] \notin {Blank, 0}}))

\* The first name of a workstation in the list that starts at off with its
\* length; an entry that is cut ends it.
WorkstationName(msg, off) ==
  LET start(i) == off + 1 + (i - 1) * EntryLen
      name(i) == TrimRight(SubSeq(msg, start(i) + 1, start(i) + NameLen))
      usable == {i \in 1..At(msg, off) :
                   /\ start(i + 1) <= Len(msg)
                   /\ At(msg, start(i) + NameLen) = 0
                   /\ At(msg, start(i) + NameLen + 1) < HighBit
                   /\ name(i) # <<>> /\ ToSet(name(i)) \cap Unprintable = {}}
  IN  IF usable = {} THEN <<>> ELSE name(Min(usable))

\* <<>> when there is no name.
parseNBNSReply(msg) ==
  LET h == ParseHeader(msg)
      Question(off) == LET next == skipNBName(msg, off)
                       IN  IF next = Error THEN Error
                           ELSE IF next + QuestionTail > Len(msg) THEN Error
                           ELSE [next |-> next + QuestionTail]
      questions == Items(Question, h.questions, Nothing)
      type == skipNBName(msg, questions.next)
      none == IF h = Error THEN TRUE
              ELSE IF h.sections[1] = 0 \/ questions = Error THEN TRUE
              ELSE IF type = Error THEN TRUE
              ELSE type + RecordTail >= Len(msg) \/ At(msg, type) # NBStat
  IN  IF none THEN <<>> ELSE WorkstationName(msg, type + RecordTail)
=============================================================================
