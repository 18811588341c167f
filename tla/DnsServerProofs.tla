-------------------------- MODULE DnsServerProofs --------------------------
(***************************************************************************)
(* Proofs about DnsServer for every number of lanes and upstreams and all  *)
(* sets of names, addresses and messages.                                  *)
(*                                                                         *)
(* The argument: as long as a lane decides, what local would say now is    *)
(* among the verdicts, for every change of the maps adds it.  A lane that  *)
(* goes upstream or replies has looked once more and acts upon what it     *)
(* saw, so what it does is the verdict of that moment; the one exception   *)
(* is the second look for a single label, which must not find it gone.     *)
(***************************************************************************)
EXTENDS DnsServer, StoreDataProofs, WellFoundedInduction

\* What local would say of the message of a lane.
Ours(l) == Verdict(query[l])

OnLanes(f) == f = [l \in Lanes |-> f[l]]

LaneTypes ==
  /\ at \in [Lanes -> Places]
  /\ query \in [Lanes -> Opt(Questions)]
  /\ upstream \in [Lanes -> Upstreams]
  /\ OnLanes(reply) /\ OnLanes(verdicts) /\ OnLanes(down)

\* A lane has asked the upstreams before the present one, and none before it
\* comes to that.
Asked(l) ==
  /\ at[l] \notin {"upstream", "reply"} => upstream[l] = 1 /\ down[l] = {}
  /\ at[l] = "upstream" => down[l] = 1 .. (upstream[l] - 1)

Decided(l) ==
  /\ Deciding(l) => Ours(l) \in verdicts[l]
  /\ at[l] = "again" => query[l].form = "normal" /\ IsSingleLabel(query[l])
  /\ at[l] = "upstream" => /\ Forward \in verdicts[l]
                           /\ query[l].form = "normal" => query[l].name \notin {"apex", "zone"}

Answered(l) ==
  Replying(l) /\ ~(IsSingleLabel(query[l]) /\ reply[l].rcode = "nxdomain")
    => Outcome(l) \in verdicts[l]

AllFailed(l) == at[l] = "reply" /\ reply[l] = Plain("servfail") => down[l] = Upstreams

LaneInv(l) == Asked(l) /\ Decided(l) /\ Answered(l) /\ AllFailed(l)

DInv == LaneTypes /\ \A l \in Lanes : LaneInv(l)
-----------------------------------------------------------------------------
(* What local says depends on the maps and the message only. *)

LEMMA SameVerdict ==
  ASSUME UNCHANGED registry, NEW q
  PROVE  Verdict(q)' = Verdict(q)
<1>1. \A h : Known(h)' = Known(h) /\ Address(h)' = Address(h)
  BY DEF registry, Known, Address
<1>2. \A ip : NamesOf(ip)' = NamesOf(ip)
  BY <1>1 DEF NamesOf
<1>3. \A ip : ResolvePTR(ip)' = ResolvePTR(ip)
  BY <1>2 DEF ResolvePTR
<1>4. QED
  BY <1>1, <1>2, <1>3 DEF Verdict, LocalAnswer, AnswerName, AnswerPTR

\* An answer of local's own has the AA bit, and forward's have not.
LEMMA OwnAnswers ==
  ASSUME NEW q
  PROVE  /\ AnswerName(q).aa
         /\ LocalAnswer(q) # Forward => LocalAnswer(q).aa
<1>1. AnswerName(q).aa
  BY DEF AnswerName, Local
<1>2. AnswerPTR(q) # Forward => AnswerPTR(q).aa
  BY DEF AnswerPTR, Local
<1>3. LocalAnswer(q) \in {Local("noerror", None), AnswerName(q), AnswerPTR(q), Forward}
  BY DEF LocalAnswer
<1>4. QED
  BY <1>1, <1>2, <1>3 DEF Local

\* The domain's names have an answer, and a single label has one if known.
LEMMA LocalCases ==
  ASSUME NEW q
  PROVE  /\ q.name \in {"apex", "zone"} => LocalAnswer(q) # Forward
         /\ IsSingleLabel(q) =>
              LocalAnswer(q) = IF Known(q.host) THEN AnswerName(q) ELSE Forward
<1>1. ~Forward.aa
  BY DEF Forward, Plain
<1>2. q.name = "apex" => LocalAnswer(q) = Local("noerror", None)
  BY DEF LocalAnswer
<1>3. q.name = "zone" => LocalAnswer(q) = AnswerName(q)
  BY DEF LocalAnswer
<1>4. IsSingleLabel(q) => LocalAnswer(q) = IF Known(q.host) THEN AnswerName(q) ELSE Forward
  BY DEF LocalAnswer, IsSingleLabel
<1>5. QED
  BY <1>1, <1>2, <1>3, <1>4, OwnAnswers DEF Local

-----------------------------------------------------------------------------
(* What local says is a reply: the lookups stay within the maps, and among *)
(* the names of an address there is a first one.                           *)

MapTypes == devices \in DeviceMaps /\ mappings \in MappingMaps

LEMMA SmallestOf ==
  ASSUME NEW S, S \subseteq Nat, S # {}
  PROVE  \E n \in S : \A m \in S : n <= m
<1> DEFINE R == {ss \in Nat \X Nat : ss[1] < ss[2]}
<1>1. IsWellFoundedOn(R, Nat)
  BY NatLessThanWellFounded DEF OpToRel
<1>2. \A a, b \in Nat : a < b => <<a, b>> \in R
  OBVIOUS
<1> HIDE DEF R
<1>3. PICK n \in S : \A m \in S : <<m, n>> \notin R
  BY <1>1, WFMin
<1>4. \A m \in S : ~(m < n)
  BY <1>2, <1>3
<1>5. QED
  BY <1>4

\* The first of some names is one of them, and none of them comes before it.
LEMMA FirstOfNames ==
  ASSUME NEW hosts, hosts \subseteq Hosts, hosts # {}
  PROVE  FirstOf(hosts) \in hosts /\ \A g \in hosts : Rank[FirstOf(hosts)] <= Rank[g]
<1> DEFINE Ranks == {Rank[h] : h \in hosts}
<1>1. Ranks \subseteq Nat /\ Ranks # {}
  BY DnsAssumption
<1>2. PICK n \in Ranks : \A m \in Ranks : n <= m
  BY <1>1, SmallestOf
<1>3. \E h \in hosts : \A g \in hosts : Rank[h] <= Rank[g]
  BY <1>2
<1>4. QED
  BY <1>3 DEF FirstOf

LEMMA AddressType ==
  ASSUME MapTypes, NEW h \in Hosts, Known(h)
  PROVE  Address(h) \in Opt(IPs)
<1>1. mappings[h] \in Mapping
  BY DEF MapTypes, MappingMaps, Known, Opt
<1>2. \A m \in MACs : devices[m] # None => devices[m] \in Device
  BY DEF MapTypes, DeviceMaps, Opt
<1>3. \A m \in MACs : devices[m] # None => devices[m].ip \in Opt(IPs)
  BY <1>2 DEF Device
<1>4. mappings[h].ip \in Opt(IPs)
  BY <1>1 DEF Mapping
<1>5. QED
  BY <1>3, <1>4 DEF Address, Resolve, Opt

LEMMA AnswerTypes ==
  ASSUME MapTypes, NEW q \in Question
  PROVE  /\ q.host \in Hosts => AnswerName(q) \in Reply
         /\ q.ip \in IPs => AnswerPTR(q) \in Reply
<1>1. /\ \A d \in Opt(IPs \cup Hosts), c \in {"noerror", "nxdomain", "servfail"} :
           Local(c, d) \in Reply
      /\ Forward \in Reply
  BY DEF Local, Forward, Plain, Reply, Opt
<1>2. ASSUME q.host \in Hosts PROVE AnswerName(q) \in Reply
  <2>1. Known(q.host) => AnswerData(q, Address(q.host)) \in Opt(IPs \cup Hosts)
    BY <1>2, AddressType DEF AnswerData, Opt
  <2>2. None \in Opt(IPs \cup Hosts)
    BY DEF Opt
  <2>3. QED
    BY <1>1, <2>1, <2>2 DEF AnswerName
<1>3. ASSUME q.ip \in IPs PROVE AnswerPTR(q) \in Reply
  <2>1. NamesOf(q.ip) # {} => ResolvePTR(q.ip) \in Hosts
    BY FirstOfNames DEF NamesOf, ResolvePTR
  <2>2. None \in Opt(IPs \cup Hosts) /\ Hosts \subseteq Opt(IPs \cup Hosts)
    BY DEF Opt
  <2>3. QED
    BY <1>1, <2>1, <2>2 DEF AnswerPTR
<1>4. QED
  BY <1>2, <1>3

LEMMA LocalTypes ==
  ASSUME MapTypes, NEW q \in Questions
  PROVE  /\ LocalAnswer(q) \in Reply /\ Verdict(q) \in Reply
         /\ IsSingleLabel(q) => AnswerName(q) \in Reply
<1>1. /\ q \in Question
      /\ q.name \in {"zone", "label"} => q.host \in Hosts
      /\ q.name = "reverse" => q.ip \in IPs
  BY DnsAssumption DEF Question, Opt
<1>2. Forward \in Reply /\ Local("noerror", None) \in Reply
  BY DEF Local, Forward, Plain, Reply, Opt
<1>3. q.name \in {"zone", "label"} => AnswerName(q) \in Reply
  BY <1>1, AnswerTypes
<1>4. q.name = "reverse" => AnswerPTR(q) \in Reply
  BY <1>1, AnswerTypes
<1>5. LocalAnswer(q) \in Reply
  BY <1>2, <1>3, <1>4 DEF LocalAnswer, IsSingleLabel
<1>6. QED
  BY <1>2, <1>3, <1>5 DEF Verdict, IsSingleLabel

-----------------------------------------------------------------------------
(* A step of one lane leaves the others alone. *)

OthersStay(l) ==
  \A k \in Lanes \ {l} :
    /\ at'[k] = at[k] /\ query'[k] = query[k] /\ upstream'[k] = upstream[k]
    /\ reply'[k] = reply[k] /\ verdicts'[k] = verdicts[k] /\ down'[k] = down[k]

LaneStep(l) == LaneTypes' /\ UNCHANGED registry /\ OthersStay(l)

\* The invariant of the lane that steps is all there is to show.
LEMMA OneLane ==
  ASSUME DInv, NEW l \in Lanes, LaneStep(l), LaneInv(l)'
  PROVE  DInv'
<1>1. ASSUME NEW k \in Lanes, k # l PROVE LaneInv(k)'
  <2>1. Ours(k)' = Ours(k)
    BY <1>1, SameVerdict DEF LaneStep, OthersStay, Ours
  <2>2. LaneInv(k)
    BY DEF DInv
  <2>3. OthersStay(l)
    BY DEF LaneStep
  <2>4. QED
    BY <1>1, <2>1, <2>2, <2>3 DEF OthersStay, LaneInv, Asked, Decided, Answered, AllFailed,
       Deciding, Replying, Outcome
<1>2. QED
  BY <1>1 DEF DInv, LaneStep

\* The next upstream is one, and nothing else happens.
LEMMA OneFurther ==
  ASSUME LaneTypes, NEW l \in Lanes, NextUpstream(l), UNCHANGED <<query, verdicts>>
  PROVE  LaneTypes' /\ OthersStay(l)
<1> USE DEF LaneTypes, OthersStay, OnLanes, Places
<1>1. CASE upstream[l] < NumUpstreams
  <2>1. upstream[l] + 1 \in Upstreams
    BY <1>1, DnsAssumption DEF Upstreams
  <2>2. upstream' = [upstream EXCEPT ![l] = upstream[l] + 1] /\ UNCHANGED <<at, reply>>
    BY <1>1 DEF NextUpstream
  <2>3. QED
    BY <2>1, <2>2 DEF NextUpstream
<1>2. CASE ~(upstream[l] < NumUpstreams)
  BY <1>2 DEF NextUpstream, Say
<1>3. QED
  BY <1>1, <1>2

\* Serving a message is such a step ...
LEMMA ServeSteps ==
  ASSUME LaneTypes, NEW l \in Lanes, Serve(l)
  PROVE  LaneStep(l)
<1> USE DEF LaneTypes, LaneStep, OthersStay, OnLanes, Say, AskUpstream, Places, Opt
<1>a. 1 \in Upstreams
  BY DnsAssumption DEF Upstreams
<1>1. CASE Drop(l)
  <2>1. Idle(l) \in Places
    BY DEF Idle
  <2>2. QED
    BY <1>1, <1>a, <2>1 DEF Drop, Clear
<1>2. CASE FormErr(l)
  BY <1>2 DEF FormErr
<1>3. CASE Relay(l)
  BY <1>3 DEF Relay
<1>4. CASE AnswerOnce(l)
  BY <1>4 DEF AnswerOnce
<1>5. CASE LookupLabel(l)
  BY <1>5 DEF LookupLabel
<1>6. CASE AnswerLabel(l)
  BY <1>6 DEF AnswerLabel
<1>7. CASE UpstreamAnswers(l)
  BY <1>7 DEF UpstreamAnswers
<1>8. CASE UpstreamFails(l)
  BY <1>8, OneFurther DEF UpstreamFails
<1>9. CASE Mismatch(l)
  BY <1>9, OneFurther DEF Mismatch
<1>10. CASE WriteUDP(l) \/ WriteTCP(l) \/ WriteTCPFails(l)
  BY <1>10, <1>a DEF WriteUDP, WriteTCP, WriteTCPFails, Clear
<1>11. QED
  BY <1>1, <1>2, <1>3, <1>4, <1>5, <1>6, <1>7, <1>8, <1>9, <1>10 DEF Serve

\* What a lane keeps as long as it has its message.
Kept(l) == Ours(l)' = Ours(l) /\ query'[l] = query[l] /\ verdicts'[l] = verdicts[l]

\* As long as the maps and the message stay, so does what local says.
LEMMA KeptAs ==
  ASSUME NEW l \in Lanes, UNCHANGED <<registry, query, verdicts>>
  PROVE  Kept(l)
  BY SameVerdict DEF Kept, Ours

\* A lane that goes upstream had to, and has asked none before.
LEMMA GoesUpstream ==
  ASSUME DInv, NEW l \in Lanes, Kept(l), Deciding(l), AskUpstream(l),
         UNCHANGED <<upstream, down>>, Ours(l) = Forward,
         query[l].form = "normal" => query[l].name \notin {"apex", "zone"}
  PROVE  LaneInv(l)'
<1>1. at'[l] = "upstream"
  BY DEF AskUpstream, DInv, LaneTypes
<1>2. upstream[l] = 1 /\ down[l] = {}
  BY DEF DInv, LaneInv, Asked, Deciding
<1>3. down'[l] = 1 .. (upstream'[l] - 1)
  BY <1>2
<1>4. Forward \in verdicts[l]
  BY DEF DInv, LaneInv, Decided
<1>5. QED
  BY <1>1, <1>3, <1>4 DEF LaneInv, Asked, Decided, Answered, AllFailed, Deciding, Replying, Kept

\* A lane that replies with an answer of local's own says the truth, unless
\* that is the NXDOMAIN of a single label.
LEMMA RepliesLocally ==
  ASSUME DInv, NEW l \in Lanes, NEW r, Kept(l), Deciding(l), Say(l, r), r.aa,
         (IsSingleLabel(query[l]) /\ r.rcode = "nxdomain") \/ r = Ours(l)
  PROVE  LaneInv(l)'
<1>1. at'[l] = "reply" /\ reply'[l] = r
  BY DEF Say, DInv, LaneTypes, OnLanes
<1>2. Outcome(l)' = r
  BY <1>1 DEF Outcome
<1>3. Ours(l) \in verdicts[l]
  BY DEF DInv, LaneInv, Decided
<1>4. Answered(l)'
  BY <1>1, <1>2, <1>3 DEF Answered, Kept
<1>5. r # Plain("servfail")
  BY DEF Plain
<1>6. QED
  BY <1>1, <1>4, <1>5 DEF LaneInv, Asked, Decided, AllFailed, Deciding

\* An upstream that fails is counted, and the last one ends the query.
LEMMA UpstreamFailed ==
  ASSUME DInv, NEW l \in Lanes, Kept(l), at[l] = "upstream", NextUpstream(l)
  PROVE  LaneInv(l)'
<1>1. upstream[l] \in 1 .. NumUpstreams /\ NumUpstreams \in Nat
  BY DnsAssumption DEF DInv, LaneTypes, Upstreams
<1>2. /\ down[l] = 1 .. (upstream[l] - 1)
      /\ Forward \in verdicts[l]
      /\ query[l].form = "normal" => query[l].name \notin {"apex", "zone"}
  BY DEF DInv, LaneInv, Asked, Decided
<1>3. down'[l] = 1 .. upstream[l]
  <2>1. down'[l] = down[l] \cup {upstream[l]}
    BY DEF NextUpstream, DInv, LaneTypes, OnLanes
  <2>2. QED
    BY <2>1, <1>1, <1>2
<1>4. CASE upstream[l] < NumUpstreams
  <2>1. at'[l] = "upstream" /\ upstream'[l] = upstream[l] + 1
    BY <1>4 DEF NextUpstream, DInv, LaneTypes
  <2>2. down'[l] = 1 .. (upstream'[l] - 1)
    BY <2>1, <1>1, <1>3
  <2>3. QED
    BY <2>1, <2>2, <1>2 DEF LaneInv, Asked, Decided, Answered, AllFailed, Deciding, Replying, Kept
<1>5. CASE ~(upstream[l] < NumUpstreams)
  <2>1. at'[l] = "reply" /\ reply'[l] = Plain("servfail")
    BY <1>5 DEF NextUpstream, Say, DInv, LaneTypes, OnLanes
  <2>2. Outcome(l)' = Forward
    BY <2>1 DEF Outcome, Plain
  <2>3. down'[l] = Upstreams
    BY <1>1, <1>3, <1>5 DEF Upstreams
  <2>4. QED
    BY <2>1, <2>2, <2>3, <1>2 DEF LaneInv, Asked, Decided, Answered, AllFailed, Deciding, Kept
<1>6. QED
  BY <1>4, <1>5

\* A lane without a message has nothing to show.
LEMMA DoneWith ==
  ASSUME DInv, NEW l \in Lanes, at'[l] \in {"idle", "closed"},
         upstream'[l] = 1, down'[l] = {}
  PROVE  LaneInv(l)'
  BY DEF LaneInv, Asked, Decided, Answered, AllFailed, Deciding, Replying

\* So has a lane that is done with its message.
LEMMA Cleared ==
  ASSUME DInv, NEW l \in Lanes, at'[l] \in {"idle", "closed"}, Clear(l)
  PROVE  LaneInv(l)'
  BY DoneWith DEF Clear, DInv, LaneTypes, OnLanes

-----------------------------------------------------------------------------
(* What a lane does with its message. *)

\* ... and keeps the invariant of its lane.
LEMMA ServeLane ==
  ASSUME DInv, NEW l \in Lanes, Serve(l)
  PROVE  LaneInv(l)'
<1>1. CASE Drop(l) \/ WriteUDP(l) \/ WriteTCP(l) \/ WriteTCPFails(l)
  <2>1. at'[l] \in {"idle", "closed"} /\ Clear(l)
    BY <1>1 DEF Drop, WriteUDP, WriteTCP, WriteTCPFails, Idle, DInv, LaneTypes
  <2>2. QED
    BY <2>1, Cleared
<1>2. CASE FormErr(l)
  <2>1. /\ at'[l] = "reply" /\ query'[l] = query[l] /\ query[l].form = "broken"
        /\ reply'[l] = Plain("formerr")
    BY <1>2 DEF FormErr, Say, DInv, LaneTypes, OnLanes
  <2>2. Plain("formerr") # Plain("servfail")
    BY DEF Plain
  <2>3. QED
    BY <2>1, <2>2 DEF LaneInv, Asked, Decided, Answered, AllFailed, Deciding, Replying
<1>3. CASE Relay(l)
  <2>1. Kept(l)
    BY <1>3, KeptAs DEF Relay
  <2>2. Ours(l) = Forward /\ query[l].form # "normal" /\ Deciding(l)
    BY <1>3 DEF Relay, Ours, Verdict, Deciding
  <2>3. QED
    BY <1>3, <2>1, <2>2, GoesUpstream DEF Relay
<1>4. CASE AnswerOnce(l)
  <2>1. Kept(l)
    BY <1>4, KeptAs DEF AnswerOnce
  <2>2. Ours(l) = LocalAnswer(query[l]) /\ Deciding(l)
    BY <1>4 DEF AnswerOnce, Ours, Verdict, Deciding
  <2>3. CASE LocalAnswer(query[l]) = Forward
    BY <1>4, <2>1, <2>2, <2>3, LocalCases, GoesUpstream DEF AnswerOnce
  <2>4. CASE LocalAnswer(query[l]) # Forward
    BY <1>4, <2>1, <2>2, <2>4, OwnAnswers, RepliesLocally DEF AnswerOnce
  <2>5. QED
    BY <2>3, <2>4
<1>5. CASE LookupLabel(l)
  <2>1. Kept(l)
    BY <1>5, KeptAs DEF LookupLabel
  <2>2. /\ Ours(l) = IF Known(query[l].host) THEN AnswerName(query[l]) ELSE Forward
        /\ query[l].name = "label" /\ Deciding(l)
    BY <1>5, LocalCases DEF LookupLabel, Ours, Verdict, IsSingleLabel, Deciding
  <2>3. CASE Known(query[l].host)
    <3>1. at'[l] = "again" /\ upstream'[l] = upstream[l] /\ down'[l] = down[l]
      BY <1>5, <2>3 DEF LookupLabel, DInv, LaneTypes
    <3>2. Ours(l) \in verdicts[l] /\ upstream[l] = 1 /\ down[l] = {}
      BY <1>5 DEF LookupLabel, DInv, LaneInv, Asked, Decided, Deciding
    <3>3. QED
      BY <1>5, <2>1, <3>1, <3>2 DEF LookupLabel, LaneInv, Asked, Decided, Answered, AllFailed,
         Replying, Kept
  <2>4. CASE ~Known(query[l].host)
    BY <1>5, <2>1, <2>2, <2>4, GoesUpstream DEF LookupLabel
  <2>5. QED
    BY <2>3, <2>4
<1>6. CASE AnswerLabel(l)
  <2>1. Kept(l) /\ Deciding(l)
    BY <1>6, KeptAs DEF AnswerLabel, Deciding
  <2>2. query[l].form = "normal" /\ IsSingleLabel(query[l])
    BY <1>6 DEF AnswerLabel, DInv, LaneInv, Decided
  <2>3. Known(query[l].host) => AnswerName(query[l]) = Ours(l)
    BY <2>2, LocalCases DEF Ours, Verdict
  <2>4. ~Known(query[l].host) => AnswerName(query[l]).rcode = "nxdomain"
    BY DEF AnswerName, Local
  <2>5. QED
    BY <1>6, <2>1, <2>2, <2>3, <2>4, OwnAnswers, RepliesLocally DEF AnswerLabel
<1>7. CASE UpstreamAnswers(l)
  <2>1. Kept(l)
    BY <1>7, KeptAs DEF UpstreamAnswers
  <2>2. at'[l] = "reply" /\ reply'[l] = Plain("relayed")
    BY <1>7 DEF UpstreamAnswers, Say, DInv, LaneTypes, OnLanes
  <2>3. Outcome(l)' = Forward /\ Plain("relayed") # Plain("servfail")
    BY <2>2 DEF Outcome, Plain
  <2>4. Forward \in verdicts[l]
    BY <1>7 DEF UpstreamAnswers, DInv, LaneInv, Decided
  <2>5. QED
    BY <2>1, <2>2, <2>3, <2>4 DEF LaneInv, Asked, Decided, Answered, AllFailed, Deciding, Kept
<1>8. CASE UpstreamFails(l)
  BY <1>8, KeptAs, UpstreamFailed DEF UpstreamFails
<1>9. CASE Mismatch(l)
  <2>1. Kept(l)
    BY <1>9, KeptAs DEF Mismatch
  <2>2. CASE NextUpstream(l)
    BY <1>9, <2>1, <2>2, UpstreamFailed DEF Mismatch
  <2>3. CASE UNCHANGED <<at, reply, upstream, down>>
    <3>1. LaneInv(l)
      BY DEF DInv
    <3>2. QED
      BY <2>1, <2>3, <3>1 DEF LaneInv, Asked, Decided, Answered, AllFailed, Deciding, Replying,
         Outcome, Kept
  <2>4. QED
    BY <1>9, <2>2, <2>3 DEF Mismatch
<1>10. QED
  BY <1>1, <1>2, <1>3, <1>4, <1>5, <1>6, <1>7, <1>8, <1>9 DEF Serve

-----------------------------------------------------------------------------
(* The clients. *)

LEMMA ClientSteps ==
  ASSUME DInv, NEW l \in Lanes,
         Accept(l) \/ Hangup(l) \/ \E q \in Questions : Receive(l, q)
  PROVE  DInv'
<1> USE DEF DInv, LaneTypes, LaneStep, OthersStay, OnLanes, Places
<1>1. CASE Accept(l) \/ Hangup(l)
  <2>1. UNCHANGED <<registry, work>> /\ at[l] \in {"idle", "closed"} /\ at'[l] \in {"idle", "closed"}
    BY <1>1 DEF Accept, Hangup
  <2>2. UNCHANGED <<registry, query, upstream, reply, verdicts, down>>
    BY <2>1 DEF work
  <2>3. upstream'[l] = 1 /\ down'[l] = {}
    BY <2>1, <2>2 DEF LaneInv, Asked
  <2>4. LaneStep(l)
    BY <1>1, <2>2 DEF Accept, Hangup
  <2>5. QED
    BY <2>1, <2>3, <2>4, DoneWith, OneLane
<1>2. CASE \E q \in Questions : Receive(l, q)
  <2>1. PICK q \in Questions : Receive(l, q)
    BY <1>2
  <2>2. /\ at'[l] = "handle" /\ query'[l] = q /\ verdicts'[l] = {Verdict(q)}
        /\ upstream'[l] = 1 /\ down'[l] = {} /\ UNCHANGED registry
    BY <2>1 DEF Receive, LaneInv, Asked
  <2>3. Ours(l)' \in verdicts'[l]
    BY <2>2, SameVerdict DEF Ours
  <2>4. LaneInv(l)'
    BY <2>2, <2>3 DEF LaneInv, Asked, Decided, Answered, AllFailed, Replying
  <2>5. LaneStep(l)
    BY <2>1 DEF Receive, Opt
  <2>6. QED
    BY <2>4, <2>5, OneLane
<1>3. QED
  BY <1>1, <1>2

(* The store's other users: whatever they do to the maps. *)

LEMMA Witnessed ==
  ASSUME DInv, Witness
  PROVE  DInv'
<1>1. /\ at' = at /\ query' = query /\ upstream' = upstream /\ reply' = reply /\ down' = down
      /\ OnLanes(verdicts)'
  BY DEF Witness, OnLanes
<1>2. LaneTypes'
  BY <1>1 DEF DInv, LaneTypes, OnLanes
<1>3. ASSUME NEW l \in Lanes PROVE LaneInv(l)'
  <2>1. verdicts[l] \subseteq verdicts'[l] /\ (Deciding(l) => Ours(l)' \in verdicts'[l])
    BY DEF Witness, Ours
  <2>2. LaneInv(l)
    BY DEF DInv
  <2>3. Asked(l)' /\ AllFailed(l)'
    BY <1>1, <2>2 DEF LaneInv, Asked, AllFailed
  <2>4. Decided(l)'
    BY <1>1, <2>1, <2>2 DEF LaneInv, Decided, Deciding
  <2>5. Answered(l)'
    BY <1>1, <2>1, <2>2 DEF LaneInv, Answered, Replying, Outcome
  <2>6. QED
    BY <2>3, <2>4, <2>5 DEF LaneInv
<1>4. QED
  BY <1>2, <1>3 DEF DInv

-----------------------------------------------------------------------------
(* The types. *)

\* A lane that has a message has one of the clients' (local is never asked
\* about nothing), and a connection that is open has queries left.
HasQuery(l) == at[l] \notin {"idle", "closed"} => query[l] \in Questions
HasRoom(l) == at[l] # "closed" => served[l] < MaxTCPQueries

RestTypes ==
  /\ reads \in [Lanes -> 0 .. MaxReads - 1]
  /\ reply \in [Lanes -> Reply]
  /\ served \in [TCPLanes -> 0 .. MaxTCPQueries]
  /\ verdicts \in [Lanes -> SUBSET Reply]
  /\ down \in [Lanes -> SUBSET Upstreams]

TInv ==
  /\ LaneTypes /\ MapTypes /\ RestTypes /\ listening \in BOOLEAN
  /\ \A l \in Lanes : HasQuery(l)
  /\ \A l \in TCPLanes : HasRoom(l)

\* Of the lane that steps the types are all there is to show.
LEMMA OneLaneTypes ==
  ASSUME TInv, NEW l \in Lanes, LaneStep(l), RestTypes', listening' \in BOOLEAN,
         HasQuery(l)', l \in TCPLanes => HasRoom(l)',
         \A k \in TCPLanes \ {l} : served'[k] = served[k]
  PROVE  TInv'
<1>1. \A k \in Lanes \ {l} : at'[k] = at[k] /\ query'[k] = query[k]
  BY DEF LaneStep, OthersStay
<1>2. \A k \in Lanes : HasQuery(k)'
  BY <1>1 DEF TInv, HasQuery
<1>3. \A k \in TCPLanes : HasRoom(k)'
  BY <1>1 DEF TInv, HasRoom, Lanes
<1>4. MapTypes'
  BY DEF TInv, MapTypes, LaneStep, registry
<1>5. QED
  BY <1>2, <1>3, <1>4 DEF TInv, LaneStep

\* A lane that keeps its message and its connection, and is given a reply or
\* sent to the upstreams.
LEMMA StillTyped ==
  ASSUME TInv, NEW l \in Lanes, LaneStep(l), at[l] \notin {"idle", "closed"},
         UNCHANGED <<listening, query, served, verdicts>>,
         reads' \in [Lanes -> 0 .. MaxReads - 1], down' \in [Lanes -> SUBSET Upstreams],
         \/ UNCHANGED reply
         \/ \E r \in Reply : reply' = [reply EXCEPT ![l] = r]
  PROVE  TInv'
<1>1. RestTypes'
  BY DEF TInv, RestTypes
<1>2. HasQuery(l)' /\ (l \in TCPLanes => HasRoom(l)')
  BY DEF TInv, HasQuery, HasRoom
<1>3. QED
  BY <1>1, <1>2, OneLaneTypes DEF TInv

LEMMA ClearTypes ==
  ASSUME TInv, NEW l \in Lanes, Clear(l)
  PROVE  /\ reads' \in [Lanes -> 0 .. MaxReads - 1]
         /\ reply' \in [Lanes -> Reply] /\ verdicts' \in [Lanes -> SUBSET Reply]
         /\ down' \in [Lanes -> SUBSET Upstreams]
<1>1. NoReply \in Reply
  BY DEF NoReply, Plain, Reply, Opt
<1>2. 0 \in 0 .. MaxReads - 1
  BY DEF MaxReads
<1>3. QED
  BY <1>1, <1>2 DEF TInv, RestTypes, Clear

LEMMA NextUpstreamTypes ==
  ASSUME TInv, NEW l \in Lanes, LaneStep(l), at[l] = "upstream", NextUpstream(l),
         UNCHANGED <<listening, query, served, verdicts>>
  PROVE  TInv'
<1>1. 0 \in 0 .. MaxReads - 1 /\ Plain("servfail") \in Reply
  BY DEF MaxReads, Plain, Reply, Opt
<1>2. upstream[l] \in Upstreams
  BY DEF TInv, LaneTypes
<1>3. reads' \in [Lanes -> 0 .. MaxReads - 1] /\ down' \in [Lanes -> SUBSET Upstreams]
  BY <1>1, <1>2 DEF TInv, RestTypes, NextUpstream
<1>4. QED
  BY <1>1, <1>3, StillTyped DEF NextUpstream, Say

LEMMA ServeTypes ==
  ASSUME DInv, TInv, NEW l \in Lanes, Serve(l)
  PROVE  TInv'
<1>1. LaneStep(l)
  BY ServeSteps DEF TInv
<1>2. \A c \in {"formerr", "relayed", "servfail"} : Plain(c) \in Reply
  BY DEF Plain, Reply, Opt
<1>3. at[l] \notin {"idle", "closed"} => query[l] \in Questions
  BY DEF TInv, HasQuery
<1>4. MapTypes
  BY DEF TInv
<1>5. CASE Drop(l) \/ WriteUDP(l) \/ WriteTCPFails(l)
  <2>1. Clear(l) /\ UNCHANGED <<listening, served>> /\ at'[l] \in {"idle", "closed"}
    BY <1>5 DEF Drop, WriteUDP, WriteTCPFails, Idle, TInv, LaneTypes
  <2>2. l \in TCPLanes => at'[l] = "closed"
    BY <1>5, DnsAssumption DEF Drop, WriteUDP, WriteTCPFails, Idle, TInv, LaneTypes
  <2>3. RestTypes'
    BY <2>1, ClearTypes DEF TInv, RestTypes
  <2>4. QED
    BY <1>1, <2>1, <2>2, <2>3, OneLaneTypes DEF TInv, HasQuery, HasRoom
<1>6. CASE WriteTCP(l)
  <2>1. /\ l \in TCPLanes /\ Clear(l) /\ UNCHANGED listening
        /\ served' = [served EXCEPT ![l] = served[l] + 1]
        /\ at'[l] = IF served[l] + 1 < MaxTCPQueries THEN "idle" ELSE "closed"
    BY <1>6 DEF WriteTCP, TInv, LaneTypes
  <2>2. served[l] \in Nat /\ served[l] < MaxTCPQueries /\ MaxTCPQueries \in Nat
    BY <1>6, DnsAssumption DEF WriteTCP, TInv, RestTypes, HasRoom
  <2>3. served' \in [TCPLanes -> 0 .. MaxTCPQueries] /\ served'[l] = served[l] + 1
    BY <2>1, <2>2 DEF TInv, RestTypes
  <2>4. RestTypes'
    BY <2>1, <2>3, ClearTypes DEF RestTypes
  <2>5. HasRoom(l)' /\ HasQuery(l)'
    BY <2>1, <2>3 DEF HasRoom, HasQuery
  <2>6. \A k \in TCPLanes \ {l} : served'[k] = served[k]
    BY <2>1 DEF TInv, RestTypes
  <2>7. QED
    BY <1>1, <2>1, <2>4, <2>5, <2>6, OneLaneTypes DEF TInv
<1>7. CASE FormErr(l) \/ UpstreamAnswers(l)
  BY <1>1, <1>2, <1>7, StillTyped DEF FormErr, UpstreamAnswers, Say, TInv, RestTypes
<1>8. CASE Relay(l) \/ LookupLabel(l)
  BY <1>1, <1>8, StillTyped DEF Relay, LookupLabel, AskUpstream, TInv, RestTypes
<1>9. CASE AnswerOnce(l)
  <2>1. LocalAnswer(query[l]) \in Reply
    BY <1>3, <1>4, <1>9, LocalTypes DEF AnswerOnce
  <2>2. QED
    BY <1>1, <1>9, <2>1, StillTyped DEF AnswerOnce, AskUpstream, Say, TInv, RestTypes
<1>10. CASE UpstreamFails(l)
  BY <1>1, <1>10, NextUpstreamTypes DEF UpstreamFails
<1>11. CASE Mismatch(l)
  <2>1. CASE NextUpstream(l)
    BY <1>1, <1>11, <2>1, NextUpstreamTypes DEF Mismatch
  <2>2. CASE /\ reads[l] + 1 < MaxReads
             /\ reads' = [reads EXCEPT ![l] = reads[l] + 1] /\ UNCHANGED <<reply, down>>
    <3>1. reads[l] + 1 \in 0 .. MaxReads - 1
      BY <2>2 DEF TInv, RestTypes, MaxReads
    <3>2. reads' \in [Lanes -> 0 .. MaxReads - 1]
      BY <2>2, <3>1 DEF TInv, RestTypes
    <3>3. QED
      BY <1>1, <1>11, <2>2, <3>2, StillTyped DEF Mismatch, TInv, RestTypes
  <2>3. QED
    BY <1>11, <2>1, <2>2 DEF Mismatch
<1>12. CASE AnswerLabel(l)
  <2>1. query[l] \in Questions
    BY <1>3, <1>12 DEF AnswerLabel
  <2>2. AnswerName(query[l]) \in Reply
    BY <1>4, <1>12, <2>1, LocalTypes DEF AnswerLabel, DInv, LaneInv, Decided
  <2>3. QED
    BY <1>1, <1>12, <2>2, StillTyped DEF AnswerLabel, Say, TInv, RestTypes
<1>13. QED
  BY <1>5, <1>6, <1>7, <1>8, <1>9, <1>10, <1>11, <1>12 DEF Serve

LEMMA ClientTypes ==
  ASSUME DInv, TInv, NEW l \in Lanes,
         Accept(l) \/ Hangup(l) \/ \E q \in Questions : Receive(l, q)
  PROVE  TInv'
<1>1. LaneTypes'
  BY ClientSteps DEF DInv
<1>2. CASE Accept(l)
  <2>1. /\ l \in TCPLanes /\ at'[l] = "idle" /\ UNCHANGED <<registry, listening, work>>
        /\ served' = [served EXCEPT ![l] = 0]
    BY <1>2 DEF Accept, TInv, LaneTypes
  <2>2. 0 \in 0 .. MaxTCPQueries /\ 0 < MaxTCPQueries
    BY DnsAssumption
  <2>3. RestTypes' /\ served'[l] = 0 /\ \A k \in TCPLanes \ {l} : served'[k] = served[k]
    BY <2>1, <2>2 DEF TInv, RestTypes, work
  <2>4. LaneStep(l)
    BY <1>1, <1>2, <2>1 DEF LaneStep, OthersStay, Accept, work, TInv, LaneTypes
  <2>5. QED
    BY <2>1, <2>2, <2>3, <2>4, OneLaneTypes DEF TInv, HasQuery, HasRoom
<1>3. CASE Hangup(l)
  <2>1. at'[l] = "closed" /\ UNCHANGED <<registry, listening, work, served>>
    BY <1>3 DEF Hangup, TInv, LaneTypes
  <2>2. RestTypes'
    BY <2>1 DEF TInv, RestTypes, work
  <2>3. LaneStep(l)
    BY <1>1, <1>3, <2>1 DEF LaneStep, OthersStay, Hangup, work, TInv, LaneTypes
  <2>4. QED
    BY <2>1, <2>2, <2>3, OneLaneTypes DEF TInv, HasQuery, HasRoom
<1>4. CASE \E q \in Questions : Receive(l, q)
  <2>1. PICK q \in Questions : Receive(l, q)
    BY <1>4
  <2>2. query'[l] = q /\ verdicts' \in [Lanes -> SUBSET Reply]
    BY <2>1, LocalTypes DEF Receive, TInv, LaneTypes, RestTypes
  <2>3. RestTypes'
    BY <2>1, <2>2 DEF TInv, RestTypes, Receive
  <2>4. LaneStep(l)
    BY <1>1, <2>1 DEF LaneStep, OthersStay, Receive, TInv, LaneTypes, OnLanes
  <2>5. HasQuery(l)' /\ (l \in TCPLanes => HasRoom(l)')
    BY <2>1, <2>2 DEF Receive, TInv, HasQuery, HasRoom
  <2>6. QED
    BY <2>1, <2>3, <2>4, <2>5, OneLaneTypes DEF TInv, Receive
<1>5. QED
  BY <1>2, <1>3, <1>4

LEMMA VerdictTypes == MapTypes => \A q \in Questions : Verdict(q) \in Reply
  BY LocalTypes

\* What the store's users leave are maps, whose verdicts are replies.
LEMMA UserMaps ==
  ASSUME MapTypes, Users
  PROVE  MapTypes'
<1> USE DEF MapTypes
<1>1. CASE \E h \in Hosts, mac \in Opt(MACs), ip \in Opt(IPs) : SetMapping(h, mac, ip)
  <2>1. PICK h \in Hosts, mac \in Opt(MACs), ip \in Opt(IPs) : SetMapping(h, mac, ip)
    BY <1>1
  <2>2. [hostname |-> h, mac |-> mac, ip |-> ip] \in Opt(Mapping)
    BY DEF Mapping, Opt
  <2>3. QED
    BY <2>1, <2>2 DEF SetMapping, MappingMaps
<1>2. CASE \E old, h \in Hosts : RenameMapping(old, h)
  <2>1. PICK old, h \in Hosts : RenameMapping(old, h)
    BY <1>2
  <2>2. mappings[old] \in Mapping
    BY <2>1 DEF RenameMapping, MappingMaps, Opt
  <2>3. [mappings[old] EXCEPT !.hostname = h] \in Mapping
    BY <2>2 DEF Mapping
  <2>4. QED
    BY <2>1, <2>3 DEF RenameMapping, MappingMaps, Opt
<1>3. CASE \E h \in Hosts : DeleteMapping(h)
  BY <1>3 DEF DeleteMapping, MappingMaps, Opt
<1>4. CASE \E m \in MACs, ip \in IPs : ScanSees(m, ip)
  <2>1. PICK m \in MACs, ip \in IPs : ScanSees(m, ip)
    BY <1>4
  <2> DEFINE seen == <<[mac |-> m, ip |-> ip, self |-> FALSE]>>
  <2>2. \A i \in DOMAIN seen : seen[i] \in SeenDevice
    <3>1. [mac |-> m, ip |-> ip, self |-> FALSE] \in SeenDevice
      BY DEF SeenDevice, Opt
    <3>2. \A x : \A i \in DOMAIN <<x>> : <<x>>[i] = x
      OBVIOUS
    <3>3. QED
      BY <3>1, <3>2
  <2>3. 0 \in Time
    BY TimeAssumption DEF Time
  <2>4. Observe(devices, seen, 0) \in DeviceMaps
    BY <2>2, <2>3, ObserveDevices
  <2>5. QED
    BY <2>1, <2>4 DEF ScanSees
<1>5. CASE \E m \in MACs : DeleteDevice(m)
  BY <1>5 DEF DeleteDevice, DeviceMaps, Opt
<1>6. QED
  BY <1>1, <1>2, <1>3, <1>4, <1>5 DEF Users

LEMMA UserTypes ==
  ASSUME DInv, TInv, Users
  PROVE  TInv'
<1>1. Witness
  BY DEF Users, SetMapping, RenameMapping, DeleteMapping, ScanSees, DeleteDevice
<1>2. LaneTypes'
  BY <1>1, Witnessed DEF DInv
<1>3. MapTypes'
  BY UserMaps DEF TInv
<1>4. ASSUME NEW l \in Lanes, Deciding(l) PROVE Verdict(query[l])' \in Reply
  <2>1. query'[l] \in Questions
    BY <1>1, <1>4 DEF Witness, TInv, HasQuery, Deciding
  <2>2. (\A q \in Questions : Verdict(q) \in Reply)'
    BY <1>3, VerdictTypes, PTL
  <2>3. QED
    BY <2>1, <2>2
<1>5. verdicts' \in [Lanes -> SUBSET Reply]
  BY <1>1, <1>4 DEF Witness, TInv, RestTypes
<1>6. QED
  BY <1>1, <1>2, <1>3, <1>5 DEF Witness, TInv, RestTypes, HasQuery, HasRoom

-----------------------------------------------------------------------------
(* The invariant, and what follows. *)

LEMMA InitInv == Init => DInv
<1> SUFFICES ASSUME Init PROVE DInv
  OBVIOUS
<1>1. 1 \in Upstreams
  BY DnsAssumption DEF Upstreams
<1>2. LaneTypes
  BY <1>1 DEF Init, ForAll, Idle, LaneTypes, Places, Opt, OnLanes
<1>3. ASSUME NEW l \in Lanes PROVE LaneInv(l)
  BY DEF Init, ForAll, Idle, LaneInv, Asked, Decided, Answered, AllFailed, Deciding, Replying
<1>4. QED
  BY <1>2, <1>3 DEF DInv

LEMMA NextInv == DInv /\ [Next]_vars => DInv'
<1> SUFFICES ASSUME DInv, [Next]_vars PROVE DInv'
  OBVIOUS
<1>1. CASE \E l \in Lanes : Serve(l)
  BY <1>1, ServeSteps, ServeLane, OneLane DEF DInv
<1>2. CASE Clients
  BY <1>2, ClientSteps DEF Clients
<1>3. CASE Users
  <2>1. Witness
    BY <1>3 DEF Users, SetMapping, RenameMapping, DeleteMapping, ScanSees, DeleteDevice
  <2>2. QED
    BY <2>1, Witnessed
<1>4. CASE Shutdown \/ UNCHANGED vars
  <2>1. UNCHANGED <<registry, at, query, upstream, reply, verdicts, down>>
    BY <1>4 DEF Shutdown, vars, work
  <2>2. LaneTypes'
    BY <2>1 DEF DInv, LaneTypes, OnLanes
  <2>3. ASSUME NEW l \in Lanes PROVE LaneInv(l)'
    <3>1. Kept(l) /\ LaneInv(l)
      BY <2>1, KeptAs DEF DInv
    <3>2. QED
      BY <2>1, <3>1 DEF LaneInv, Asked, Decided, Answered, AllFailed, Deciding, Replying,
         Outcome, Kept
  <2>4. QED
    BY <2>2, <2>3 DEF DInv
<1>5. QED
  BY <1>1, <1>2, <1>3, <1>4 DEF Next

LEMMA LanesInvariant == Spec => []DInv
  BY InitInv, NextInv, PTL DEF Spec

\* Whatever the maps do while a query is handled, its answer was true at one
\* moment since it arrived.
THEOREM AnsweredTruly == Spec => []AnsweredAsOfOneMoment
<1>1. DInv => AnsweredAsOfOneMoment
  BY DEF DInv, LaneInv, Answered, AnsweredAsOfOneMoment
<1>2. QED
  BY <1>1, LanesInvariant, PTL

\* No name of the domain ever leaves the house, nor one that was known all
\* the while.
THEOREM NamesStayHome == Spec => []OwnNamesStayHome
<1>1. DInv => OwnNamesStayHome
  BY DEF DInv, LaneInv, Decided, OwnNamesStayHome
<1>2. QED
  BY <1>1, LanesInvariant, PTL

\* However many upstreams there are, forward gives up on a query only when
\* the last of them has failed it.
THEOREM FailsAfterAll == Spec => []ServFailAfterAll
<1>1. DInv => ServFailAfterAll
  BY DEF DInv, LaneInv, AllFailed, ServFailAfterAll
<1>2. QED
  BY <1>1, LanesInvariant, PTL

\* Every lane has what it needs where it is: a message to answer (no lookup is
\* made for nothing), an upstream of the list, fewer than MaxReads datagrams
\* read from it, no more queries on a connection than it may serve, and a
\* reply of the answer its message can have.
THEOREM ServerTypes == Spec => []TypeOK
<1>1. Init => TInv
  <2> SUFFICES ASSUME Init PROVE TInv
    OBVIOUS
  <2>1. NoReply \in Reply
    BY DEF NoReply, Plain, Reply, Opt
  <2>2. 0 \in 0 .. MaxReads - 1 /\ 0 \in 0 .. MaxTCPQueries /\ 0 < MaxTCPQueries
    BY DnsAssumption DEF MaxReads
  <2>3. RestTypes /\ MapTypes
    BY <2>1, <2>2 DEF Init, ForAll, RestTypes, MapTypes, DeviceMaps, MappingMaps, NoDevices,
       NoMappings, Opt
  <2>4. \A l \in Lanes : HasQuery(l)
    BY DEF Init, Idle, HasQuery
  <2>5. \A l \in TCPLanes : HasRoom(l)
    BY <2>2 DEF Init, ForAll, HasRoom
  <2>6. QED
    BY <2>3, <2>4, <2>5, InitInv DEF TInv, Init, DInv
<1>2. DInv /\ TInv /\ [Next]_vars => TInv'
  <2> SUFFICES ASSUME DInv, TInv, [Next]_vars PROVE TInv'
    OBVIOUS
  <2>1. CASE \E l \in Lanes : Serve(l)
    BY <2>1, ServeTypes
  <2>2. CASE Clients
    BY <2>2, ClientTypes DEF Clients
  <2>3. CASE Users
    BY <2>3, UserTypes
  <2>4. CASE Shutdown \/ UNCHANGED vars
    BY <2>4 DEF Shutdown, vars, registry, work, TInv, LaneTypes, OnLanes, MapTypes, RestTypes,
       HasQuery, HasRoom
  <2>5. QED
    BY <2>1, <2>2, <2>3, <2>4 DEF Next
<1>3. TInv => TypeOK
  BY DEF TInv, LaneTypes, MapTypes, RestTypes, TypeOK
<1>4. QED
  BY <1>1, <1>2, <1>3, LanesInvariant, PTL DEF Spec
=============================================================================
