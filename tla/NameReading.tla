---------------------------- MODULE NameReading ----------------------------
(***************************************************************************)
(* What the two decoders of names and EncodeName are to each other, for    *)
(* any message: messages grow byte by byte, so that every message over     *)
(* Bytes occurs, with pointers that loop or lead out of it, labels that    *)
(* are cut, and bytes that are neither.                                    *)
(***************************************************************************)
EXTENDS DnsNames

CONSTANTS
  Bytes,       \* the bytes messages are made of
  MaxLen,      \* the length of the longest message
  MaxPad,      \* the length of the longest message a name is written into
  WireNames    \* the names that are written

ASSUME BytesAssumption ==
  /\ Bytes \subseteq Byte /\ WireNames \subseteq DomainNames
  /\ MaxLen \in Nat /\ MaxPad \in Nat

VARIABLE msg

Init == msg = <<>>

NextByte == Len(msg) < MaxLen /\ \E b \in Bytes : msg' = Append(msg, b)

Spec == Init /\ [][NextByte]_msg

Nowhere == -1

\* Where a reader goes from a place of the message.
Follow(off) ==
  CASE off \notin 0..(Len(msg) - 1) -> Nowhere
    [] At(msg, off) \in 1..MaxLabel /\ off + At(msg, off) < Len(msg) -> off + 1 + At(msg, off)
    [] IsPointer(At(msg, off)) /\ off + 1 < Len(msg) -> Pointer(At(msg, off), At(msg, off + 1))
    [] OTHER -> Nowhere

IsJump(off) == off \in 0..(Len(msg) - 1) /\ IsPointer(At(msg, off))

\* The places a reader passes up to the first pointer.
Passed == LET passed[off \in Nat] ==
                {off} \cup IF IsJump(off) \/ Follow(off) = Nowhere THEN {} ELSE passed[Follow(off)]
          IN  passed

\* The decoder of questions and the decoder of replies agree: a name without
\* pointers is the same to both, and one with a pointer is refused by the first.
DecodersAgree ==
  \A off \in 0..Len(msg) :
    decodeNameUncompressed(msg, off) =
      IF \E place \in Passed[off] : IsJump(place) THEN Error ELSE DecodeNameAt(msg, off)

\* The places a reader passes in so many steps, in order.
Steps == [off : Nat, left : Nat]

WalkFrom == LET walk[s \in Steps] ==
                  IF s.left = 0 \/ Follow(s.off) = Nowhere THEN <<s.off>>
                  ELSE <<s.off>> \o walk[[off |-> Follow(s.off), left |-> s.left - 1]]
            IN  walk

\* Enough of them to follow one pointer more than is allowed.
Walk(off) == WalkFrom[[off |-> off, left |-> (MaxDepth + 1) * (MaxLen + 1)]]

\* The turns of a walk that follow a pointer, and the labels of the others.
Jumps(walk) == {n \in 1..(Len(walk) - 1) : IsJump(walk[n])}
Labels(walk) ==
  FlattenSeq([n \in 1..(Len(walk) - 1) |->
                IF n \in Jumps(walk) THEN <<>> ELSE <<Label(msg, walk[n])>>])

\* A walk reads a name when it comes to a zero byte, has followed at most
\* MaxDepth pointers and has not passed more than MaxTotal bytes without one.
Reading(off) ==
  LET walk == Walk(off)
      last == Len(walk)
  IN  IF \/ walk[last] >= Len(msg) \/ At(msg, walk[last]) # 0
         \/ Cardinality(Jumps(walk)) > MaxDepth
         \/ \E i, j \in 1..last :
              i < j /\ Jumps(walk) \cap (i..(j - 1)) = {} /\ walk[j] - walk[i] > MaxTotal
      THEN Error
      ELSE [name |-> Labels(walk),
            next |-> IF Jumps(walk) = {} THEN walk[last] + 1 ELSE walk[Min(Jumps(walk))] + 2]

\* decodeName reads at every place of every message, loops of pointers,
\* pointers past the end and cut messages included, what a walk reads, and the
\* caller continues behind the first pointer or the zero byte.
DecodeReads == \A off \in 0..Len(msg) : DecodeNameAt(msg, off) = Reading(off)

\* Names are compared without regard to case.
Lowered(name) == [k \in DOMAIN name |-> [i \in DOMAIN name[k] |-> Lower(name[k][i])]]

\* A name that EncodeName accepts is read again as it was, in lower case,
\* wherever in a message it is written and whatever follows, by both decoders:
\* the limits of writing are never looser than those of reading.
WrittenIsRead == Len(msg) <= MaxPad =>
  \A name \in WireNames :
    LET wire == EncodeName(name)
        read == [name |-> Lowered(name), next |-> Len(msg) + Len(wire)]
    IN  wire # Error =>
          /\ DecodeNameAt(msg \o wire \o msg, Len(msg)) = read
          /\ decodeNameUncompressed(msg \o wire \o msg, Len(msg)) = read
=============================================================================
