------------------------------ MODULE DnsNames ------------------------------
(***************************************************************************)
(* internal/dnsmsg/dnsmsg.go: names in DNS messages, read with and without *)
(* compression pointers, and written.                                      *)
(*                                                                         *)
(* A message is a sequence of bytes, addressed from 0 as in the code.  A   *)
(* name is the sequence of its labels.  The code joins them with dots; no  *)
(* label is empty, so the separators follow from the labels.  errShort and *)
(* errBadName are both Error: no caller tells them apart.                  *)
(*                                                                         *)
(* The two highest bits of a byte tell a label's length from a pointer.    *)
(* MaxLabel (63 in the code) fixes where they are, so that a byte may have *)
(* fewer values here; MaxTotal is 255 and MaxDepth 16 in the code.           *)
(***************************************************************************)
EXTENDS Integers, Sequences, SequencesExt

CONSTANTS
  MaxLabel,    \* the greatest length of a label
  MaxTotal,    \* the greatest size of a run of labels
  MaxDepth,    \* how many pointers are followed
  Uppers,      \* the bytes 'A' to 'Z'
  ToLower,     \* 'a' - 'A'
  Error

Quarter == MaxLabel + 1
ByteSize == 4 * Quarter
Byte == 0..(ByteSize - 1)

ASSUME SizeAssumption ==
  /\ MaxLabel \in Nat \ {0} /\ MaxTotal \in Nat \ {0} /\ MaxDepth \in Nat
  /\ Uppers \subseteq Byte /\ ToLower \in Nat
  /\ \A c \in Uppers : c + ToLower \in Byte \ Uppers

At(msg, off) == msg[off + 1]

\* b&0xC0 == 0xC0, and b&0xC0 != 0 otherwise.
IsPointer(b) == b >= 3 * Quarter
IsReserved(b) == b >= Quarter /\ ~IsPointer(b)

Pointer(high, low) == (high - 3 * Quarter) * ByteSize + low

Lower(c) == IF c \in Uppers THEN c + ToLower ELSE c

Label(msg, off) == [i \in 1..At(msg, off) |-> Lower(At(msg, off + i))]

Fits(msg, off) == off + 1 + At(msg, off) <= Len(msg)

\* Mutant of NextAfterPointer: what follows the name pointed to.
NextAfterPart(off, part) == part.next

\* Where the caller reads on: after the pointer, not after what it points to.
NextAfterPointer(off, part) == off + 2

\* What a decoder returns.
DomainNames == Seq(Seq(Byte))
Read == [name : DomainNames, next : Nat]
Results == Read \cup {Error}

ASSUME ErrorAssumption == Error \notin Read

\* The variables of decodeName; total is the size of the labels read since the
\* call began.
Places == [off : Nat, depth : Nat, total : Nat]

\* A turn of its loop at p; read has what is read from other places.
DecodeTurn(msg, p, read) ==
  IF p.off >= Len(msg) \/ p.depth > MaxDepth THEN Error
  ELSE LET b == At(msg, p.off) IN
    CASE b = 0 -> [name |-> <<>>, next |-> p.off + 1]
      [] IsPointer(b) ->
           IF p.off + 1 >= Len(msg) THEN Error
           ELSE LET part == read[[off |-> Pointer(b, At(msg, p.off + 1)),
                                  depth |-> p.depth + 1, total |-> 0]]
                IN  IF part = Error THEN Error
                    ELSE [part EXCEPT !.next = NextAfterPointer(p.off, part)]
      [] IsReserved(b) -> Error
      [] OTHER ->
           IF ~Fits(msg, p.off) \/ p.total + b + 1 > MaxTotal THEN Error
           ELSE LET rest == read[[off |-> p.off + b + 1, depth |-> p.depth,
                                  total |-> p.total + b + 1]]
                IN  IF rest = Error THEN Error
                    ELSE [rest EXCEPT !.name = <<Label(msg, p.off)>> \o @]

decodeName(msg) == LET read[p \in Places] == DecodeTurn(msg, p, read) IN read

DecodeNameAt(msg, off) == decodeName(msg)[[off |-> off, depth |-> 0, total |-> 0]]

\* Mutant of TooLong: the size is not limited.
NeverTooLong(size) == FALSE

TooLong(size) == size > MaxTotal

PlainPlaces == [off : Nat, total : Nat]

\* A turn of the loop of decodeNameUncompressed.
PlainTurn(msg, p, read) ==
  IF p.off >= Len(msg) THEN Error
  ELSE LET b == At(msg, p.off) IN
    CASE b = 0 -> [name |-> <<>>, next |-> p.off + 1]
      [] b >= Quarter -> Error
      [] OTHER ->
           IF ~Fits(msg, p.off) \/ TooLong(p.total + b + 1) THEN Error
           ELSE LET rest == read[[off |-> p.off + b + 1, total |-> p.total + b + 1]]
                IN  IF rest = Error THEN Error
                    ELSE [rest EXCEPT !.name = <<Label(msg, p.off)>> \o @]

plainDecoder(msg) == LET read[p \in PlainPlaces] == PlainTurn(msg, p, read) IN read

decodeNameUncompressed(msg, off) == plainDecoder(msg)[[off |-> off, total |-> 0]]

\* Mutant of BadLabel: long labels are written, with a length byte that reads
\* as a reserved one.
BadLabelIfEmpty(label) == label = <<>>

BadLabel(label) == label = <<>> \/ Len(label) > MaxLabel

EncodeName(name) ==
  LET out == FlattenSeq([i \in DOMAIN name |-> <<Len(name[i])>> \o name[i]])
  IN  IF (\E i \in DOMAIN name : BadLabel(name[i])) \/ Len(out) + 1 > MaxTotal THEN Error
      ELSE Append(out, 0)
=============================================================================
