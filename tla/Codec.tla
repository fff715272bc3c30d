------------------------------- MODULE Codec --------------------------------
(***************************************************************************)
(* Lengths and integers on the wire, internal/ldapserver/ber.go, octet by  *)
(* octet.  The contents of an element count by their size only.            *)
(***************************************************************************)
EXTENDS Integers, SequencesExt

CONSTANT WordOctets     \* octets of a Go int: 8 in the program

ASSUME WordAssumption == WordOctets \in Nat \ {0}

Octet == 0..255
MaxPacketLength == 4194304
NoLength == -1          \* the decoder gives up

-----------------------------------------------------------------------------
(* appendLength: the length in front of a content of n octets.  Two octets *)
(* are the most it writes, and what does not fit them is dropped.          *)
(* Fault: the short form up to 128.                                        *)
LengthOctetsShort(n) ==
    IF n <= 128 THEN <<n>>
    ELSE IF n <= 255 THEN <<129, n>>
    ELSE <<130, (n \div 256) % 256, n % 256>>

LengthOctets(n) ==
    IF n < 128 THEN <<n>>
    ELSE IF n <= 255 THEN <<129, n>>
    ELSE <<130, (n \div 256) % 256, n % 256>>

(* What a whole element takes, its tag and its length included.            *)
Element(n) == 1 + Len(LengthOctets(n)) + n

(* readLength, on the octets that follow a tag.                            *)
Place(s, k) == IF k < Len(s) THEN s[Len(s) - k] ELSE 0
LongLength(s) ==
    Place(s, 0) + 256 * Place(s, 1) + 65536 * Place(s, 2) + 16777216 * Place(s, 3)

ReadLength(s) ==
    LET count == s[1] - 128
        octets == SubSeq(s, 2, count + 1)
    IN  IF s = <<>> THEN NoLength
        ELSE IF s[1] < 128 THEN s[1]
        ELSE IF count \in 1..4 /\ Len(s) > count /\ LongLength(octets) <= MaxPacketLength
             THEN LongLength(octets)
        ELSE NoLength

(* What a reader takes for the content is what was written.                *)
ReadsBack(n) == ReadLength(LengthOctets(n)) = n

-----------------------------------------------------------------------------
(* packet.int: the value as the program holds it, which keeps the last     *)
(* WordOctets octets, and the one a reader with room for all of them sees. *)
Signed(o) == IF o < 128 THEN o ELSE o - 256
Power[k \in Nat] == IF k = 0 THEN 1 ELSE 256 * Power[k - 1]
Word == Power[WordOctets]
Wrap(n) == ((n + Word \div 2) % Word) - Word \div 2

IntOf(s) == FoldLeft(LAMBDA v, o : Wrap(256 * v + o), Signed(s[1]), Tail(s))
ValueOf(s) == FoldLeft(LAMBDA v, o : 256 * v + o, Signed(s[1]), Tail(s))

(* berInteger: the octets of the word without leading zeros; a zero goes   *)
(* in front of a content that would read as negative.                      *)
WordOf(v) == [i \in 1..WordOctets |-> (v \div Power[WordOctets - i]) % 256]
Significant(s) ==
    SubSeq(s, CHOOSE i \in 1..Len(s) :
                  /\ s[i] # 0 \/ i = Len(s)
                  /\ \A j \in 1..(i - 1) : s[j] = 0, Len(s))
Padded(s) == IF s[1] >= 128 THEN <<0>> \o s ELSE s
IntegerOctets(v) == Padded(Significant(WordOf(v)))

=============================================================================
