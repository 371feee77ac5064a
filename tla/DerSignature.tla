---------------------------- MODULE DerSignature ----------------------------
(***************************************************************************)
(* An ECDSA signature in the two forms jws.ts translates between: DER, a   *)
(* SEQUENCE of two INTEGERs, as node signs and verifies it, and the two    *)
(* scalars side by side at a fixed width, as a token carries it.  A state  *)
(* is a DER string: what rawToDer makes of some signature, then edited     *)
(* byte by byte.                                                           *)
(***************************************************************************)
EXTENDS Integers, Sequences, SequencesExt

CONSTANTS
    Width,              \* bytes of a scalar (32)
    HighBit,            \* the top bit of a byte (128)
    SEQUENCE,           \* tag 0x30
    INTEGER,            \* tag 0x02
    ScalarBytes,        \* the bytes tried in a scalar
    MaxEdits

\* An encoding fits the short form of a length, as it does for P-256.
ASSUME DerAssumption ==
    /\ Width \in Nat \ {0} /\ HighBit \in Nat
    /\ 2 * (Width + 3) < HighBit
    /\ {SEQUENCE, INTEGER} \subseteq 0 .. 2 * HighBit - 1
    /\ SEQUENCE # INTEGER
    /\ ScalarBytes \subseteq 0 .. 2 * HighBit - 1
    /\ MaxEdits \in Nat

VARIABLES
    raw,                \* the signature: two scalars of Width bytes
    der,
    edits

derVars == <<raw, der, edits>>

Scalar == [1 .. Width -> ScalarBytes]
IsZero(scalar) == \A i \in 1 .. Width : scalar[i] = 0
NotDer == <<>>

-----------------------------------------------------------------------------
\* Without leading zeros; the last byte stays.
Stripped(bytes) ==
    LET from == CHOOSE i \in DOMAIN bytes :
                    /\ bytes[i] # 0 \/ i = Len(bytes)
                    /\ \A j \in 1 .. i - 1 : bytes[j] = 0
    IN  SubSeq(bytes, from, Len(bytes))

DerInteger(scalar) ==
    LET v == Stripped(scalar)
        body == IF v[1] >= HighBit THEN <<0>> \o v ELSE v
    IN  <<INTEGER, Len(body)>> \o body

\* rawToDer; it refuses a zero scalar.
RawToDer(r, s) ==
    IF IsZero(r) \/ IsZero(s) THEN NotDer
    ELSE LET body == DerInteger(r) \o DerInteger(s) IN <<SEQUENCE, Len(body)>> \o body

Aligned(mag) ==
    LET pad == Width - Len(mag) IN [i \in 1 .. Width |-> IF i <= pad THEN 0 ELSE mag[i - pad]]

NotRead == [ok |-> FALSE, scalar |-> <<>>, next |-> 0]

\* One turn of derToRaw's loop.
IntegerAt(bytes, at) ==
    IF at + 1 > Len(bytes) \/ bytes[at] # INTEGER THEN NotRead
    ELSE LET length == bytes[at + 1]
         IN  IF length = 0 \/ length > Width + 1 \/ at + 1 + length > Len(bytes) THEN NotRead
             ELSE LET mag == Stripped(SubSeq(bytes, at + 2, at + 1 + length))
                  IN  IF Len(mag) > Width THEN NotRead
                      ELSE [ok |-> TRUE, scalar |-> Aligned(mag), next |-> at + 2 + length]

\* Mutant: bytes after the second INTEGER are ignored.
DerToRawTrailing(bytes) ==
    IF Len(bytes) < 8 \/ Len(bytes) > 2 * Width + 8 \/ bytes[1] # SEQUENCE THEN NotDer
    ELSE LET first == IntegerAt(bytes, 3)
             second == IF first.ok THEN IntegerAt(bytes, first.next) ELSE NotRead
         IN  IF second.ok THEN <<first.scalar, second.scalar>> ELSE NotDer

\* derToRaw: two scalars, or refused.
DerToRaw(bytes) ==
    IF \/ Len(bytes) < 8 \/ Len(bytes) > 2 * Width + 8
       \/ bytes[1] # SEQUENCE
       \/ bytes[2] >= HighBit \/ bytes[2] + 2 # Len(bytes)
    THEN NotDer
    ELSE LET first == IntegerAt(bytes, 3)
             second == IF first.ok THEN IntegerAt(bytes, first.next) ELSE NotRead
         IN  IF second.ok /\ second.next = Len(bytes) + 1
             THEN <<first.scalar, second.scalar>> ELSE NotDer

-----------------------------------------------------------------------------
DerInit ==
    /\ raw \in {<<r, s>> : r \in Scalar, s \in Scalar}
    /\ der = RawToDer(raw[1], raw[2])
    /\ edits = 0

\* Bytes worth putting in any place: those of scalars, the tags, lengths near the bounds.
EditBytes == ScalarBytes \cup {SEQUENCE, INTEGER} \cup 0 .. Width + 2

Edit ==
    /\ edits < MaxEdits
    /\ der # NotDer
    /\ edits' = edits + 1
    /\ UNCHANGED raw
    /\ \/ \E i \in DOMAIN der, b \in EditBytes : der' = [der EXCEPT ![i] = b]
       \/ \E i \in DOMAIN der : der' = RemoveAt(der, i)
       \/ \E i \in 1 .. Len(der) + 1, b \in EditBytes : der' = InsertAt(der, i, b)

DerNext == Edit

DerSpec == DerInit /\ [][DerNext]_derVars

-----------------------------------------------------------------------------
\* The two translations are inverse: a token's signature is the one node made, and node
\* is asked about the one the token carries, for every nonzero scalar.
RoundTrip ==
    edits = 0 => IF IsZero(raw[1]) \/ IsZero(raw[2]) THEN der = NotDer
                 ELSE DerToRaw(der) = raw

\* "EVERY byte is accounted for": what derToRaw accepts is one SEQUENCE of two INTEGERs
\* and nothing else, each the scalar with zeros in front of it at most.
EveryByteAccounted ==
    DerToRaw(der) # NotDer =>
        \E k, l \in 1 .. Width + 1 :
          /\ 6 + k + l = Len(der)
          /\ LET a == SubSeq(der, 5, 4 + k)
                 b == SubSeq(der, 7 + k, 6 + k + l)
             IN  /\ der = <<SEQUENCE, 4 + k + l, INTEGER, k>> \o a \o <<INTEGER, l>> \o b
                 /\ \A p \in {<<a, DerToRaw(der)[1]>>, <<b, DerToRaw(der)[2]>>} :
                      Stripped(p[1]) = Stripped(p[2])

\* DER as the format defines it: a scalar's top bit never reads as a sign.
EncodesPositive ==
    edits = 0 /\ der # NotDer =>
        der[5] < HighBit /\ der[7 + der[4]] < HighBit

\* DER and the two scalars side by side say the same, and nothing else is accepted.
DerExact == RoundTrip /\ EveryByteAccounted /\ EncodesPositive
=============================================================================
