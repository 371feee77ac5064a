----------------------------- MODULE StatusList -----------------------------
(***************************************************************************)
(* Bitstring status lists: encodeStatusList writes one, decodeStatusList   *)
(* and statusAt read it.  Bits are packed into bytes, left-most first,     *)
(* compressed, and spelt in base64url.  A state is a list as its issuer    *)
(* published it, or the same with its text damaged on the way.             *)
(*                                                                         *)
(* A base64url character is its value in the alphabet, NotInAlphabet for   *)
(* any other.  GZIP is the platform's: a header that tells the content's   *)
(* checksum and length, and the content.                                   *)
(***************************************************************************)
EXTENDS Integers, Sequences, SequencesExt, FiniteSetsExt

CONSTANTS
    MINIMUM_STATUS_LIST_ENTRIES,
    MAX_STATUS_LIST_BYTES,
    EntryCounts,        \* entry counts asked of the encoder
    Sizes,              \* statusSize values tried; 0 stands for none given
    MaxSet,             \* bound on the indexes set
    DamageBytes         \* characters that damage may put into the text

ASSUME StatusListAssumption ==
    /\ MINIMUM_STATUS_LIST_ENTRIES \in Nat \ {0}
    /\ MAX_STATUS_LIST_BYTES \in Nat
    /\ EntryCounts \subseteq Nat /\ Sizes \subseteq Nat /\ MaxSet \in Nat

NotInAlphabet == 64
NoMessages == -1
Refused == [ok |-> FALSE]

VARIABLES
    options,            \* what encodeStatusList was asked for
    list,               \* what it published
    damaged

listVars == <<options, list, damaged>>

-----------------------------------------------------------------------------
(* Bits.                                                                   *)

BitAt(bits, i) == (bits[(i \div 8) + 1] \div 2 ^ (7 - (i % 8))) % 2

SetBit(bits, i) ==
    LET mask == 2 ^ (7 - (i % 8))
    IN  [b \in DOMAIN bits |-> IF b = (i \div 8) + 1 /\ (bits[b] \div mask) % 2 = 0
                               THEN bits[b] + mask ELSE bits[b]]

-----------------------------------------------------------------------------
(* Text.                                                                   *)

\* Sextet k of the group of three bytes it falls in; a missing byte counts as zero.
Base64urlEncode(bytes) ==
    LET byte(j) == IF j <= Len(bytes) THEN bytes[j] ELSE 0
        group(g) == byte(3 * g + 1) * 2 ^ 16 + byte(3 * g + 2) * 2 ^ 8 + byte(3 * g + 3)
    IN  [k \in 1 .. (4 * Len(bytes) + 2) \div 3 |->
            (group((k - 1) \div 4) \div 2 ^ (18 - 6 * ((k - 1) % 4))) % 64]

\* One turn of the decoder's loop; the bits above those still unread never count.
Absorb(state, v) ==
    LET acc == (state.acc * 64 + v) % 2 ^ 14
        bits == state.bits + 6
    IN  IF bits >= 8
        THEN [acc |-> acc, bits |-> bits - 8,
              out |-> Append(state.out, (acc \div 2 ^ (bits - 8)) % 256)]
        ELSE [acc |-> acc, bits |-> bits, out |-> state.out]

Absorbed(text) == FoldLeft(Absorb, [acc |-> 0, bits |-> 0, out |-> <<>>], text)

\* Mutant: leftover bits are not looked at.
Base64urlDecodeLenient(text) ==
    IF Len(text) % 4 = 1 \/ NotInAlphabet \in Range(text) THEN Refused
    ELSE [ok |-> TRUE, bytes |-> Absorbed(text).out]

\* The leftover bits must be zero: one byte string has one spelling.
Base64urlDecode(text) ==
    IF \/ Len(text) % 4 = 1
       \/ NotInAlphabet \in Range(text)
       \/ Absorbed(text).acc % 2 ^ Absorbed(text).bits # 0
    THEN Refused
    ELSE [ok |-> TRUE, bytes |-> Absorbed(text).out]

Checksum(bytes) == FoldLeft(LAMBDA a, b : (a + b) % 256, 0, bytes)
Gzip(bytes) == <<Checksum(bytes), Len(bytes)>> \o bytes

\* gunzip stops at the ceiling, or at content that is not what its header says.
Gunzip(bytes) ==
    LET content == SubSeq(bytes, 3, Len(bytes))
    IN  IF Len(bytes) < 2 \/ bytes # Gzip(content) \/ Len(content) > MAX_STATUS_LIST_BYTES
        THEN Refused ELSE [ok |-> TRUE, bits |-> content]

-----------------------------------------------------------------------------
(* Lists.                                                                  *)

\* Not given is 1; above 8 is refused by both sides.
NormalizeStatusSize(size) == IF size = 0 THEN 1 ELSE size
SizeOk(size) == NormalizeStatusSize(size) <= 8

MessagesOk(messages, size) ==
    IF messages = NoMessages THEN size = 1 ELSE messages = 2 ^ size

\* All bits of a set entry.
Packed(entries, size, set) ==
    FoldSet(LAMBDA i, bits : SetBit(bits, i), [b \in 1 .. (entries * size) \div 8 |-> 0],
            {idx * size + i : idx \in set, i \in 0 .. size - 1})

EncodeStatusList(o) ==
    LET size == NormalizeStatusSize(o.statusSize)
    IN  IF \/ ~SizeOk(o.statusSize)
           \/ o.entries < MINIMUM_STATUS_LIST_ENTRIES
           \/ (o.entries * size) % 8 # 0
           \/ \E idx \in o.set : idx >= o.entries
        THEN Refused
        ELSE [ok |-> TRUE, statusPurpose |-> o.statusPurpose,
              statusSize |-> IF size = 1 THEN 0 ELSE size,
              statusMessage |-> IF size = 1 THEN NoMessages ELSE 2 ^ size,
              text |-> Base64urlEncode(Gzip(Packed(o.entries, size, o.set)))]

DecodeStatusList(l, expectedPurpose) ==
    LET size == NormalizeStatusSize(l.statusSize)
        bytes == Base64urlDecode(l.text)
        unzipped == IF bytes.ok THEN Gunzip(bytes.bytes) ELSE Refused
    IN  IF \/ l.statusPurpose # expectedPurpose
           \/ ~SizeOk(l.statusSize)
           \/ ~MessagesOk(l.statusMessage, size)
           \/ ~unzipped.ok
        THEN Refused
        ELSE IF (Len(unzipped.bits) * 8) \div size < MINIMUM_STATUS_LIST_ENTRIES THEN Refused
        ELSE [ok |-> TRUE, bits |-> unzipped.bits, statusSize |-> size]

RangeError == -1

\* The entry's bits, the first the most significant.
StatusAt(d, index) ==
    LET start == index * d.statusSize
    IN  IF start + d.statusSize > Len(d.bits) * 8 THEN RangeError
        ELSE FoldLeft(LAMBDA v, i : 2 * v + BitAt(d.bits, start + i - 1), 0,
                      [i \in 1 .. d.statusSize |-> i])

-----------------------------------------------------------------------------
ListInit ==
    /\ options \in {[statusPurpose |-> p, statusSize |-> s, entries |-> n, set |-> {}] :
                      p \in {"revocation", "suspension"}, s \in Sizes, n \in EntryCounts}
    /\ list = EncodeStatusList(options)
    /\ damaged = FALSE

\* The issuer sets one more index and publishes again.
Set(index) ==
    /\ ~damaged
    /\ Cardinality(options.set) < MaxSet
    /\ options' = [options EXCEPT !.set = @ \cup {index}]
    /\ list' = EncodeStatusList(options')
    /\ UNCHANGED damaged

\* One character of the text is replaced, lost or added.
Damage ==
    /\ ~damaged /\ list.ok
    /\ damaged' = TRUE
    /\ UNCHANGED options
    /\ \/ \E i \in DOMAIN list.text : \E v \in DamageBytes \ {list.text[i]} :
            list' = [list EXCEPT !.text[i] = v]
       \/ \E i \in DOMAIN list.text : list' = [list EXCEPT !.text = RemoveAt(@, i)]
       \/ \E i \in 1 .. Len(list.text) + 1, v \in DamageBytes :
            list' = [list EXCEPT !.text = InsertAt(@, i, v)]

ListNext == (\E n \in EntryCounts : \E index \in 0 .. n : Set(index)) \/ Damage

ListSpec == ListInit /\ [][ListNext]_listVars

-----------------------------------------------------------------------------
\* The encoder and the decoder agree about the order of the bits: an entry reads as set
\* exactly when its index was set, for every index the list has, and an index beyond them
\* is a range error, never "not revoked".  (For lists below the ceiling.)
ReadsBack ==
    LET d == DecodeStatusList(list, options.statusPurpose)
    IN  list.ok /\ ~damaged =>
          /\ d.ok
          /\ \A index \in 0 .. options.entries + 8 :
               IF index < options.entries THEN (StatusAt(d, index) # 0) = (index \in options.set)
               ELSE StatusAt(d, index) = RangeError

\* A list asked about for the other purpose, and a text with a character wrong, missing
\* or added, are refused: neither is evidence that a credential is live.
DamageIsRefused ==
    list.ok =>
        /\ damaged => ~DecodeStatusList(list, options.statusPurpose).ok
        /\ \A p \in {"revocation", "suspension"} \ {options.statusPurpose} :
             ~DecodeStatusList(list, p).ok

\* A list is read as it was written, or not at all.
ListSound == ReadsBack /\ DamageIsRefused

-----------------------------------------------------------------------------
(* What the repository says and the code does not meet: README, section 6. *)

\* "An encoder that emitted a list its own decoder refuses would be the exact
\* encoder/decoder disagreement this module exists to prevent."
DecoderAcceptsEncoded ==
    list.ok /\ ~damaged => DecodeStatusList(list, options.statusPurpose).ok
=============================================================================
