------------------------------- MODULE Bolt11 -------------------------------
(***************************************************************************)
(* The BOLT#11 decoder of the page (components/functions.rs): what it      *)
(* makes of a payment request, and how the page words it.  A request is    *)
(* the outcome of the checks that come before the data is looked at        *)
(* (`form`), the human-readable part cut into what the decoder tells       *)
(* apart, and the 5-bit words without the signature.  The page treats all  *)
(* errors alike, and so does Invalid.                                      *)
(***************************************************************************)
EXTENDS Integers, SequencesExt

CONSTANTS
    Milli,      \* from one multiplier to the next: 1000
    U64,        \* one more than the largest u64
    None,       \* Rust None
    Invalid     \* Err(DecodeError)

ASSUME MilliAssumption == Milli \in Nat /\ Milli > 0 /\ Milli % 10 = 0

ASSUME U64Assumption == U64 \in Nat /\ U64 > 32 /\ U64 % 32 = 0

(* An HRP: whether it begins with "ln"; whether it has digits, and from    *)
(* the first of them on a number; the multiplier after it.                 *)
Multipliers == {"btc", "m", "u", "n", "p"}

Hrps == [ln : BOOLEAN, digits : {"none", "garbled", "number"}, number : Nat,
         multiplier : Multipliers]

(* What a byte may begin: a character of one byte to four, or none.        *)
CharLength(b) ==
    CASE b < 128          -> 1
      [] b \in 194 .. 223 -> 2
      [] b \in 224 .. 239 -> 3
      [] b \in 240 .. 244 -> 4
      [] OTHER            -> 0

(* The second byte: no surrogates, and nothing that is written too long or *)
(* beyond the last character.                                              *)
SecondOf(b) ==
    CASE b = 224 -> 160 .. 191
      [] b = 237 -> 128 .. 159
      [] b = 240 -> 144 .. 191
      [] b = 244 -> 128 .. 143
      [] OTHER   -> 128 .. 191

(* UTF-8 (table 3-7 of the Unicode standard): every byte begins a character*)
(* whose other bytes follow, or belongs to one that has begun before it.   *)
IsUtf8(bytes) ==
    \A i \in DOMAIN bytes :
        IF bytes[i] \in 128 .. 191
        THEN \E j \in 1 .. 3 : j < i /\ CharLength(bytes[i - j]) > j
        ELSE /\ CharLength(bytes[i]) \in 1 .. Len(bytes) + 1 - i
             /\ \A j \in 1 .. CharLength(bytes[i]) - 1 :
                    bytes[i + j] \in IF j = 1 THEN SecondOf(bytes[i]) ELSE 128 .. 191

Strings == {bytes \in Seq(0 .. 255) : IsUtf8(bytes)}

(* What is found in the data: a description and an expiry, if they are     *)
(* there; and what is made of it.                                          *)
Found == [description : Seq(Nat) \cup {None}, expiry : Nat \cup {None}]

Decoded == [amount : Nat \cup {None}, description : Strings \cup {None}, expiry : Nat]

(* An Option or a Result tells its variants apart.                         *)
ASSUME NoneAssumption == None \notin Nat \cup Seq(Nat) \cup Decoded

ASSUME InvalidAssumption ==
    Invalid \notin Nat \cup Seq(Nat) \cup Found \cup Decoded \cup {None}

-----------------------------------------------------------------------------
(***************************************************************************)
(* The amount.                                                             *)
(***************************************************************************)

(* 10^11, 10^8, 10^5 and 100                                               *)
MsatPer ==
    [btc |-> (Milli * Milli * Milli * Milli) \div 10, m |-> (Milli * Milli * Milli) \div 10,
     u |-> (Milli * Milli) \div 10, n |-> Milli \div 10]

CheckedMul(a, b) == IF a * b < U64 THEN a * b ELSE Invalid

(* parse_amount_msats: None for an HRP without an amount.                  *)
ParseAmount(hrp) ==
    IF ~hrp.ln THEN Invalid
    ELSE IF hrp.digits = "none" THEN None
    ELSE IF hrp.digits = "garbled" \/ hrp.number >= U64 THEN Invalid
    ELSE IF hrp.multiplier # "p" THEN CheckedMul(hrp.number, MsatPer[hrp.multiplier])
    ELSE IF hrp.number % 10 = 0 THEN hrp.number \div 10 ELSE Invalid

-----------------------------------------------------------------------------
(***************************************************************************)
(* The tagged fields.                                                      *)
(***************************************************************************)

Word == 0 .. 31

TwoTo == [k \in 0 .. 7 |-> <<1, 2, 4, 8, 16, 32, 64, 128>>[k + 1]]

(* One turn of the loop of five_bit_to_bytes.  The accumulator is a u32;   *)
(* what has been shifted out of 16 of its bits has left for `out` before.  *)
Shift(s, word) ==
    LET acc  == (s.acc * 32 + word) % 65536
        bits == s.bits + 5
    IN  IF bits < 8
        THEN [acc |-> acc, bits |-> bits, out |-> s.out]
        ELSE [acc |-> acc, bits |-> bits - 8,
              out |-> Append(s.out, (acc \div TwoTo[bits - 8]) % 256)]

(* The loop's variables after each turn.                                   *)
Packing(words) ==
    LET turn[n \in 0 .. Len(words)] ==
            IF n = 0 THEN [acc |-> 0, bits |-> 0, out |-> <<>>]
            ELSE Shift(turn[n - 1], words[n])
    IN  turn

(* five_bit_to_bytes: the bits left over have to be zero.                  *)
FiveBitToBytes(words) ==
    LET end == Packing(words)[Len(words)]
    IN  IF end.acc % TwoTo[end.bits] # 0 THEN Invalid ELSE end.out

(* Mutant of FromUtf8: String::from_utf8_unchecked.                        *)
FromUtf8Unchecked(bytes) == bytes

(* String::from_utf8                                                       *)
FromUtf8(bytes) == IF IsUtf8(bytes) THEN bytes ELSE Invalid

(* The expiry: `value << 5` on a u64 loses the upper bits.                 *)
Values(words) ==
    LET value[n \in 0 .. Len(words)] ==
            IF n = 0 THEN 0 ELSE ((value[n - 1] * 32) % U64) + words[n]
    IN  value

BigEndian(words) == Values(words)[Len(words)]

NoFields == [description |-> None, expiry |-> None]

(* The positions of 'd' and 'x' in the bech32 alphabet.                    *)
TagD == 13

TagX == 6

DecodeField(tag, words) ==
    CASE tag = TagD ->
            LET bytes == FiveBitToBytes(words)
            IN  IF bytes = Invalid \/ FromUtf8(bytes) = Invalid
                THEN Invalid ELSE [NoFields EXCEPT !.description = bytes]
      [] tag = TagX -> [NoFields EXCEPT !.expiry = BigEndian(words)]
      [] OTHER -> NoFields

(* Mutant of Later: the first of two fields of one kind stays.             *)
Earlier(field, rest) ==
    [f \in DOMAIN field |-> IF field[f] = None THEN rest[f] ELSE field[f]]

(* Of two fields of one kind the later one stays.                          *)
Later(field, rest) ==
    [f \in DOMAIN field |-> IF rest[f] = None THEN field[f] ELSE rest[f]]

(* decode_tagged_fields: the timestamp has 7 words; then come a tag, a     *)
(* length of two words and as many words of data, to the end.              *)
FieldsFrom(words) ==
    LET end == Len(words) + 1
        from[i \in 1 .. end] ==
            IF i = end THEN NoFields
            ELSE IF i + 3 > end THEN Invalid
            ELSE LET next == i + 3 + words[i + 1] * 32 + words[i + 2]
                 IN  IF next > end THEN Invalid
                     ELSE LET field == DecodeField(words[i], SubSeq(words, i + 3, next - 1))
                              rest  == from[next]
                          IN  IF field = Invalid \/ rest = Invalid
                              THEN Invalid ELSE Later(field, rest)
    IN  from

DecodeTaggedFields(words) == IF Len(words) < 7 THEN Invalid ELSE FieldsFrom(words)[8]

(* decode_payment_request_local.  An invoice without expiry has an hour.   *)
Decode(request) ==
    LET fields == DecodeTaggedFields(request.words)
        amount == ParseAmount(request.hrp)
    IN  IF request.form # "bech32" \/ fields = Invalid \/ amount = Invalid
        THEN Invalid
        ELSE [amount |-> amount, description |-> fields.description,
              expiry |-> IF fields.expiry = None THEN 3600 ELSE fields.expiry]

-----------------------------------------------------------------------------
(***************************************************************************)
(* How the page words it.                                                  *)
(***************************************************************************)
FormatAmount(msats) ==
    IF msats = None THEN None
    ELSE IF msats % 1000 = 0 THEN [n |-> msats \div 1000, unit |-> "sats"]
    ELSE [n |-> msats, unit |-> "msats"]

(* "1d 2h 3m 4s", without the parts that are zero; "0s".                   *)
FormatExpiry(seconds) ==
    LET part(n, unit) == IF n > 0 THEN <<[n |-> n, unit |-> unit]>> ELSE <<>>
        parts == part(seconds \div 86400, "d") \o part((seconds % 86400) \div 3600, "h")
                    \o part((seconds % 3600) \div 60, "m") \o part(seconds % 60, "s")
    IN  IF parts = <<>> THEN <<[n |-> 0, unit |-> "s"]>> ELSE parts

-----------------------------------------------------------------------------
(***************************************************************************)
(* What BOLT#11 says.  Here a request also has the timestamp and the       *)
(* fields it was composed of, [tag, data] each, and the number of words    *)
(* missing at its end: the decoder sees what Compose makes of them only.   *)
(***************************************************************************)
TaggedFields == [tag : Word, data : {words \in Seq(Word) : Len(words) < 1024}]

Encode(fields) ==
    FlattenSeq([i \in DOMAIN fields |->
        LET data == fields[i].data
        IN  <<fields[i].tag, Len(data) \div 32, Len(data) % 32>> \o data])

Compose(stamp, fields, cut) ==
    LET words == stamp \o Encode(fields)
    IN  SubSeq(words, 1, Len(words) - cut)

(* An amount in tenths of a msat: bitcoin are 10^11 msat, each multiplier  *)
(* is a thousandth of the one before it, the last a tenth of a msat.       *)
TenthsPer ==
    [btc |-> Milli * Milli * Milli * Milli, m |-> Milli * Milli * Milli,
     u |-> Milli * Milli, n |-> Milli, p |-> 1]

Tenths(hrp) == hrp.number * TenthsPer[hrp.multiplier]

(* The amount as the page words it is exact.                               *)
AmountExact(hrp, msats) ==
    LET shown == FormatAmount(msats)
    IN  /\ hrp.ln
        /\ msats = None <=> hrp.digits = "none"
        /\ msats # None =>
            /\ hrp.digits = "number" /\ msats < U64
            /\ Tenths(hrp) = 10 * shown.n * (IF shown.unit = "sats" THEN 1000 ELSE 1)
            /\ shown.unit = "msats" => shown.n % 1000 # 0

(* There is no amount that a u64 of msat can hold.                         *)
Unpayable(hrp) ==
    \/ ~hrp.ln
    \/ hrp.digits = "garbled"
    \/ hrp.digits = "number" /\ (Tenths(hrp) >= 10 * U64 \/ Tenths(hrp) % 10 # 0)

(* What the decoder refuses although BOLT#11 does not: it reads the number *)
(* as a u64 before it looks at the multiplier, and a number of tenths of a *)
(* msat may be ten times as large as one of msat.  Such an amount is of    *)
(* 18 million bitcoin and more.                                            *)
TooLong(hrp) == hrp.digits = "number" /\ hrp.number >= U64

Bit(words, i) == (words[((i - 1) \div 5) + 1] \div TwoTo[4 - ((i - 1) % 5)]) % 2

Octets(words) ==
    [k \in 1 .. (5 * Len(words)) \div 8 |->
        LET bit(j) == Bit(words, 8 * (k - 1) + j)
        IN  128 * bit(1) + 64 * bit(2) + 32 * bit(3) + 16 * bit(4)
                + 8 * bit(5) + 4 * bit(6) + 2 * bit(7) + bit(8)]

IsText(words) ==
    LET octets == Octets(words)
    IN  /\ IsUtf8(octets)
        /\ \A i \in 8 * Len(octets) + 1 .. 5 * Len(words) : Bit(words, i) = 0

(* The sum of the words, each by the worth of its place: 32^k at the k-th  *)
(* from the end.                                                           *)
Places(n) == LET place[k \in 0 .. n] == IF k = 0 THEN 1 ELSE 32 * place[k - 1] IN place

Sums(words) ==
    LET sum[n \in 0 .. Len(words)] ==
            IF n = 0 THEN 0
            ELSE sum[n - 1] + words[n] * Places(Len(words))[Len(words) - n]
    IN  sum

Number(words) == Sums(words)[Len(words)]

(* How many fields there are, if nothing is left over behind them and all  *)
(* messages are text.                                                      *)
Whole(text) ==
    {n \in 0 .. Len(text.fields) :
        /\ Compose(text.stamp, SubSeq(text.fields, 1, n), 0) = text.words
        /\ \A i \in 1 .. n : text.fields[i].tag = TagD => IsText(text.fields[i].data)}

(* The last of the fields a .. b with this tag, or 0.                      *)
LastOf(fields, tag, a, b) ==
    LET at == {i \in a .. b : fields[i].tag = tag} IN IF at = {} THEN 0 ELSE Max(at)

(* Each unit at most once and in its order, the parts add up, none is zero *)
(* or makes up a larger unit.                                              *)
Seconds == [d |-> 86400, h |-> 3600, m |-> 60, s |-> 1]

ExpiryExact(seconds) ==
    LET shown == FormatExpiry(seconds)
        of(unit) == {i \in DOMAIN shown : shown[i].unit = unit}
        worth(unit) == IF of(unit) = {} THEN 0 ELSE shown[Max(of(unit))].n * Seconds[unit]
    IN  /\ seconds = worth("d") + worth("h") + worth("m") + worth("s")
        /\ \A i, j \in DOMAIN shown :
                i < j => Seconds[shown[i].unit] > Seconds[shown[j].unit]
        /\ \A i \in DOMAIN shown :
                /\ shown[i].n < [d |-> U64, h |-> 24, m |-> 60, s |-> 60][shown[i].unit]
                /\ shown[i].n > 0 \/ seconds = 0

(* What is decoded is what the request says, modulo the width of an expiry;*)
(* a request is called invalid only if it is, or its amount too long.      *)
Exact(text, decoded) ==
    IF decoded = Invalid
    THEN \/ text.form # "bech32" \/ Whole(text) = {}
         \/ Unpayable(text.hrp) \/ TooLong(text.hrp)
    ELSE /\ text.form = "bech32"
         /\ AmountExact(text.hrp, decoded.amount)
         /\ \E n \in Whole(text) :
                LET d == LastOf(text.fields, TagD, 1, n)
                    x == LastOf(text.fields, TagX, 1, n)
                IN  /\ decoded.description = IF d = 0 THEN None ELSE Octets(text.fields[d].data)
                    /\ decoded.expiry = IF x = 0 THEN 3600 ELSE Number(text.fields[x].data) % U64
         /\ ExpiryExact(decoded.expiry)
=============================================================================
