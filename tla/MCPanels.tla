------------------------------ MODULE MCPanels ------------------------------
(* A small instance of Panels for TLC: payment requests that bring each    *)
(* case of the decoder about.                                              *)
EXTENDS Panels

MCMilli == 20

MCU64 == 2^15

Plain == [ln |-> TRUE, digits |-> "none", number |-> 0, multiplier |-> "btc"]

Amounting(number, multiplier) ==
    [ln |-> TRUE, digits |-> "number", number |-> number, multiplier |-> multiplier]

Text(form, hrp, fields, cut) ==
    LET stamp == [i \in 1 .. 7 |-> 0]
    IN  [form |-> form, hrp |-> hrp, stamp |-> stamp, fields |-> fields, cut |-> cut,
         words |-> Compose(stamp, fields, cut)]

(* Amounts on both sides of what fits: the multipliers are worth 16000,    *)
(* 800, 40 and 2 msat, and a tenth.                                        *)
MCHrps ==
    {Plain, [Plain EXCEPT !.ln = FALSE], [Plain EXCEPT !.digits = "garbled"]}
        \cup {Amounting(x, "btc") : x \in {0, 2, 3}}
        \cup {Amounting(x, "m") : x \in {40, 41}}
        \cup {Amounting(x, "u") : x \in {25, 819, 820}}
        \cup {Amounting(x, "n") : x \in {7, 500, 16384}}
        \cup {Amounting(x, "p") : x \in {15, 10000, 32760, 32770}}

D(words) == [tag |-> TagD, data |-> words]

X(words) == [tag |-> TagX, data |-> words]

Other == [tag |-> 1, data |-> <<5, 6>>]

(* Messages: empty, one word too many, "h" and "hi", with a bit set in the *)
(* padding, no UTF-8.  Expiries: none, the usual one, one that wraps.      *)
MCFields ==
    {D(<<>>), D(<<0>>), D(<<1>>), D(<<13, 0>>), D(<<13, 1>>), D(<<16, 0>>),
     D(<<13, 1, 20, 16>>), X(<<>>), X(<<3, 16, 16>>), X(<<1, 0, 0, 0>>),
     X(<<1, 31, 31>>), Other}

(* The words of a message, and messages with characters of every length:   *)
(* whole ones; too long, surrogates and beyond the last character; cut     *)
(* short, out of place, and bytes that are never used.                     *)
WordsOf(bytes) ==
    LET bit(i) == IF i > 8 * Len(bytes) THEN 0
                  ELSE (bytes[((i - 1) \div 8) + 1] \div TwoTo[7 - ((i - 1) % 8)]) % 2
    IN  [w \in 1 .. (8 * Len(bytes) + 4) \div 5 |->
            16 * bit(5 * w - 4) + 8 * bit(5 * w - 3) + 4 * bit(5 * w - 2)
                + 2 * bit(5 * w - 1) + bit(5 * w)]

MCMessages ==
    {<<195, 169>>, <<226, 130, 172>>, <<240, 159, 153, 130>>, <<104, 195, 169, 105>>,
     <<237, 159, 191>>, <<244, 143, 191, 191>>,
     <<192, 175>>, <<224, 159, 191>>, <<240, 143, 191, 191>>, <<237, 160, 128>>,
     <<244, 144, 128, 128>>,
     <<226, 130>>, <<195, 104>>, <<130>>, <<195, 169, 169>>, <<104, 255>>}

Pairs == {<<f, g>> : f, g \in {D(<<13, 0>>), D(<<13, 1>>), X(<<>>), X(<<2, 3>>), Other}}

MCTexts ==
    {Text(form, Plain, <<>>, 0) : form \in {"blank", "malformed", "bech32m"}}
        \cup {Text("bech32", hrp, <<>>, 0) : hrp \in MCHrps}
        \cup {Text("bech32", Amounting(7, "n"), <<f>>, 0) : f \in MCFields}
        \cup {Text("bech32", Plain, <<D(WordsOf(bytes))>>, 0) : bytes \in MCMessages}
        \cup {Text("bech32", Plain, fs, 0) : fs \in Pairs}
        \cup {Text("bech32", Plain, <<D(<<13, 0>>), X(<<2, 3>>)>>, cut) : cut \in 1 .. 11}
=============================================================================
