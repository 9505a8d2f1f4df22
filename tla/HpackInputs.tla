----------------------------- MODULE HpackInputs -----------------------------
(***************************************************************************)
(* The inputs over which the codecs of HpackCodec are compared with what a *)
(* codec promises: strings that grow symbol by symbol, and numbers.        *)
(***************************************************************************)
EXTENDS HpackCodec

CONSTANTS
    MaxLen,     \* longest string tried
    MaxNumber,  \* largest number tried
    Prefixes    \* prefix sizes the representations use

VARIABLES str, num

vars == <<str, num>>

Init == str = <<>> /\ num = 0

Grow(s) == num = 0 /\ Len(str) < MaxLen /\ str' = Append(str, s) /\ UNCHANGED num
Count   == str = <<>> /\ num < MaxNumber /\ num' = num + 1 /\ UNCHANGED str

Next == Count \/ \E s \in Symbols : Grow(s)
Spec == Init /\ [][Next]_vars

(* What encodeHuffman makes of a string decodeHuffman reads back, symbol   *)
(* for symbol, wherever the codes lie against the bytes and whatever the   *)
(* padding is - if its codes have at most 8 bits and the string is longer  *)
(* than one byte: the first of a single byte is never loaded, and the      *)
(* window pretends to hold one bit more than it does, which only a code    *)
(* longer than a byte can fall for.                                        *)
HuffmanRoundTrip ==
    LET v == EncodeHuffman(str)
    IN (\A i \in 1 .. Len(str) : Len(Code[str[i]]) <= 8) /\ Len(v) # 8
           => DecodeHuffman(v) = str

(* decodeNumber inverts encodeNumber, and uses up its bytes, exactly for   *)
(* the numbers of at most two bytes; for every longer one it never         *)
(* returns.                                                                *)
NumberExact ==
    \A p \in Prefixes :
        LET b == EncodeNumber(num, p, 0)
            d == DecodeNumber(b, p)
        IN IF num < SuffixMax(p) + 128
           THEN d.num = num /\ d.used = Len(b)
           ELSE d.num = Loops
===============================================================================
