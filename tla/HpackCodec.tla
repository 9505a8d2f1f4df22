------------------------------ MODULE HpackCodec ------------------------------
(***************************************************************************)
(* The two codecs below HPACK's header tables, in                          *)
(* http/http20/Http2HPACKContext.cpp: numbers with a prefix (encodeNumber, *)
(* decodeNumber) and Huffman-coded strings (encodeHuffman, decodeHuffman). *)
(* Only TLC's runs use this module; its operators are recursive.           *)
(***************************************************************************)
EXTENDS Integers, Sequences

Loops  == "loops"     \* the C++ function never returns
Throws == "throws"    \* it ends with an exception

-------------------------------------------------------------------------------
(* A number n behind p prefix bits.  The prefix bits themselves are added  *)
(* by the caller's representation: Mark is their value in the first byte.  *)
SuffixMax(p) == 2 ^ (8 - p) - 1

RECURSIVE Sevens(_)
Sevens(n) == IF n >= 128 THEN <<(n % 128) + 128>> \o Sevens(n \div 128) ELSE <<n>>

EncodeNumber(n, p, mark) ==
    IF n < SuffixMax(p)
    THEN <<mark + n>>
    ELSE <<mark + SuffixMax(p)>> \o Sevens(n - SuffixMax(p))

(* decodeNumber reads one byte after the prefix and loops while that byte, *)
(* which the loop never replaces, has its continuation bit.                *)
DecodeNumber(bytes, p) ==
    LET first == bytes[1] % 2 ^ (8 - p)
    IN IF first < SuffixMax(p) THEN [num |-> first, used |-> 1]
       ELSE IF bytes[2] >= 128 THEN [num |-> Loops, used |-> 2]
       ELSE [num |-> first + bytes[2], used |-> 2]

-------------------------------------------------------------------------------
CONSTANT
    Code      \* HUFFMAN_TABLE, or part of it: symbol -> sequence of bits

Symbols == DOMAIN Code

(* encodeHuffman and Bits::appendBits: the codes one after the other, and  *)
(* ones up to the end of the last byte.                                    *)
RECURSIVE Concatenation(_)
Concatenation(s) == IF s = <<>> THEN <<>> ELSE Code[Head(s)] \o Concatenation(Tail(s))

EncodeHuffman(s) ==
    LET bits == Concatenation(s)
    IN bits \o [i \in 1 .. (8 - (Len(bits) % 8)) % 8 |-> 1]

Width == 38                                     \* std::bitset<38> k
Lengths == {Len(Code[s]) : s \in Symbols}       \* the keys of masks

(* The window holds Width bits; the code's position stbind is the next     *)
(* free one, 37 when empty.  Bits not yet loaded are 0.                    *)
Bit(k, i)   == IF i <= Len(k) THEN k[i] ELSE 0
Prefix(k, n) == [i \in 1 .. n |-> Bit(k, i)]

(* The symbols decodeHuffman accepts: the longest code that fits the       *)
(* window, which is taken to hold one bit more than was loaded.            *)
Fits(k, stbind) ==
    {s \in Symbols : /\ Width - stbind >= Len(Code[s])
                     /\ Prefix(k, Len(Code[s])) = Code[s]}

Longest(S) == CHOOSE s \in S : \A t \in S : Len(Code[t]) <= Len(Code[s])

(* decodeHuffman: state d of the loop, bytes as a sequence of bits, one    *)
(* symbol and one byte of input per turn.  A turn that changes nothing is  *)
(* repeated for ever.                                                      *)
Shift(k, n) == SubSeq(k, n + 1, Len(k))

Matched(d) ==
    LET S == Fits(d.k, d.stbind)
    IN IF S = {} THEN d
       ELSE LET s == Longest(S)  n == Len(Code[s])
            IN [d EXCEPT !.out = Append(@, s), !.k = Shift(@, n),
                         !.stbind = @ + n, !.curr = @ + n]

Remaining(d, v) == Len(v) - d.curr

PaddingLeft(d, v) ==
    /\ Remaining(d, v) <= 7
    /\ \A i \in 1 .. Remaining(d, v) : Bit(d.k, i) = 1

(* The next byte goes into the window when there is room for it. *)
Loaded(d, v) ==
    IF ~(d.indx < Len(v) \div 8 /\ d.stbind >= 8) THEN d
    ELSE IF d.indx + 1 > (Len(v) \div 8) - 1 THEN [d EXCEPT !.indx = @ + 1]
    ELSE LET byte == SubSeq(v, 8 * (d.indx + 1) + 1, 8 * (d.indx + 2))
         IN [d EXCEPT !.indx = @ + 1, !.stbind = @ - 8,
                      !.k = Prefix(@, Width - 1 - d.stbind) \o byte]

(* A match of one bit more than was loaded puts the free position beyond   *)
(* the window's high end, where loading the next byte throws.              *)
RECURSIVE Turn(_, _)
Turn(d, v) ==
    LET m == Matched(d)
        f == [m EXCEPT !.last = @ \/ Remaining(m, v) <= 7]
        n == Loaded(f, v)
    IN IF d.last \/ PaddingLeft(m, v) THEN m.out
       ELSE IF f.stbind >= Width /\ n # f /\ n.stbind # f.stbind THEN Throws
       ELSE IF n = d THEN Loops
       ELSE Turn(n, v)

(* The first byte is loaded only if there are more. *)
DecodeHuffman(v) ==
    LET more == Len(v) > 8
    IN Turn([k |-> IF more THEN SubSeq(v, 1, 8) ELSE <<>>,
             stbind |-> IF more THEN Width - 9 ELSE Width - 1,
             indx |-> 0, curr |-> 0, last |-> FALSE, out |-> <<>>], v)
===============================================================================
