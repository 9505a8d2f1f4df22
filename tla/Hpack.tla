-------------------------------- MODULE Hpack --------------------------------
(***************************************************************************)
(* Header compression of http/http20/Http2HPACKContext.cpp: encode with    *)
(* the response tables of a context, decode with its request tables, and   *)
(* the dynamic entries both add.  A name or a value is a sequence of       *)
(* letters, because the table of pairs is looked up by name and value run  *)
(* together.  Numbers are the codec's; strings go over the wire as they    *)
(* are (HpackCodec has their code).                                        *)
(*                                                                         *)
(* The sender is another such context (Spec) or a peer that numbers the    *)
(* dynamic table from its newest entry and may choose any representation,  *)
(* as HPACK has it (PeerSpec, external).                                   *)
(***************************************************************************)
EXTENDS HpackCodec, FiniteSets

CONSTANTS
    Static,     \* HPACK_TABLE: a sequence of <<name, value>>
    Names,      \* header names, in the order of std::map: a sequence
    Values,     \* header values
    MaxEntries  \* bound: dynamic entries

VARIABLES
    enc,    \* the sender's dynamic table
    dec,    \* the dynamic part of the receiver's request table
    sent,   \* the header list of the last block
    got     \* what decode made of it: a sequence of fields, or Stuck

vars == <<enc, dec, sent, got>>

Pairs == {Names[i] : i \in 1 .. Len(Names)} \X Values
Key(f) == f[1] \o f[2]

Init == enc = <<>> /\ dec = <<>> /\ sent = <<>> /\ got = <<>>

-------------------------------------------------------------------------------
(* Http2HPACKHeaderTable: positions in the static table and then in the    *)
(* dynamic entries t, oldest first.                                        *)
Table(t) == Static \o t

(* getIndexByNameAndValue: by name and value run together; pairs without a *)
(* value are not in that index.  A later entry replaces an earlier one.    *)
PairIndexes(t, f) ==
    {i \in 1 .. Len(Table(t)) : Table(t)[i][2] # <<>> /\ Key(Table(t)[i]) = Key(f)}

(* getIndexByName: the first static entry of the name; dynamic entries     *)
(* never get into that index.                                              *)
NameIndexes(f) == {i \in 1 .. Len(Static) : Static[i][1] = f[1]}

Largest(S)  == CHOOSE i \in S : \A j \in S : j <= i
Smallest(S) == CHOOSE i \in S : \A j \in S : i <= j

AddHeader(t, f) == IF PairIndexes(t, f) = {} THEN Append(t, f) ELSE t

(* encode, one field: the bytes that open its representation, its strings  *)
(* and the table afterwards.                                               *)
EncodeField(t, f) ==
    IF PairIndexes(t, f) # {}
    THEN [bytes |-> EncodeNumber(Largest(PairIndexes(t, f)), 1, 128), strs |-> <<>>, table |-> t]
    ELSE IF NameIndexes(f) # {}
    THEN [bytes |-> EncodeNumber(Smallest(NameIndexes(f)), 2, 64), strs |-> <<f[2]>>,
          table |-> AddHeader(t, f)]
    ELSE [bytes |-> <<64>>, strs |-> f, table |-> AddHeader(t, f)]

Stuck == <<Loops>>      \* decode never leaves the field

BitOf(st, k) == (st \div 2 ^ k) % 2 = 1

NameByIndex(t, i) == IF i \in 1 .. Len(Table(t)) THEN Table(t)[i][1] ELSE <<>>

(* Mutant: the index counts from 0. *)
PairByIndexFromZero(t, i) == IF i + 1 \in 1 .. Len(Table(t)) THEN Table(t)[i + 1] ELSE Table(t)[1]

PairByIndex(t, i) == IF i \in 1 .. Len(Table(t)) THEN Table(t)[i] ELSE <<<<>>, <<>>>>


Named(t, bytes, prefix, strs) ==
    IF Len(strs) = 2 THEN strs
    ELSE <<NameByIndex(t, DecodeNumber(bytes, prefix).num), strs[1]>>

(* decode, one field: the field read and the table afterwards.  A first    *)
(* byte that belongs to no branch is not skipped, and the loop stays at it. *)
DecodeField(t, r) ==
    LET st == r.bytes[1]
    IN CASE BitOf(st, 7) ->
              [field |-> PairByIndex(t, DecodeNumber(r.bytes, 1).num), table |-> t]
         [] ~BitOf(st, 7) /\ BitOf(st, 6) ->
              LET f == Named(t, r.bytes, 2, r.strs)
              IN [field |-> f, table |-> AddHeader(t, f)]
         [] st <= 15 \/ (st < 64 /\ BitOf(st, 3)) ->
              [field |-> Named(t, r.bytes, 4, r.strs), table |-> t]
         [] OTHER -> [field |-> Stuck, table |-> t]

(* A whole block, field by field, by a context. *)
RECURSIVE Encode(_, _)
Encode(t, list) ==
    IF list = <<>> THEN [block |-> <<>>, table |-> t]
    ELSE LET r == EncodeField(t, Head(list))
             rest == Encode(r.table, Tail(list))
         IN [block |-> <<r>> \o rest.block, table |-> rest.table]

RECURSIVE Decode(_, _)
Decode(t, block) ==
    IF block = <<>> THEN [list |-> <<>>, table |-> t]
    ELSE LET d == DecodeField(t, Head(block))
             rest == Decode(d.table, Tail(block))
         IN IF d.field = Stuck \/ rest.list = <<Stuck>>
            THEN [list |-> <<Stuck>>, table |-> d.table]
            ELSE [list |-> <<d.field>> \o rest.list, table |-> rest.table]

(* The representations HPACK allows a peer for field f: indexed, with the  *)
(* newest dynamic entry right behind the static table; literal with        *)
(* incremental indexing, without indexing, or never indexed.               *)
PeerIndexes(t, f) ==
    LET tab == Static \o [i \in 1 .. Len(t) |-> t[Len(t) + 1 - i]]
    IN {i \in 1 .. Len(tab) : tab[i] = f}

PeerFields(t, f) ==
    {[bytes |-> EncodeNumber(i, 1, 128), strs |-> <<>>, table |-> t] : i \in PeerIndexes(t, f)}
    \cup {[bytes |-> <<64>>, strs |-> f, table |-> Append(t, f)],
          [bytes |-> <<0>>, strs |-> f, table |-> t],
          [bytes |-> <<16>>, strs |-> f, table |-> t]}

-------------------------------------------------------------------------------
(* A header list: std::map iterates it in the order of the names. *)
Lists ==
    LET Of(D, v) == LET In(i) == i \in D
                    IN SelectSeq([i \in 1 .. Len(Names) |-> <<Names[i], v[i], In(i)>>],
                                 LAMBDA x : x[3])
    IN {[j \in DOMAIN Of(D, v) |-> <<Of(D, v)[j][1], Of(D, v)[j][2]>>] :
           D \in SUBSET (1 .. Len(Names)) \ {{}}, v \in [1 .. Len(Names) -> Values]}

Receive(list, block, table) ==
    LET d == Decode(dec, block)
    IN /\ Len(table) <= MaxEntries
       /\ enc' = table /\ dec' = d.table /\ sent' = list /\ got' = d.list

(* One block from a context, and one field from a peer. *)
FromContext(list) ==
    /\ got # <<Stuck>>
    /\ LET e == Encode(enc, list) IN Receive(list, e.block, e.table)

FromPeer(f) ==
    /\ got # <<Stuck>>
    /\ \E r \in PeerFields(enc, f) : Receive(<<f>>, <<r>>, r.table)

Next == \E list \in Lists : FromContext(list)
Spec == Init /\ [][Next]_vars

PeerNext == \E f \in Pairs : FromPeer(f)
PeerSpec == Init /\ [][PeerNext]_vars

-------------------------------------------------------------------------------
(* Both ends of a connection between two contexts number the entries they  *)
(* have added alike after every block, whatever the blocks repeat.         *)
TablesAgree == enc = dec

(* Every field of a header list arrives, in order; name and value may      *)
(* change hands only for a pair that runs together to the same letters as  *)
(* another one in the table.                                               *)
FieldsArrive ==
    /\ Len(got) = Len(sent)
    /\ \A i \in 1 .. Len(sent) :
          \/ got[i] = sent[i]
          \/ /\ Key(got[i]) = Key(sent[i])
             /\ \E j \in 1 .. Len(Table(enc)) : Table(enc)[j] = got[i]

(* A header field that a peer sends by any representation of HPACK is the  *)

(* A field that a peer sends by a representation of HPACK is the field     *)
(* that decode returns, as long as it is not a literal never indexed, at   *)
(* which decode gets stuck, and the peer has indexed one field at most and *)
(* none that was in the table: decode adds no pair twice and numbers the   *)
(* entries from the oldest.                                                *)
PeerFieldsArrive ==
    got # <<Stuck>> /\ Len(enc) <= 1 /\ enc = dec => got = sent
===============================================================================
