------------------------------- MODULE LruMap -------------------------------
(***************************************************************************)
(* What a cache of at most Size entries promises: a key that is read gives *)
(* the value last stored for it or nothing, and an entry disappears only   *)
(* because it is removed or because, in a full cache, a new one needs the  *)
(* place of the entry that was used least recently.                        *)
(***************************************************************************)
EXTENDS Naturals, Sequences, SequencesExt

CONSTANTS Keys, Vals, Size

VARIABLE entries    \* <<key, value>> pairs, the last used first

Stored      == {entries[i][1] : i \in DOMAIN entries}
Position(k) == CHOOSE i \in DOMAIN entries : entries[i][1] = k
Without(k)  == IF k \in Stored THEN RemoveAt(entries, Position(k)) ELSE entries
ToFront(e, i) == <<e[i]>> \o RemoveAt(e, i)

Init == entries = <<>>

Store ==
    \E k \in Keys, v \in Vals :
        entries' = <<<<k, v>>>> \o (IF Len(Without(k)) < Size THEN Without(k)
                                    ELSE Front(Without(k)))

\* A read of one or of two keys.
Use ==
    \E i, j \in DOMAIN entries :
        \/ entries' = ToFront(entries, i)
        \/ entries' = ToFront(ToFront(entries, i), j)

Drop == \E k \in Stored : entries' = Without(k)

Next == Store \/ Use \/ Drop

Spec == Init /\ [][Next]_entries
=============================================================================
