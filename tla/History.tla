------------------------------- MODULE History -------------------------------
(***************************************************************************)
(* History (history/mod.rs): the append-and-index record store under the   *)
(* order history and the trade history.  A store is a record               *)
(*   primary : key -> [seq, record]                                        *)
(*   by_user : <<user, seq>> -> key                                        *)
(* of two stable B-tree maps.  The keys of a range scan come back newest   *)
(* first.                                                                  *)
(***************************************************************************)
EXTENDS Integers, FiniteSets, SequencesExt

CONSTANTS None,            \* Option::None
          CursorNotFound   \* the error of a paginated reader

Empty == [primary |-> <<>>, by_user |-> <<>>]

Map(f, k, v) == [x \in DOMAIN f \cup {k} |-> IF x = k THEN v ELSE f[x]]

len(h) == Cardinality(DOMAIN h.primary)
contains_key(h, key) == key \in DOMAIN h.primary
get(h, key) == h.primary[key].record

\* The asserts of insert_once.
insert_panics(h, user, key) ==
    key \in DOMAIN h.primary \/ <<user, len(h)>> \in DOMAIN h.by_user

\* The insertion sequence is the number of records.
insert_once(h, user, key, record) ==
    [primary |-> Map(h.primary, key, [seq |-> len(h), record |-> record]),
     by_user |-> Map(h.by_user, <<user, len(h)>>, key)]

\* A record is updated in place and keeps its sequence; the index is left alone.
modify(h, key, record) ==
    [primary |-> Map(h.primary, key, [seq |-> h.primary[key].seq, record |-> record]),
     by_user |-> h.by_user]

take(s, length) == SubSeq(s, 1, IF length < Len(s) THEN length ELSE Len(s))

\* Whether the cursor's key maps back to it in the user's index.
OwnCursor(h, user, cursor) ==
    /\ cursor \in DOMAIN h.primary
    /\ <<user, h.primary[cursor].seq>> \in DOMAIN h.by_user
    /\ h.by_user[<<user, h.primary[cursor].seq>>] = cursor

\* Faulty variant of page_by_user: the cursor is any known key.
page_by_user_unowned(h, user, after, length) ==
    LET own == {key \in DOMAIN h.by_user :
                  /\ key[1] = user
                  /\ after # None => key[2] < h.primary[after].seq}
        index == SetToSortSeq(own, LAMBDA a, b : a[2] > b[2])
    IN  IF after # None /\ after \notin DOMAIN h.primary THEN CursorNotFound
        ELSE [i \in 1 .. Len(take(index, length)) |-> h.by_user[index[i]]]

\* Up to length of the user's keys, from the newest or strictly after a cursor.
page_by_user(h, user, after, length) ==
    LET own == {key \in DOMAIN h.by_user :
                  /\ key[1] = user
                  /\ after # None => key[2] < h.primary[after].seq}
        index == SetToSortSeq(own, LAMBDA a, b : a[2] > b[2])
    IN  IF after # None /\ ~ OwnCursor(h, user, after) THEN CursorNotFound
        ELSE [i \in 1 .. Len(take(index, length)) |-> h.by_user[index[i]]]
=============================================================================
