------------------------------- MODULE ByDate -------------------------------
(***************************************************************************)
(* The table `transactions` in the order in which list_transactions hands  *)
(* it out: by created_at, the newest first, cut by limit and offset.  The  *)
(* modules of the two readers EXTEND this one: a page that loads its list  *)
(* (Feed) and a client that walks through all of it (Listing).             *)
(***************************************************************************)
EXTENDS Integers, SequencesExt, FiniteSets

CONSTANT Times      \* the values of created_at

ASSUME TimesAssumption == Times \subseteq Int

VARIABLE created    \* created_at of each row there is

(* Mutant of Stamp: ordered by the last update.                            *)
StampLast(k) ==
    \E t \in Times :
        /\ \A j \in DOMAIN created : created[j] <= t
        /\ created' = [j \in DOMAIN created \cup {k} |->
                            IF j = k THEN t ELSE created[j]]

(* A row is written.  created_at is NOW() of the INSERT and stays.  It is  *)
(* not unique; and as it is taken when the INSERT begins, a row may be     *)
(* committed after another that has a later one.                           *)
Stamp(k) ==
    IF k \in DOMAIN created
    THEN UNCHANGED created
    ELSE \E t \in Times :
            created' = [j \in DOMAIN created \cup {k} |->
                            IF j = k THEN t ELSE created[j]]

(* ORDER BY created_at DESC: rows that have the same come in any order,    *)
(* and in another one the next time.                                       *)
NewestFirst ==
    {s \in SetToSeqs(DOMAIN created) :
        \A i, j \in DOMAIN s : i < j => created[s[i]] >= created[s[j]]}

Cut(s, limit, offset) ==
    SubSeq(s, offset + 1, IF offset + limit < Len(s) THEN offset + limit ELSE Len(s))

(* ... LIMIT limit OFFSET offset: the answers the SELECT may give.         *)
ListTransactions(limit, offset) == {Cut(s, limit, offset) : s \in NewestFirst}
=============================================================================
