------------------------------ MODULE Listing -------------------------------
(***************************************************************************)
(* GET /api/transactions: a client that walks through the transactions     *)
(* page by page while the list grows at its head.  Each page is a SELECT   *)
(* of its own.                                                             *)
(***************************************************************************)
EXTENDS ByDate

CONSTANT Limit      \* the limit the client asks for

ASSUME LimitAssumption == Limit \in Nat \ {0}

VARIABLES
    walk,       \* the client: "before", "walking" or "done"
    got         \* the rows it has received, page after page

VARIABLES       \* history, for the properties
    atStart,    \* the rows there were when the walk began
    split       \* the rows missing from a page that ended among rows of
                \* their created_at

walkVars == <<walk, got, atStart, split>>
listingVars == <<created, walkVars>>

ListingInit ==
    /\ created = <<>>
    /\ walk = "before" /\ got = <<>>
    /\ atStart = {} /\ split = {}

Stored(k) == Stamp(k) /\ UNCHANGED walkVars

Begin ==
    /\ walk = "before"
    /\ walk' = "walking"
    /\ atStart' = DOMAIN created
    /\ UNCHANGED <<created, got, split>>

Newer(k) == {j \in DOMAIN created : created[j] > created[k]}

NotOlder(k) == {j \in DOMAIN created : created[j] >= created[k]}

(* The nth row in order and the next are of k's created_at.                *)
SplitAt(k, n) == Cardinality(Newer(k)) < n /\ n < Cardinality(NotOlder(k))

(* The client skips what it has received; a short page is the last.        *)
NextPage ==
    /\ walk = "walking"
    /\ \E page \in ListTransactions(Limit, Len(got)) :
        /\ got' = got \o page
        /\ walk' = IF Len(page) < Limit THEN "done" ELSE "walking"
    /\ split' = split \cup {k \in DOMAIN created \ ToSet(got') : SplitAt(k, Len(got'))}
    /\ UNCHANGED <<created, atStart>>

-----------------------------------------------------------------------------
(* The rows that have come since the walk began.                           *)
Since == DOMAIN created \ atStart

(* A client that walks through the list, page by page, receives every      *)
(* transaction there was when it began, although each page is cut from a   *)
(* list of its own moment, but for those that a page parted from others of *)
(* the same created_at; and one comes to it twice only in the place of one *)
(* that was so parted, or has come since and has not come to it.           *)
NoneSkipped ==
    /\ walk = "done" => atStart \subseteq ToSet(got) \cup split
    /\ Len(got) <= Cardinality(ToSet(got) \cup split \cup Since)

(***************************************************************************)
(* The inductive invariant.  What the client is still to receive has as    *)
(* many newer rows as the client has received, and never fewer: it can     *)
(* only be pushed further down.                                            *)
(***************************************************************************)
ListingTypeOK ==
    /\ IsFiniteSet(DOMAIN created)
    /\ \A k \in DOMAIN created : created[k] \in Times
    /\ walk \in {"before", "walking", "done"}
    /\ got \in Seq(DOMAIN created)
    /\ atStart \subseteq DOMAIN created
    /\ split \subseteq DOMAIN created

Unread == {k \in DOMAIN created : walk # "done" /\ Cardinality(Newer(k)) >= Len(got)}

ListingInv ==
    /\ ListingTypeOK
    /\ Len(got) <= Cardinality(DOMAIN created)
    /\ walk = "before" => got = <<>>
    /\ atStart \subseteq ToSet(got) \cup split \cup Unread
=============================================================================
