--------------------------- MODULE ListingProofs ----------------------------
(***************************************************************************)
(* What a walk through the listing receives, whatever is stored meanwhile. *)
(***************************************************************************)
EXTENDS Listing, SequenceTheorems, FiniteSetTheorems, WellFoundedInduction, TLAPS

(* A page is a stretch of the list.                                          *)
LEMMA PageFacts ==
    ASSUME NEW Ks, NEW s \in Seq(Ks), NEW m \in Nat, NEW n \in Nat, m <= n, n <= Len(s)
    PROVE  LET page == SubSeq(s, m + 1, n)
           IN  /\ page \in Seq(Ks) /\ Len(page) = n - m
               /\ \A i \in 1 .. n - m : page[i] = s[m + i]
<1>1. \A i \in m + 1 .. n : i \in 1 .. Len(s)
  BY LenProperties
<1>2. IF m + 1 <= n THEN n - (m + 1) + 1 = n - m ELSE n - m = 0
  OBVIOUS
<1> QED
  BY <1>1, <1>2, SubSeqProperties, LenProperties

(* What stands where in two lists put together.                              *)
LEMMA ConcatFacts ==
    ASSUME NEW Ks, NEW s \in Seq(Ks), NEW t \in Seq(Ks)
    PROVE  /\ s \o t \in Seq(Ks) /\ Len(s \o t) = Len(s) + Len(t)
           /\ \A i \in 1 .. Len(s) : (s \o t)[i] = s[i]
           /\ \A i \in 1 .. Len(t) : (s \o t)[Len(s) + i] = t[i]
<1>1. s \o t \in Seq(Ks) /\ Len(s \o t) = Len(s) + Len(t) /\ Len(s) \in Nat /\ Len(t) \in Nat
  BY ConcatProperties, LenProperties
<1>2. \A i \in 1 .. Len(s) + Len(t) :
          (s \o t)[i] = IF i <= Len(s) THEN s[i] ELSE t[i - Len(s)]
  BY ConcatProperties
<1>3. ASSUME NEW i \in 1 .. Len(s) PROVE (s \o t)[i] = s[i]
  BY <1>1, <1>2
<1>4. ASSUME NEW i \in 1 .. Len(t) PROVE (s \o t)[Len(s) + i] = t[i]
  <2>1. Len(s) + i \in 1 .. Len(s) + Len(t) /\ ~(Len(s) + i <= Len(s)) /\ Len(s) + i - Len(s) = i
    BY <1>1
  <2> QED
    BY <1>2, <2>1
<1> QED
  BY <1>1, <1>3, <1>4

(* The entries of a list are finitely many.                                  *)
LEMMA ToSetFacts ==
    ASSUME NEW Ks, NEW s \in Seq(Ks)
    PROVE  /\ ToSet(s) = {s[i] : i \in 1 .. Len(s)}
           /\ ToSet(s) \subseteq Ks
           /\ IsFiniteSet(ToSet(s))
<1>1. Len(s) \in Nat /\ DOMAIN s = 1 .. Len(s) /\ \A i \in 1 .. Len(s) : s[i] \in Ks
  BY LenProperties
<1>2. ToSet(s) = {s[i] : i \in 1 .. Len(s)}
  BY <1>1 DEF ToSet
<1>3. IsFiniteSet({s[i] : i \in 1 .. Len(s)})
  <2> DEFINE f == [i \in 1 .. Len(s) |-> s[i]]
             T == {s[i] : i \in 1 .. Len(s)}
  <2>1. f \in Surjection(1 .. Len(s), T)
    BY DEF Surjection
  <2>2. IsFiniteSet(1 .. Len(s))
    BY <1>1, FS_Interval
  <2> HIDE DEF f, T
  <2>3. IsFiniteSet(T)
    BY <2>1, <2>2, FS_Surjection
  <2> QED
    BY <2>3 DEF T
<1> QED
  BY <1>1, <1>2, <1>3

(* A set of numbers that is not empty has a least one.                       *)
LEMMA LeastNumber ==
    ASSUME NEW T, T \subseteq Nat, T # {}
    PROVE  \E x \in T : \A y \in T : x <= y
<1> DEFINE R == OpToRel(<, Nat)
<1>1. \E x \in T : \A y \in T : ~(<<y, x>> \in R)
  BY NatLessThanWellFounded, WFMin
<1>2. \A x, y \in Nat : <<y, x>> \in R <=> y < x
  BY DEF OpToRel
<1> HIDE DEF R
<1>3. PICK x \in T : \A y \in T : ~(<<y, x>> \in R)
  BY <1>1
<1>4. ASSUME NEW y \in T PROVE x <= y
  <2>1. x \in Nat /\ y \in Nat /\ ~(y < x)
    BY <1>2, <1>3
  <2> QED
    BY <2>1
<1> QED
  BY <1>4

(* The first m entries of a list.                                            *)
First(s, m) == {s[i] : i \in 1 .. m}

(* As many entries as a list without repetitions begins with, so many are    *)
(* they as a set.                                                            *)
LEMMA PrefixFacts ==
    ASSUME NEW K, NEW n \in Nat, NEW s \in [1 .. n -> K],
           \A i, j \in 1 .. n : i # j => s[i] # s[j],
           NEW m \in Nat, m <= n
    PROVE  IsFiniteSet(First(s, m)) /\ Cardinality(First(s, m)) = m
<1> DEFINE f == [i \in 1 .. m |-> s[i]]
           P == {s[i] : i \in 1 .. m}
<1>1. f \in Bijection(1 .. m, P)
  <2>1. f \in [1 .. m -> P]
    OBVIOUS
  <2>2. ASSUME NEW a \in 1 .. m, NEW b \in 1 .. m, f[a] = f[b] PROVE a = b
    <3>1. a \in 1 .. n /\ b \in 1 .. n /\ s[a] = s[b]
      BY <2>2
    <3> QED
      BY <3>1
  <2>3. \A x \in P : \E a \in 1 .. m : f[a] = x
    OBVIOUS
  <2> QED
    BY <2>1, <2>2, <2>3 DEF Bijection, Injection, Surjection, IsInjective
<1>2. IsFiniteSet(1 .. m) /\ Cardinality(1 .. m) = m
  <2>1. /\ IsFiniteSet(1 .. m)
        /\ Cardinality(1 .. m) = IF 1 > m THEN 0 ELSE m - 1 + 1
    BY FS_Interval
  <2> QED
    BY <2>1
<1>3. ExistsBijection(1 .. m, P)
  BY <1>1 DEF ExistsBijection
<1> HIDE DEF P
<1>4. IsFiniteSet(P) /\ Cardinality(P) = m
  BY <1>2, <1>3, FS_Bijection
<1> QED
  BY <1>4 DEF P, First

-----------------------------------------------------------------------------
(***************************************************************************)
(* The order of the rows.                                                  *)
(***************************************************************************)

NumRows == Cardinality(DOMAIN created)

(* How many rows are newer than a row, or not older, is a number.            *)
LEMMA CountFacts ==
    ASSUME ListingTypeOK
    PROVE  /\ NumRows \in Nat
           /\ \A k \in DOMAIN created :
                /\ created[k] \in Int
                /\ IsFiniteSet(Newer(k)) /\ Cardinality(Newer(k)) \in Nat
                /\ IsFiniteSet(NotOlder(k)) /\ Cardinality(NotOlder(k)) \in Nat
<1>1. IsFiniteSet(DOMAIN created) /\ \A k \in DOMAIN created : created[k] \in Int
  BY TimesAssumption DEF ListingTypeOK
<1>2. NumRows \in Nat
  BY <1>1, FS_CardinalityType DEF NumRows
<1>3. ASSUME NEW k \in DOMAIN created
      PROVE  /\ IsFiniteSet(Newer(k)) /\ Cardinality(Newer(k)) \in Nat
             /\ IsFiniteSet(NotOlder(k)) /\ Cardinality(NotOlder(k)) \in Nat
  <2>1. Newer(k) \in SUBSET DOMAIN created /\ NotOlder(k) \in SUBSET DOMAIN created
    BY DEF Newer, NotOlder
  <2>2. IsFiniteSet(Newer(k)) /\ IsFiniteSet(NotOlder(k))
    BY <1>1, <2>1, FS_Subset
  <2> QED
    BY <2>2, FS_CardinalityType
<1> QED
  BY <1>1, <1>2, <1>3

(* However a SELECT orders the rows, each has its place: the rows before it  *)
(* are not older, and all that are newer are before it.                      *)
LEMMA OrderFacts ==
    ASSUME ListingTypeOK, NEW s \in NewestFirst
    PROVE  /\ s \in Seq(DOMAIN created) /\ Len(s) = NumRows
           /\ \A k \in DOMAIN created : \E p \in 1 .. NumRows :
                /\ s[p] = k
                /\ Cardinality(Newer(k)) < p
                /\ p <= Cardinality(NotOlder(k))
<1> DEFINE K == DOMAIN created
           n == NumRows
<1>1. n \in Nat /\ IsFiniteSet(K) /\ \A k \in K : created[k] \in Int
  BY CountFacts DEF ListingTypeOK
<1>2. /\ s \in [1 .. n -> K]
      /\ \A i, j \in 1 .. n : i # j => s[i] # s[j]
      /\ \A i, j \in 1 .. n : i < j => created[s[i]] >= created[s[j]]
  <2>1. /\ s \in [1 .. n -> K]
        /\ \A i, j \in 1 .. n : i # j => s[i] # s[j]
        /\ \A i, j \in DOMAIN s : i < j => created[s[i]] >= created[s[j]]
    BY DEF NewestFirst, SetToSeqs, NumRows
  <2> QED
    BY <2>1
<1>3. s \in Seq(K) /\ Len(s) = n
  BY <1>1, <1>2, LenProperties
<1>4. \A k \in K : \E p \in 1 .. n : s[p] = k
  <2>1. s \in Injection(1 .. n, K)
    BY <1>2 DEF Injection, IsInjective
  <2>2. Cardinality(1 .. n) = Cardinality(K)
    <3>1. Cardinality(1 .. n) = IF 1 > n THEN 0 ELSE n - 1 + 1
      BY <1>1, FS_Interval
    <3> QED
      BY <1>1, <3>1 DEF NumRows
  <2> HIDE DEF K, n
  <2>3. s \in Surjection(1 .. n, K)
    BY <1>1, <2>1, <2>2, FS_Injection
  <2> QED
    BY <2>3 DEF Surjection
<1>5. ASSUME NEW k \in K, NEW p \in 1 .. n, s[p] = k
      PROVE  Cardinality(Newer(k)) < p /\ p <= Cardinality(NotOlder(k))
  <2> DEFINE front == First(s, p - 1)
             upTo == First(s, p)
  <2>1. IsFiniteSet(front) /\ Cardinality(front) = p - 1
    <3>1. p - 1 \in Nat /\ p - 1 <= n
      BY <1>1
    <3> HIDE DEF K, n
    <3> QED
      BY <1>1, <1>2, <3>1, PrefixFacts
  <2>2. IsFiniteSet(upTo) /\ Cardinality(upTo) = p
    <3>1. p \in Nat /\ p <= n
      BY <1>1
    <3> HIDE DEF K, n
    <3> QED
      BY <1>1, <1>2, <3>1, PrefixFacts
  <2>3. Newer(k) \subseteq front
    <3> SUFFICES ASSUME NEW j \in Newer(k) PROVE j \in front
      OBVIOUS
    <3> USE DEF First
    <3>1. j \in K /\ created[j] > created[k] /\ created[j] \in Int /\ created[k] \in Int
      BY <1>1 DEF Newer
    <3>2. PICK q \in 1 .. n : s[q] = j
      BY <1>4, <3>1
    <3>3. ~(p < q) /\ p # q
      BY <1>2, <1>5, <3>1, <3>2
    <3>4. q \in 1 .. p - 1
      BY <1>1, <3>3
    <3> QED
      BY <3>2, <3>4
  <2>4. upTo \subseteq NotOlder(k)
    <3> SUFFICES ASSUME NEW i \in 1 .. p PROVE s[i] \in NotOlder(k)
      BY DEF First
    <3>1. i \in 1 .. n /\ (i < p \/ i = p)
      BY <1>1
    <3>2. s[i] \in K /\ created[s[i]] \in Int
      BY <1>1, <1>2, <3>1
    <3>3. created[s[i]] >= created[k]
      BY <1>2, <1>5, <3>1, <3>2
    <3> QED
      BY <3>2, <3>3 DEF NotOlder
  <2> HIDE DEF front, upTo, K, n
  <2>5. Cardinality(Newer(k)) <= p - 1
    <3>1. Newer(k) \in SUBSET front
      BY <2>3
    <3>2. Cardinality(Newer(k)) <= Cardinality(front)
      BY <2>1, <3>1, FS_Subset
    <3> QED
      BY <2>1, <3>2
  <2>6. /\ IsFiniteSet(NotOlder(k)) /\ Cardinality(NotOlder(k)) \in Nat
        /\ Cardinality(Newer(k)) \in Nat
    BY CountFacts DEF K
  <2>7. p <= Cardinality(NotOlder(k))
    <3>1. upTo \in SUBSET NotOlder(k)
      BY <2>4
    <3>2. Cardinality(upTo) <= Cardinality(NotOlder(k))
      BY <2>6, <3>1, FS_Subset
    <3> QED
      BY <2>2, <3>2
  <2> QED
    BY <1>1, <2>5, <2>6, <2>7
<1> QED
  BY <1>3, <1>4, <1>5

(* The rows with fewer newer ones than the client has received.              *)
InFront == {k \in DOMAIN created : Cardinality(Newer(k)) < Len(got)}

(* They are as many as have been received, or more: were they fewer, the     *)
(* newest of the other rows would be one of them.                            *)
LEMMA InFrontFacts ==
    ASSUME ListingTypeOK, Len(got) <= NumRows
    PROVE  IsFiniteSet(InFront) /\ Len(got) <= Cardinality(InFront)
<1> DEFINE K == DOMAIN created
           rest == K \ InFront
           count(k) == Cardinality(Newer(k))
<1>1. /\ IsFiniteSet(K) /\ NumRows \in Nat /\ Len(got) \in Nat
      /\ \A k \in K : created[k] \in Int /\ IsFiniteSet(Newer(k)) /\ count(k) \in Nat
  BY CountFacts, LenProperties DEF ListingTypeOK
<1>2. IsFiniteSet(InFront) /\ Cardinality(InFront) \in Nat
  <2>1. InFront \in SUBSET K
    BY DEF InFront
  <2>2. IsFiniteSet(InFront)
    BY <1>1, <2>1, FS_Subset
  <2> QED
    BY <2>2, FS_CardinalityType
<1>3. ASSUME Cardinality(InFront) < Len(got) PROVE FALSE
  <2>1. rest # {}
    <3>1. rest = {} => InFront = K
      BY DEF InFront
    <3> QED
      BY <1>1, <1>2, <1>3, <3>1 DEF NumRows
  <2>2. PICK k \in rest : \A j \in rest : count(k) <= count(j)
    <3> DEFINE counts == {count(j) : j \in rest}
    <3>1. counts \subseteq Nat /\ counts # {}
      BY <1>1, <2>1
    <3>2. PICK c \in counts : \A d \in counts : c <= d
      <4> HIDE DEF counts
      <4> QED
        BY <3>1, LeastNumber
    <3> QED
      BY <3>2
  <2>3. Newer(k) \subseteq InFront
    <3> SUFFICES ASSUME NEW j \in Newer(k), j \notin InFront PROVE FALSE
      OBVIOUS
    <3>1. j \in rest /\ k \in K /\ j \in K /\ created[j] > created[k]
      BY DEF Newer
    <3>2. Newer(j) \in SUBSET Newer(k)
      <4> SUFFICES ASSUME NEW i \in Newer(j) PROVE i \in Newer(k)
        OBVIOUS
      <4>1. /\ i \in K /\ created[i] > created[j]
            /\ created[i] \in Int /\ created[j] \in Int /\ created[k] \in Int
        BY <1>1, <3>1 DEF Newer
      <4> QED
        BY <3>1, <4>1 DEF Newer
    <3>3. Newer(j) # Newer(k)
      <4>1. j \notin Newer(j)
        <5>1. created[j] \in Int /\ ~(created[j] > created[j])
          BY <1>1, <3>1
        <5> QED
          BY <5>1 DEF Newer
      <4> QED
        BY <4>1
    <3>4. /\ Cardinality(Newer(j)) <= Cardinality(Newer(k))
          /\ Cardinality(Newer(k)) = Cardinality(Newer(j)) => Newer(k) = Newer(j)
      BY <1>1, <3>1, <3>2, FS_Subset
    <3>5. count(k) <= count(j) /\ count(k) \in Nat /\ count(j) \in Nat
      BY <1>1, <2>2, <3>1
    <3> QED
      BY <3>3, <3>4, <3>5
  <2>4. count(k) <= Cardinality(InFront)
    <3>1. Newer(k) \in SUBSET InFront
      BY <2>3
    <3> QED
      BY <1>2, <3>1, FS_Subset
  <2>5. count(k) >= Len(got)
    BY <1>1 DEF InFront
  <2> QED
    BY <1>1, <1>2, <1>3, <2>4, <2>5
<1> QED
  BY <1>1, <1>2, <1>3

-----------------------------------------------------------------------------
(***************************************************************************)
(* The inductive invariant.                                                *)
(***************************************************************************)

(* A row that is stored takes no row away, and only adds to what is newer    *)
(* than a row.                                                               *)
LEMMA StoredKeeps ==
    ASSUME NEW k, ListingInv, Stored(k)
    PROVE  ListingInv'
<1>1. walk' = walk /\ got' = got /\ atStart' = atStart /\ split' = split
  BY DEF Stored, walkVars
<1>2. CASE k \in DOMAIN created
  <2>1. created' = created
    BY <1>2 DEF Stored, Stamp
  <2> QED
    BY <1>1, <2>1 DEF ListingInv, ListingTypeOK, Unread, Newer
<1>3. CASE k \notin DOMAIN created
  <2>1. PICK t \in Times :
            created' = [j \in DOMAIN created \cup {k} |-> IF j = k THEN t ELSE created[j]]
    BY <1>3 DEF Stored, Stamp
  <2>2. /\ DOMAIN created' = DOMAIN created \cup {k}
        /\ created'[k] = t
        /\ \A j \in DOMAIN created : created'[j] = created[j]
    BY <1>3, <2>1
  <2>3. ListingTypeOK
    BY DEF ListingInv
  <2>4. /\ IsFiniteSet(DOMAIN created')
        /\ NumRows \in Nat /\ Cardinality(DOMAIN created') = NumRows + 1
    BY <1>3, <2>2, <2>3, CountFacts, FS_AddElement DEF ListingTypeOK, NumRows
  <2>5. got \in Seq(DOMAIN created') /\ Len(got) \in Nat
    <3>1. got \in Seq(DOMAIN created)
      BY <2>3 DEF ListingTypeOK
    <3>2. /\ Len(got) \in Nat /\ got \in [1 .. Len(got) -> DOMAIN created]
      BY <3>1, LenProperties
    <3>3. got \in [1 .. Len(got) -> DOMAIN created']
      BY <2>2, <3>2
    <3> QED
      BY <3>2, <3>3
  <2>6. ListingTypeOK'
    BY <1>1, <2>2, <2>3, <2>4, <2>5 DEF ListingTypeOK
  <2>7. ASSUME NEW j \in DOMAIN created
        PROVE  Cardinality(Newer(j)) <= Cardinality(Newer(j)')
    <3>1. Newer(j) \in SUBSET Newer(j)'
      BY <2>2 DEF Newer
    <3>2. IsFiniteSet(Newer(j)')
      <4>1. Newer(j)' \in SUBSET DOMAIN created'
        BY DEF Newer
      <4> QED
        BY <2>4, <4>1, FS_Subset
    <3> QED
      BY <3>1, <3>2, FS_Subset
  <2>8. Unread \subseteq Unread'
    <3> SUFFICES ASSUME NEW j \in Unread PROVE j \in Unread'
      OBVIOUS
    <3>1. /\ j \in DOMAIN created /\ walk # "done"
          /\ Cardinality(Newer(j)) >= Len(got)
          /\ Cardinality(Newer(j)) \in Nat
      BY <2>3, CountFacts DEF Unread
    <3>2. /\ IsFiniteSet(Newer(j)') /\ Cardinality(Newer(j)') \in Nat
      <4>1. Newer(j)' \in SUBSET DOMAIN created'
        BY DEF Newer
      <4>2. IsFiniteSet(Newer(j)')
        BY <2>4, <4>1, FS_Subset
      <4> QED
        BY <4>2, FS_CardinalityType
    <3>3. Cardinality(Newer(j)') >= Len(got)
      BY <2>5, <2>7, <3>1, <3>2
    <3> QED
      BY <1>1, <2>2, <3>1, <3>3 DEF Unread
  <2>9. Len(got) <= Cardinality(DOMAIN created')
    BY <2>4, <2>5 DEF ListingInv, NumRows
  <2> QED
    BY <1>1, <2>6, <2>8, <2>9 DEF ListingInv
<1> QED
  BY <1>2, <1>3

(* At the beginning of the walk everything is unread.                        *)
LEMMA BeginKeeps ==
    ASSUME ListingInv, Begin
    PROVE  ListingInv'
<1>1. /\ created' = created /\ got' = got /\ got = <<>> /\ walk' = "walking"
      /\ atStart' = DOMAIN created /\ split' = split
  BY DEF Begin, ListingInv
<1>2. ListingTypeOK /\ Len(got) = 0
  BY <1>1 DEF ListingInv
<1>3. DOMAIN created \subseteq Unread'
  <2> SUFFICES ASSUME NEW k \in DOMAIN created PROVE k \in Unread'
    OBVIOUS
  <2>1. Newer(k)' = Newer(k)
    BY <1>1 DEF Newer
  <2>2. Cardinality(Newer(k)) >= Len(got)
    BY <1>2, CountFacts
  <2> QED
    BY <1>1, <2>1, <2>2 DEF Unread
<1> QED
  BY <1>1, <1>2, <1>3 DEF ListingInv, ListingTypeOK

(* A page moves its rows from what is unread to what has been received; the  *)
(* rest has as many newer rows as the client has now received, unless the    *)
(* page ended among rows of one created_at; a short page leaves no rest.     *)
LEMMA NextPageKeeps ==
    ASSUME ListingInv, NextPage
    PROVE  ListingInv'
<1> DEFINE n == Len(got)
           e == IF n + Limit < NumRows THEN n + Limit ELSE NumRows
<1>1. ListingTypeOK /\ Len(got) <= NumRows
  BY DEF ListingInv, NumRows
<1>2. /\ n \in Nat /\ NumRows \in Nat /\ n <= NumRows /\ Limit \in Nat \ {0}
      /\ got \in Seq(DOMAIN created)
  BY <1>1, CountFacts, LenProperties, LimitAssumption DEF ListingTypeOK
<1>3. e \in Nat /\ n <= e /\ e <= NumRows /\ (e < NumRows => e = n + Limit)
  BY <1>2
<1>4. PICK s \in NewestFirst :
        LET page == Cut(s, Limit, n)
        IN  /\ got' = got \o page
            /\ walk' = IF Len(page) < Limit THEN "done" ELSE "walking"
  BY DEF NextPage, ListTransactions
<1>5. /\ s \in Seq(DOMAIN created) /\ Len(s) = NumRows
      /\ \A k \in DOMAIN created : \E p \in 1 .. NumRows :
            /\ s[p] = k
            /\ Cardinality(Newer(k)) < p
            /\ p <= Cardinality(NotOlder(k))
  BY <1>1, OrderFacts
<1> DEFINE page == SubSeq(s, n + 1, e)
<1>6. /\ got' = got \o page
      /\ walk' = IF Len(page) < Limit THEN "done" ELSE "walking"
  BY <1>4, <1>5 DEF Cut
<1>7. /\ created' = created /\ atStart' = atStart /\ walk = "walking"
      /\ split' = split \cup {k \in DOMAIN created \ ToSet(got') : SplitAt(k, Len(got'))}
  BY DEF NextPage
<1> HIDE DEF e, n
<1>8. /\ page \in Seq(DOMAIN created) /\ Len(page) = e - n
      /\ \A i \in 1 .. e - n : page[i] = s[n + i]
  <2>1. s \in Seq(DOMAIN created) /\ n \in Nat /\ e \in Nat /\ n <= e /\ e <= Len(s)
    BY <1>2, <1>3, <1>5
  <2> HIDE DEF page
  <2>2. page = SubSeq(s, n + 1, e)
    BY DEF page
  <2>3. /\ SubSeq(s, n + 1, e) \in Seq(DOMAIN created) /\ Len(SubSeq(s, n + 1, e)) = e - n
        /\ \A i \in 1 .. e - n : SubSeq(s, n + 1, e)[i] = s[n + i]
    BY <2>1, PageFacts, Zenon
  <2> QED
    BY <2>2, <2>3
<1> HIDE DEF page
<1>9. /\ got' \in Seq(DOMAIN created) /\ Len(got') = e
      /\ \A i \in 1 .. n : got'[i] = got[i]
      /\ \A i \in 1 .. e - n : got'[n + i] = s[n + i]
  <2>1. /\ got \o page \in Seq(DOMAIN created) /\ Len(got \o page) = n + Len(page)
        /\ \A i \in 1 .. n : (got \o page)[i] = got[i]
        /\ \A i \in 1 .. Len(page) : (got \o page)[n + i] = page[i]
    <3>1. got \in Seq(DOMAIN created) /\ page \in Seq(DOMAIN created)
      BY <1>2, <1>8
    <3> QED
      BY <3>1, ConcatFacts DEF n
  <2>2. Len(page) = e - n /\ n + (e - n) = e /\ got' = got \o page
    BY <1>2, <1>3, <1>6, <1>8
  <2>3. got' \in Seq(DOMAIN created) /\ Len(got') = e
    BY <2>1, <2>2
  <2>4. \A i \in 1 .. n : got'[i] = got[i]
    BY <2>1, <2>2
  <2>5. \A i \in 1 .. e - n : got'[n + i] = s[n + i]
    <3>1. ASSUME NEW i \in 1 .. e - n
          PROVE  (got \o page)[n + i] = page[i] /\ page[i] = s[n + i]
      BY <1>8, <2>1, <2>2
    <3> QED
      BY <2>2, <3>1
  <2> QED
    BY <2>3, <2>4, <2>5
<1>10. /\ ToSet(got') = {got'[i] : i \in 1 .. e}
       /\ ToSet(got) = {got[i] : i \in 1 .. n}
  BY <1>2, <1>9, ToSetFacts DEF n
<1>11. ToSet(got) \subseteq ToSet(got')
  <2> SUFFICES ASSUME NEW i \in 1 .. n PROVE got[i] \in ToSet(got')
    BY <1>10
  <2>1. i \in 1 .. e /\ got'[i] = got[i]
    BY <1>2, <1>3, <1>9
  <2> QED
    BY <1>10, <2>1
<1>12. ASSUME NEW p \in n + 1 .. e PROVE s[p] \in ToSet(got')
  <2>1. p - n \in 1 .. e - n /\ n + (p - n) = p /\ p \in 1 .. e
    BY <1>2, <1>3
  <2>2. got'[n + (p - n)] = s[n + (p - n)]
    BY <1>9, <2>1
  <2> QED
    BY <1>10, <2>1, <2>2
<1>13. Unread \subseteq ToSet(got') \cup split' \cup Unread'
  <2> SUFFICES ASSUME NEW k \in Unread, k \notin ToSet(got')
               PROVE  k \in split' \cup Unread'
    OBVIOUS
  <2>1. /\ k \in DOMAIN created /\ Cardinality(Newer(k)) >= n
        /\ Cardinality(Newer(k)) \in Nat /\ Cardinality(NotOlder(k)) \in Nat
    BY <1>1, CountFacts DEF Unread, n
  <2>2. PICK p \in 1 .. NumRows :
            s[p] = k /\ Cardinality(Newer(k)) < p /\ p <= Cardinality(NotOlder(k))
    BY <1>5, <2>1
  <2>3. p > e
    <3>1. p > n /\ p \in Nat
      BY <1>2, <2>1, <2>2
    <3>2. p \notin n + 1 .. e
      BY <1>12, <2>2
    <3> QED
      BY <1>2, <1>3, <3>1, <3>2
  <2>4. e = n + Limit /\ e < Cardinality(NotOlder(k))
    BY <1>2, <1>3, <2>1, <2>2, <2>3
  <2>5. walk' # "done"
    BY <1>2, <1>6, <1>8, <2>4
  <2>6. CASE Cardinality(Newer(k)) >= e
    <3>1. Newer(k)' = Newer(k)
      BY <1>7 DEF Newer
    <3> QED
      BY <1>7, <1>9, <2>1, <2>5, <2>6, <3>1 DEF Unread
  <2>7. CASE Cardinality(Newer(k)) < e
    BY <1>7, <1>9, <2>1, <2>4, <2>7 DEF SplitAt
  <2> QED
    BY <1>3, <2>1, <2>6, <2>7
<1>14. atStart' \subseteq ToSet(got') \cup split' \cup Unread'
  <2>1. atStart \subseteq ToSet(got) \cup split \cup Unread /\ split \subseteq split'
    BY <1>7 DEF ListingInv
  <2> QED
    BY <1>7, <1>11, <1>13, <2>1
<1>15. walk' \in {"walking", "done"} /\ split' \subseteq DOMAIN created
  BY <1>1, <1>6, <1>7 DEF ListingTypeOK
<1>16. ListingTypeOK'
  BY <1>1, <1>7, <1>9, <1>15 DEF ListingTypeOK
<1>17. Len(got') <= Cardinality(DOMAIN created')
  BY <1>3, <1>7, <1>9 DEF NumRows
<1> QED
  BY <1>14, <1>15, <1>16, <1>17 DEF ListingInv

(* The empty table.                                                          *)
LEMMA ListingInitially == ListingInit => ListingInv
<1> SUFFICES ASSUME ListingInit PROVE ListingInv
  OBVIOUS
<1>1. created = <<>> /\ got = <<>> /\ walk = "before" /\ atStart = {} /\ split = {}
  BY DEF ListingInit
<1>2. DOMAIN created = {} /\ Len(got) = 0 /\ got \in Seq({})
  BY <1>1
<1>3. IsFiniteSet(DOMAIN created) /\ Cardinality(DOMAIN created) = 0
  BY <1>2, FS_EmptySet
<1> QED
  BY <1>1, <1>2, <1>3 DEF ListingInv, ListingTypeOK

(* A step that leaves the listing alone.                                     *)
LEMMA ListingStutters == ListingInv /\ UNCHANGED listingVars => ListingInv'
BY DEF listingVars, walkVars, ListingInv, ListingTypeOK, Unread, Newer

(* The rows in front of the offset are as many as have been received, and    *)
(* those of them that have not been received are split or new.               *)
LEMMA NoneSkippedHolds == ListingInv => NoneSkipped
<1> SUFFICES ASSUME ListingInv PROVE NoneSkipped
  OBVIOUS
<1> DEFINE owed == ToSet(got) \cup split \cup Since
<1>1. ListingTypeOK /\ Len(got) <= NumRows
  BY DEF ListingInv, NumRows
<1>2. IsFiniteSet(DOMAIN created) /\ ToSet(got) \subseteq DOMAIN created /\ Len(got) \in Nat
  BY <1>1, ToSetFacts, LenProperties DEF ListingTypeOK
<1>3. IsFiniteSet(owed) /\ Cardinality(owed) \in Nat
  <2>1. owed \in SUBSET DOMAIN created
    BY <1>1, <1>2 DEF Since, ListingTypeOK
  <2>2. IsFiniteSet(owed)
    BY <1>2, <2>1, FS_Subset
  <2> QED
    BY <2>2, FS_CardinalityType
<1>4. InFront \subseteq owed
  <2> SUFFICES ASSUME NEW k \in InFront, k \in atStart PROVE k \in owed
    BY DEF InFront, Since
  <2>1. Cardinality(Newer(k)) < Len(got) /\ Cardinality(Newer(k)) \in Nat
    BY <1>1, CountFacts DEF InFront
  <2>2. k \notin Unread
    BY <1>2, <2>1 DEF Unread
  <2> QED
    BY <2>2 DEF ListingInv
<1>5. Len(got) <= Cardinality(owed)
  <2>1. IsFiniteSet(InFront) /\ Len(got) <= Cardinality(InFront)
    BY <1>1, InFrontFacts
  <2>2. Cardinality(InFront) \in Nat
    BY <2>1, FS_CardinalityType
  <2>3. Cardinality(InFront) <= Cardinality(owed)
    <3>1. InFront \in SUBSET owed
      BY <1>4
    <3> QED
      BY <1>3, <3>1, FS_Subset
  <2> QED
    BY <1>2, <1>3, <2>1, <2>2, <2>3
<1>6. walk = "done" => atStart \subseteq ToSet(got) \cup split
  BY DEF ListingInv, Unread
<1> QED
  BY <1>5, <1>6 DEF NoneSkipped
=============================================================================
