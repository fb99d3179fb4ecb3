---------------------------- MODULE PanelsProofs ----------------------------
(***************************************************************************)
(* What is proved of Panels for any payment requests, amounts and number   *)
(* of calls: a late answer is the answer to the last call; "Copied!" is    *)
(* said of what is on the panel; and what is under the box is what BOLT#11 *)
(* says of the text in it.  The last rests on the decoder, which is five   *)
(* loops and recursions:                                                   *)
(*   - MessageExact: the octets that five_bit_to_bytes shifts out are the  *)
(*     bits of the words, eight by eight, and what it refuses is no text;  *)
(*   - BigEndianExact: the expiry is the number the words spell, modulo    *)
(*     the width of a u64;                                                 *)
(*   - FieldStep, FoundAll: the loop over the tagged fields is at the      *)
(*     beginning of a field after each turn, whatever the fields hold, and *)
(*     stops where the data ends;                                          *)
(*   - AmountsExact: the amount, to the msat;                              *)
(*   - ExpiriesExact: the parts in which the expiry is worded;             *)
(* which DecodeExact brings together.  Inductions are on numbers, by the   *)
(* set of numbers for which a statement holds (NatSetInduction, UpTo).     *)
(***************************************************************************)
EXTENDS Panels, SequenceTheorems, WellFoundedInduction, TLAPS

-----------------------------------------------------------------------------
(***************************************************************************)
(* Calls and their answers.                                                 *)
(***************************************************************************)

(* The numbers of calls are numbers.                                       *)
CallsInv ==
    /\ sent \in Nat /\ made \in Nat
    /\ AnswersTheLast
    /\ CopiedIsShown

(* At the start no call is under way.                                       *)
LEMMA PanelsInit == Init => CallsInv
BY NoneAssumption DEF Init, CallsInv, AnswersTheLast, CopiedIsShown

(* The send panel: a payment starts when none is under way, and its number *)
(* is new.                                                                 *)
LEMMA SendKeeps ==
    ASSUME CallsInv,
           \/ \E text \in Texts \cup {Empty} : Input(text)
           \/ SubmitEmpty \/ Pay \/ PayAnswer
    PROVE  CallsInv'
<1> USE NoneAssumption DEF CallsInv, AnswersTheLast, CopiedIsShown, receiveVars
<1>1. ASSUME NEW text \in Texts \cup {Empty}, Input(text) PROVE CallsInv'
  BY <1>1 DEF Input
<1>2. CASE SubmitEmpty
  BY <1>2 DEF SubmitEmpty
<1>3. CASE Pay
  <2>1. paying = {} /\ paying' = {sent'} /\ sent' = sent + 1
    BY <1>3 DEF Pay
  <2>2. payLoading' <=> paying' # {}
    BY <1>3, <2>1, Zenon DEF Pay
  <2>3. result' = None /\ invoice' = None /\ copied' = FALSE
    BY <1>3 DEF Pay, ClearReceive
  <2>4. (createLoading' <=> creating' # {}) /\ creating' \subseteq {made'} /\ made' \in Nat
    BY <1>3 DEF Pay, ClearReceive
  <2> QED
    BY <2>1, <2>2, <2>3, <2>4
<1>4. ASSUME NEW n \in paying, PaySucceeds(n) \/ PayFails(n) PROVE CallsInv'
  <2>1. paying = {n} /\ n = sent /\ result = None
    BY <1>4
  <2>2. paying' = {} /\ payLoading' = FALSE /\ sent' = sent
    BY <1>4, <2>1 DEF PaySucceeds, PayFails
  <2>3. payLoading' <=> paying' # {}
    BY <2>2, Zenon
  <2>4. CASE PaySucceeds(n)
    BY <2>1, <2>2, <2>3, <2>4 DEF PaySucceeds
  <2>5. CASE PayFails(n)
    BY <2>1, <2>2, <2>3, <2>5 DEF PayFails
  <2> QED
    BY <1>4, <2>4, <2>5
<1> QED
  BY <1>1, <1>2, <1>3, <1>4 DEF PayAnswer

(* The receive panel likewise; an invoice is copied when it is there.      *)
LEMMA ReceiveKeeps ==
    ASSUME CallsInv,
           \/ \E amount \in Amounts : Type(amount)
           \/ CreateInvalid \/ Create \/ CreateAnswer \/ CopyInvoice
    PROVE  CallsInv'
<1> USE NoneAssumption DEF CallsInv, AnswersTheLast, CopiedIsShown, sendVars
<1>1. ASSUME NEW amount \in Amounts, Type(amount) PROVE CallsInv'
  BY <1>1 DEF Type
<1>2. CASE CreateInvalid
  BY <1>2 DEF CreateInvalid
<1>3. CASE Create
  <2>1. creating = {} /\ creating' = {made'} /\ made' = made + 1
    BY <1>3 DEF Create
  <2>2. createLoading' <=> creating' # {}
    BY <1>3, <2>1, Zenon DEF Create
  <2>3. result' = None /\ invoice' = None /\ copied' = FALSE
    BY <1>3 DEF Create, ClearSend
  <2>4. (payLoading' <=> paying' # {}) /\ paying' \subseteq {sent'} /\ sent' \in Nat
    BY <1>3 DEF Create, ClearSend
  <2> QED
    BY <2>1, <2>2, <2>3, <2>4
<1>4. ASSUME NEW n \in creating, CreateSucceeds(n) \/ CreateFails(n) PROVE CallsInv'
  <2>1. creating = {n} /\ n = made /\ invoice = None
    BY <1>4
  <2>2. creating' = {} /\ createLoading' = FALSE /\ made' = made
    BY <1>4, <2>1 DEF CreateSucceeds, CreateFails
  <2>3. createLoading' <=> creating' # {}
    BY <2>2, Zenon
  <2>4. CASE CreateSucceeds(n)
    BY <2>1, <2>2, <2>3, <2>4 DEF CreateSucceeds
  <2>5. CASE CreateFails(n)
    BY <2>1, <2>2, <2>3, <2>5 DEF CreateFails
  <2> QED
    BY <1>4, <2>4, <2>5
<1>5. CASE CopyInvoice
  BY <1>5 DEF CopyInvoice
<1> QED
  BY <1>1, <1>2, <1>3, <1>4, <1>5 DEF CreateAnswer

(* The numbers of the calls under way, and what is shown, hang together    *)
(* throughout.                                                             *)
THEOREM CallsInvariance == Spec => []CallsInv
<1>1. CallsInv /\ [Next]_vars => CallsInv'
  <2> SUFFICES ASSUME CallsInv, [Next]_vars PROVE CallsInv'
    OBVIOUS
  <2>1. CASE Next
    BY <2>1, SendKeeps, ReceiveKeeps DEF Next
  <2>2. CASE UNCHANGED vars
    BY <2>2 DEF vars, sendVars, receiveVars, CallsInv, AnswersTheLast, CopiedIsShown
  <2> QED
    BY <2>1, <2>2
<1> QED
  BY <1>1, PanelsInit, PTL DEF Spec

(* An answer that comes late is the answer to the last call of its panel,  *)
(* however often the panels clear each other meanwhile: the disabled       *)
(* button lets no second call start before (send_panel.rs:155).            *)
THEOREM LateAnswersHarmless == Spec => []AnswersTheLast
<1>1. CallsInv => AnswersTheLast
  BY DEF CallsInv
<1> QED
  BY <1>1, CallsInvariance, PTL

(* "Copied!" is said of the invoice on the panel.                          *)
THEOREM CopiedTrue == Spec => []CopiedIsShown
<1>1. CallsInv => CopiedIsShown
  BY DEF CallsInv
<1> QED
  BY <1>1, CallsInvariance, PTL

-----------------------------------------------------------------------------
(***************************************************************************)
(* The text in the box.                                                     *)
(***************************************************************************)

(* What is under the box comes from the text that is in it: the text that  *)
(* was decoded before leaves nothing, whether it is replaced, paid or      *)
(* cleared by the other panel (send_panel.rs:24-61).                       *)
PreviewFollows == preview = IF IsBlank(request) THEN None ELSE Decode(request)

(* Each step keeps that.                                                  *)
THEOREM PreviewOfRequest == Spec => []PreviewFollows
<1>1. Init => PreviewFollows
  BY DEF Init, PreviewFollows, IsBlank, Empty
<1>2. PreviewFollows /\ [Next]_vars => PreviewFollows'
  <2> SUFFICES ASSUME PreviewFollows, [Next]_vars PROVE PreviewFollows'
    OBVIOUS
  <2>1. ASSUME NEW text, Input(text) PROVE PreviewFollows'
    BY <2>1 DEF Input, PreviewFollows
  <2>2. CASE Pay \/ Create
    <3>1. request' = Empty /\ preview' = None
      BY <2>2 DEF Pay, Create, ClearSend
    <3> QED
      BY <3>1 DEF PreviewFollows, IsBlank, Empty
  <2>3. ASSUME NEW n, PaySucceeds(n) \/ PayFails(n) \/ CreateSucceeds(n) \/ CreateFails(n)
        PROVE  UNCHANGED <<request, preview>>
    BY <2>3 DEF PaySucceeds, PayFails, CreateSucceeds, CreateFails, sendVars
  <2>4. ASSUME NEW amount, Type(amount) PROVE UNCHANGED <<request, preview>>
    BY <2>4 DEF Type, sendVars
  <2>5. CASE SubmitEmpty \/ CreateInvalid \/ CopyInvoice \/ UNCHANGED vars
    BY <2>5 DEF SubmitEmpty, CreateInvalid, CopyInvoice, sendVars, vars, PreviewFollows
  <2>6. UNCHANGED <<request, preview>> => PreviewFollows'
    BY DEF PreviewFollows
  <2> QED
    BY <2>1, <2>2, <2>3, <2>4, <2>5, <2>6 DEF Next, PayAnswer, CreateAnswer
<1> QED
  BY <1>1, <1>2, PTL DEF Spec

-----------------------------------------------------------------------------
(***************************************************************************)
(* Induction and recursion on natural numbers.                              *)
(***************************************************************************)

(* A set of natural numbers has a least one.                               *)
LEMMA LeastNumber ==
    ASSUME NEW T, T \subseteq Nat, T # {}
    PROVE  \E x \in T : \A y \in T : x <= y
<1> DEFINE R == OpToRel(<, Nat)
<1>1. \E x \in T : \A y \in T : ~(<<y, x>> \in R)
  BY NatLessThanWellFounded, WFMin
<1>2. \A x, y \in Nat : <<y, x>> \in R <=> y < x
  BY DEF OpToRel
<1> HIDE DEF R
<1>3. PICK x \in T : \A y \in T : ~(<<y, x>> \in R)
  BY <1>1
<1>4. ASSUME NEW y \in T PROVE x <= y
  <2>1. x \in Nat /\ y \in Nat /\ ~(y < x)
    BY <1>2, <1>3
  <2> QED BY <2>1
<1> QED BY <1>4

(* What holds of zero and of the successor of each number it holds of,     *)
(* holds of all.                                                           *)
LEMMA NatSetInduction ==
    ASSUME NEW T, 0 \in T, \A n \in Nat : n \in T => n + 1 \in T
    PROVE  Nat \subseteq T
<1> SUFFICES ASSUME Nat \ T # {} PROVE FALSE
  OBVIOUS
<1>1. PICK x \in Nat \ T : \A y \in Nat \ T : x <= y
  BY LeastNumber
<1>2. x # 0 /\ x - 1 \in Nat
  BY <1>1
<1>3. x - 1 \in T
  BY <1>1, <1>2
<1> QED BY <1>1, <1>2, <1>3

(* A bounded set of numbers has a greatest one.                            *)
LEMMA GreatestNumber ==
    ASSUME NEW b \in Nat, NEW T, T \subseteq 0 .. b, T # {}
    PROVE  Max(T) \in T /\ \A y \in T : y <= Max(T)
<1> DEFINE U == {b - y : y \in T}
<1>1. PICK u \in U : \A v \in U : u <= v
  <2>1. \A y \in T : b - y \in Nat
    OBVIOUS
  <2>2. U \subseteq Nat /\ U # {}
    BY <2>1
  <2> QED BY <2>2, LeastNumber
<1>2. b - u \in T /\ \A y \in T : b - u >= y
  <2>1. PICK x \in T : u = b - x
    BY <1>1
  <2>2. ASSUME NEW y \in T PROVE x >= y
    <3>1. b - x <= b - y
      BY <1>1, <2>1
    <3>2. x \in Nat /\ y \in Nat
      OBVIOUS
    <3> QED BY <3>1, <3>2
  <2>3. b - u = x
    BY <2>1
  <2> QED BY <2>2, <2>3
<1>3. \E x \in T : \A y \in T : x >= y
  BY <1>2
<1>4. Max(T) \in T /\ \A y \in T : Max(T) >= y
  BY <1>3 DEF Max
<1> QED BY <1>4

(* A function is defined by what it is at each point in terms of the       *)
(* points of lower rank.                                                   *)
Determined(D, S, rank, F) ==
    \A x \in D : \A g, h \in [D -> S] :
        (\A y \in D : rank[y] < rank[x] => g[y] = h[y]) => F[<<x, g>>] = F[<<x, h>>]

Solvable(D, S, F) == \E f \in [D -> S] : \A x \in D : f[x] = F[<<x, f>>]

(* Such a function exists, by induction on the rank below which it is given.*)
LEMMA RecursionExists ==
    ASSUME NEW n \in Nat, NEW D, NEW S, S # {},
           NEW rank \in [D -> 0 .. n], NEW F \in [D \X [D -> S] -> S],
           Determined(D, S, rank, F)
    PROVE  Solvable(D, S, F)
<1> DEFINE Good(m) == \E g \in [D -> S] : \A x \in D : rank[x] < m => g[x] = F[<<x, g>>]
           T == {m \in Nat : Good(m)}
<1>1. 0 \in T
  <2>1. PICK s \in S : TRUE
    OBVIOUS
  <2>2. [x \in D |-> s] \in [D -> S] /\ \A x \in D : ~(rank[x] < 0)
    OBVIOUS
  <2> QED BY <2>2
<1>2. ASSUME NEW m \in Nat, m \in T PROVE m + 1 \in T
  <2>1. PICK g \in [D -> S] : \A x \in D : rank[x] < m => g[x] = F[<<x, g>>]
    BY <1>2
  <2> DEFINE h == [x \in D |-> IF rank[x] = m THEN F[<<x, g>>] ELSE g[x]]
  <2>2. h \in [D -> S]
    OBVIOUS
  <2>3. \A y \in D : rank[y] < m => g[y] = h[y]
    OBVIOUS
  <2>4. \A x \in D : rank[x] = m => h[x] = F[<<x, g>>]
    OBVIOUS
  <2> HIDE DEF h
  <2>5. ASSUME NEW x \in D, rank[x] < m + 1 PROVE h[x] = F[<<x, h>>]
    <3>1. rank[x] \in Nat /\ rank[x] <= m
      BY <2>5
    <3>2. \A y \in D : rank[y] < rank[x] => g[y] = h[y]
      BY <2>3, <3>1
    <3>3. F[<<x, g>>] = F[<<x, h>>]
      BY <2>2, <3>2 DEF Determined
    <3>4. h[x] = F[<<x, g>>]
      <4>1. CASE rank[x] = m
        BY <2>4, <4>1
      <4>2. CASE rank[x] < m
        BY <2>1, <2>3, <4>2
      <4>3. \A r \in Nat : r <= m => r = m \/ r < m
        OBVIOUS
      <4>4. rank[x] = m \/ rank[x] < m
        BY <3>1, <4>3
      <4> QED BY <4>1, <4>2, <4>4
    <3> QED BY <3>3, <3>4
  <2>6. Good(m + 1)
    BY <2>2, <2>5
  <2> QED BY <2>6
<1> HIDE DEF Good
<1>3. Nat \subseteq T
  BY <1>1, <1>2, NatSetInduction
<1>4. Good(n + 1)
  BY <1>3
<1>5. PICK f \in [D -> S] : \A x \in D : rank[x] < n + 1 => f[x] = F[<<x, f>>]
  BY <1>4 DEF Good
<1>6. \A x \in D : rank[x] < n + 1
  OBVIOUS
<1> QED BY <1>5, <1>6 DEF Solvable

(* A function of 0 .. n whose every value is got from the one before.      *)
Iterable(n, S, base, step) ==
    \E f \in [0 .. n -> S] : \A i \in 0 .. n : f[i] = IF i = 0 THEN base ELSE step[<<f[i - 1], i>>]

(* There is one, whatever the step is.                                      *)
LEMMA IterationExists ==
    ASSUME NEW n \in Nat, NEW S, NEW base \in S, NEW step \in [S \X (1 .. n) -> S]
    PROVE  Iterable(n, S, base, step)
<1> DEFINE D == 0 .. n
           rank == [i \in D |-> i]
           F == [p \in D \X [D -> S] |->
                    IF p[1] = 0 THEN base ELSE step[<<p[2][p[1] - 1], p[1]>>]]
<1>1. ASSUME NEW i \in D, NEW g \in [D -> S]
      PROVE  /\ F[<<i, g>>] = IF i = 0 THEN base ELSE step[<<g[i - 1], i>>]
             /\ F[<<i, g>>] \in S
  <2>1. F[<<i, g>>] = IF i = 0 THEN base ELSE step[<<g[i - 1], i>>]
    OBVIOUS
  <2>2. i # 0 => i - 1 \in D /\ i \in 1 .. n
    OBVIOUS
  <2>3. i # 0 => <<g[i - 1], i>> \in S \X (1 .. n)
    BY <2>2
  <2> HIDE DEF F
  <2> QED BY <2>1, <2>3
<1>2. rank \in [D -> 0 .. n] /\ S # {}
  OBVIOUS
<1>3. F \in [D \X [D -> S] -> S]
  <2>1. ASSUME NEW p \in D \X [D -> S] PROVE F[p] \in S
    <3>1. PICK i \in D, g \in [D -> S] : p = <<i, g>>
      OBVIOUS
    <3> HIDE DEF F
    <3> QED BY <1>1, <3>1
  <2>2. F = [p \in D \X [D -> S] |-> F[p]]
    OBVIOUS
  <2> HIDE DEF F
  <2> QED BY <2>1, <2>2
<1> HIDE DEF F
<1>4. ASSUME NEW i \in D, NEW g \in [D -> S], NEW h \in [D -> S],
             \A y \in D : rank[y] < rank[i] => g[y] = h[y]
      PROVE  F[<<i, g>>] = F[<<i, h>>]
  <2>1. i # 0 => i - 1 \in D /\ rank[i - 1] < rank[i]
    OBVIOUS
  <2>2. i # 0 => g[i - 1] = h[i - 1]
    BY <1>4, <2>1
  <2>3. F[<<i, g>>] = IF i = 0 THEN base ELSE step[<<g[i - 1], i>>]
    BY <1>1
  <2>4. F[<<i, h>>] = IF i = 0 THEN base ELSE step[<<h[i - 1], i>>]
    BY <1>1
  <2> HIDE DEF D, rank
  <2> QED BY <2>2, <2>3, <2>4
<1>5. Solvable(D, S, F)
  <2> HIDE DEF rank, D
  <2>1. Determined(D, S, rank, F)
    BY <1>4 DEF Determined
  <2> QED BY <1>2, <1>3, <2>1, RecursionExists
<1>6. PICK f \in [D -> S] : \A x \in D : f[x] = F[<<x, f>>]
  BY <1>5 DEF Solvable
<1>7. ASSUME NEW i \in 0 .. n PROVE f[i] = IF i = 0 THEN base ELSE step[<<f[i - 1], i>>]
  BY <1>1, <1>6
<1> QED BY <1>6, <1>7 DEF Iterable

(* Likewise for the numbers up to n.                                       *)
LEMMA UpTo ==
    ASSUME NEW n \in Nat, NEW T, 0 \in T, \A i \in 1 .. n : i - 1 \in T => i \in T
    PROVE  0 .. n \subseteq T
<1> DEFINE U == {i \in Nat : i <= n => i \in T}
<1>1. 0 \in U
  OBVIOUS
<1>2. ASSUME NEW i \in Nat, i \in U PROVE i + 1 \in U
  <2>1. i + 1 <= n => i + 1 \in 1 .. n /\ (i + 1) - 1 = i /\ i \in T
    BY <1>2
  <2>2. i + 1 <= n => i + 1 \in T
    BY <2>1
  <2> QED BY <2>2
<1> HIDE DEF U
<1>3. Nat \subseteq U
  BY <1>1, <1>2, NatSetInduction
<1> QED BY <1>3 DEF U

-----------------------------------------------------------------------------
(***************************************************************************)
(* The expiry: a number in words of five bits.                              *)
(***************************************************************************)

(* The words of a sequence are numbers below 32.                            *)
LEMMA WordsFacts ==
    ASSUME NEW words \in Seq(Word)
    PROVE  /\ Len(words) \in Nat /\ DOMAIN words = 1 .. Len(words)
           /\ \A k \in 1 .. Len(words) : words[k] \in Word /\ words[k] \in Nat /\ words[k] < 32
<1>1. Len(words) \in Nat /\ words \in [1 .. Len(words) -> Word] /\ DOMAIN words = 1 .. Len(words)
  BY LenProperties
<1>2. \A w \in Word : w \in Nat /\ w < 32
  BY DEF Word
<1>3. \A k \in 1 .. Len(words) : words[k] \in Word
  BY <1>1
<1> QED BY <1>1, <1>2, <1>3

(* Division with a rest.                                                   *)
LEMMA DivisionBy ==
    ASSUME NEW U \in Nat, U > 0, NEW x \in Nat
    PROVE  x = U * (x \div U) + (x % U) /\ x \div U \in Nat /\ x % U \in Nat /\ x % U < U
<1> DEFINE p == x \div U
           s == x % U
<1>1. x \in Nat
  OBVIOUS
<1>2. x = U * p + s /\ p \in Int /\ s \in Nat /\ s < U
  BY <1>1
<1> HIDE DEF p, s
<1>3. ASSUME p <= -1 PROVE FALSE
  <2>1. U * p <= U * (-1)
    BY <1>2, <1>3
  <2>2. U * (-1) = -U
    OBVIOUS
  <2>3. U * p \in Int
    BY <1>2
  <2> QED BY <1>1, <1>2, <2>1, <2>2, <2>3
<1>4. p \in Nat
  BY <1>2, <1>3
<1> QED BY <1>2, <1>4 DEF p, s

(* U * q + r and its division by U.                                        *)
LEMMA RestUnique ==
    ASSUME NEW U \in Nat, U > 0, NEW q \in Nat, NEW r \in Nat, r < U
    PROVE  (q * U + r) % U = r
<1> DEFINE x == q * U + r
           p == x \div U
           s == x % U
<1>1. x \in Nat
  OBVIOUS
<1>2. x = U * p + s /\ p \in Int /\ s \in Nat /\ s < U
  <2> HIDE DEF x
  <2> QED BY <1>1
<1>3. (q - p) * U = s - r
  <2>1. U * p = p * U /\ q * U \in Int /\ p * U \in Int
    <3> HIDE DEF p, x
    <3> QED BY <1>2
  <2>2. (q - p) * U = q * U - p * U
    <3> HIDE DEF p, x
    <3> QED BY <1>2
  <2> HIDE DEF p, s
  <2> QED BY <1>2, <2>1, <2>2
<1> HIDE DEF p, s, x
<1>4. CASE q - p >= 1
  <2>1. (q - p) * U >= U
    BY <1>2, <1>4
  <2> QED BY <1>2, <1>3, <2>1
<1>5. CASE q - p <= -1
  <2>1. (p - q) * U >= U
    BY <1>2, <1>5
  <2>2. (p - q) * U = -((q - p) * U)
    BY <1>2
  <2> QED BY <1>2, <1>3, <2>1, <2>2
<1>6. CASE q = p
  <2>1. (q - p) * U = 0
    BY <1>2, <1>6
  <2>2. s = r
    BY <1>2, <1>3, <2>1
  <2> QED BY <2>2 DEF s, x
<1> QED BY <1>2, <1>4, <1>5, <1>6

(* The worth of a place, as the recursion defines it.                       *)
LEMMA PlacesFacts ==
    ASSUME NEW n \in Nat
    PROVE  /\ Places(n) \in [0 .. n -> Nat]
           /\ \A k \in 0 .. n : Places(n)[k] = IF k = 0 THEN 1 ELSE 32 * Places(n)[k - 1]
<1> DEFINE step == [p \in Nat \X (1 .. n) |-> 32 * p[1]]
<1>1. step \in [Nat \X (1 .. n) -> Nat]
  OBVIOUS
<1>2. \A v \in Nat : \A k \in 1 .. n : step[<<v, k>>] = 32 * v
  OBVIOUS
<1> HIDE DEF step
<1>3. PICK f \in [0 .. n -> Nat] :
            \A k \in 0 .. n : f[k] = IF k = 0 THEN 1 ELSE step[<<f[k - 1], k>>]
  <2>1. Iterable(n, Nat, 1, step)
    BY <1>1, IterationExists
  <2> QED BY <2>1 DEF Iterable
<1>4. ASSUME NEW k \in 0 .. n PROVE f[k] = IF k = 0 THEN 1 ELSE 32 * f[k - 1]
  <2>1. CASE k = 0
    BY <1>3, <2>1
  <2>2. CASE k # 0
    <3>1. k - 1 \in 0 .. n /\ k \in 1 .. n
      BY <2>2
    <3>2. f[k - 1] \in Nat
      BY <3>1
    <3> QED BY <1>2, <1>3, <2>2, <3>1, <3>2
  <2> QED BY <2>1, <2>2
<1>5. f = [k \in 0 .. n |-> IF k = 0 THEN 1 ELSE 32 * f[k - 1]]
  BY <1>4
<1>6. Places(n) = [k \in 0 .. n |-> IF k = 0 THEN 1 ELSE 32 * Places(n)[k - 1]]
  BY <1>5 DEF Places
<1>7. /\ DOMAIN Places(n) = 0 .. n
      /\ \A k \in 0 .. n : Places(n)[k] = IF k = 0 THEN 1 ELSE 32 * Places(n)[k - 1]
  BY <1>6
<1>8. \A k \in 0 .. n : Places(n)[k] \in Nat
  <2> DEFINE T == {k \in 0 .. n : Places(n)[k] \in Nat}
  <2>1. 0 \in T
    BY <1>7
  <2>2. ASSUME NEW k \in 1 .. n, k - 1 \in T PROVE k \in T
    BY <1>7, <2>2
  <2> HIDE DEF T
  <2>3. 0 .. n \subseteq T
    BY <2>1, <2>2, UpTo
  <2> QED BY <2>3 DEF T
<1> QED BY <1>6, <1>7, <1>8

(* The sums over the first words, as the recursion defines them.            *)
LEMMA SumsFacts ==
    ASSUME NEW words \in Seq(Word)
    PROVE  LET n == Len(words)
           IN  /\ Sums(words) \in [0 .. n -> Nat]
               /\ \A k \in 0 .. n : Sums(words)[k] =
                    IF k = 0 THEN 0 ELSE Sums(words)[k - 1] + words[k] * Places(n)[n - k]
<1> DEFINE n == Len(words)
           term == [k \in 1 .. n |-> words[k] * Places(n)[n - k]]
           step == [p \in Nat \X (1 .. n) |-> p[1] + term[p[2]]]
<1>1. n \in Nat /\ \A k \in 1 .. n : words[k] \in Nat /\ n - k \in 0 .. n
  <2>1. n \in Nat /\ \A k \in 1 .. n : words[k] \in Nat
    BY WordsFacts
  <2> HIDE DEF n
  <2> QED BY <2>1
<1> HIDE DEF n
<1>2. \A k \in 1 .. n : Places(n)[n - k] \in Nat
  BY <1>1, PlacesFacts
<1>3. \A k \in 1 .. n : term[k] = words[k] * Places(n)[n - k] /\ term[k] \in Nat
  BY <1>1, <1>2
<1> HIDE DEF term
<1>4. step \in [Nat \X (1 .. n) -> Nat]
  BY <1>3
<1>5. \A v \in Nat : \A k \in 1 .. n : step[<<v, k>>] = v + term[k]
  OBVIOUS
<1> HIDE DEF step
<1>6. PICK f \in [0 .. n -> Nat] :
            \A k \in 0 .. n : f[k] = IF k = 0 THEN 0 ELSE step[<<f[k - 1], k>>]
  <2>1. Iterable(n, Nat, 0, step)
    BY <1>1, <1>4, IterationExists
  <2> QED BY <2>1 DEF Iterable
<1>7. ASSUME NEW k \in 0 .. n PROVE f[k] = IF k = 0 THEN 0 ELSE f[k - 1] + words[k] * Places(n)[n - k]
  <2>1. CASE k = 0
    BY <1>6, <2>1
  <2>2. CASE k # 0
    <3>1. k - 1 \in 0 .. n /\ k \in 1 .. n
      BY <1>1, <2>2
    <3>2. f[k] = f[k - 1] + term[k]
      BY <1>5, <1>6, <2>2, <3>1
    <3> QED BY <1>3, <2>2, <3>1, <3>2
  <2> QED BY <2>1, <2>2
<1>8. f = [k \in 0 .. n |-> IF k = 0 THEN 0 ELSE f[k - 1] + words[k] * Places(n)[n - k]]
  BY <1>7
<1>9. Sums(words) = [k \in 0 .. n |->
            IF k = 0 THEN 0 ELSE Sums(words)[k - 1] + words[k] * Places(n)[n - k]]
  BY <1>8 DEF Sums, n
<1>10. /\ DOMAIN Sums(words) = 0 .. n
       /\ \A k \in 0 .. n : Sums(words)[k] =
            IF k = 0 THEN 0 ELSE Sums(words)[k - 1] + words[k] * Places(n)[n - k]
  BY <1>9
<1>11. \A k \in 0 .. n : Sums(words)[k] \in Nat
  <2> DEFINE T == {k \in 0 .. n : Sums(words)[k] \in Nat}
  <2>1. 0 \in T
    BY <1>1, <1>10
  <2>2. ASSUME NEW k \in 1 .. n, k - 1 \in T PROVE k \in T
    <3>1. Sums(words)[k] = Sums(words)[k - 1] + term[k]
      BY <1>1, <1>3, <1>10
    <3> QED BY <1>1, <1>3, <2>2, <3>1
  <2> HIDE DEF T
  <2>3. 0 .. n \subseteq T
    BY <1>1, <2>1, <2>2, UpTo
  <2> QED BY <2>3 DEF T
<1> QED BY <1>9, <1>10, <1>11 DEF n

(* The value of an expiry after each turn of its loop                       *)
(* (components/functions.rs:261-264).                                       *)
LEMMA ValuesFacts ==
    ASSUME NEW words \in Seq(Word)
    PROVE  LET n == Len(words)
           IN  /\ Values(words) \in [0 .. n -> Nat]
               /\ \A k \in 0 .. n : Values(words)[k] =
                    IF k = 0 THEN 0 ELSE ((Values(words)[k - 1] * 32) % U64) + words[k]
<1> DEFINE n == Len(words)
           step == [p \in Nat \X (1 .. n) |-> ((p[1] * 32) % U64) + words[p[2]]]
<1>1. n \in Nat /\ \A k \in 1 .. n : words[k] \in Nat
  <2>1. n \in Nat /\ \A k \in 1 .. n : words[k] \in Nat
    BY WordsFacts
  <2> HIDE DEF n
  <2> QED BY <2>1
<1>2. \A v \in Nat : (v * 32) % U64 \in Nat
  BY U64Assumption
<1> HIDE DEF n
<1>4. step \in [Nat \X (1 .. n) -> Nat]
  BY <1>1, <1>2
<1>5. \A v \in Nat : \A k \in 1 .. n : step[<<v, k>>] = ((v * 32) % U64) + words[k]
  OBVIOUS
<1> HIDE DEF step
<1>6. PICK f \in [0 .. n -> Nat] :
            \A k \in 0 .. n : f[k] = IF k = 0 THEN 0 ELSE step[<<f[k - 1], k>>]
  <2>1. Iterable(n, Nat, 0, step)
    BY <1>1, <1>4, IterationExists
  <2> QED BY <2>1 DEF Iterable
<1>7. ASSUME NEW k \in 0 .. n PROVE f[k] = IF k = 0 THEN 0 ELSE ((f[k - 1] * 32) % U64) + words[k]
  <2>1. CASE k = 0
    BY <1>6, <2>1
  <2>2. CASE k # 0
    <3>1. k - 1 \in 0 .. n /\ k \in 1 .. n
      BY <1>1, <2>2
    <3>2. f[k - 1] \in Nat
      BY <3>1
    <3> QED BY <1>5, <1>6, <2>2, <3>1, <3>2
  <2> QED BY <2>1, <2>2
<1>8. f = [k \in 0 .. n |-> IF k = 0 THEN 0 ELSE ((f[k - 1] * 32) % U64) + words[k]]
  BY <1>7
<1>9. Values(words) = [k \in 0 .. n |->
            IF k = 0 THEN 0 ELSE ((Values(words)[k - 1] * 32) % U64) + words[k]]
  BY <1>8 DEF Values, n
<1>10. /\ DOMAIN Values(words) = 0 .. n
       /\ \A k \in 0 .. n : Values(words)[k] =
            IF k = 0 THEN 0 ELSE ((Values(words)[k - 1] * 32) % U64) + words[k]
  BY <1>9
<1>11. \A k \in 0 .. n : Values(words)[k] \in Nat
  <2> DEFINE T == {k \in 0 .. n : Values(words)[k] \in Nat}
  <2>1. 0 \in T
    BY <1>1, <1>10
  <2>2. ASSUME NEW k \in 1 .. n, k - 1 \in T PROVE k \in T
    <3>1. Values(words)[k] = ((Values(words)[k - 1] * 32) % U64) + words[k]
      BY <1>1, <1>10
    <3> QED BY <1>1, <1>2, <2>2, <3>1
  <2> HIDE DEF T
  <2>3. 0 .. n \subseteq T
    BY <1>1, <2>1, <2>2, UpTo
  <2> QED BY <2>3 DEF T
<1> QED BY <1>9, <1>10, <1>11 DEF n

(* A turn of the loop of decode_big_endian keeps the rest.                 *)
LEMMA HornerStep ==
    ASSUME NEW h \in Nat, NEW v \in Nat, v < U64, v = h % U64, NEW w \in Nat, w < 32
    PROVE  /\ ((v * 32) % U64) + w < U64
           /\ ((v * 32) % U64) + w = (32 * h + w) % U64
<1> DEFINE q == h \div U64
           r == (v * 32) % U64
           p == (v * 32) \div U64
<1>1. PICK c \in Nat : U64 = 32 * c /\ c > 1
  <2> DEFINE c == U64 \div 32
  <2>1. U64 = 32 * c + (U64 % 32) /\ c \in Nat
    BY U64Assumption, DivisionBy
  <2> HIDE DEF c
  <2>2. U64 = 32 * c /\ c > 1
    BY U64Assumption, <2>1
  <2> QED BY <2>1, <2>2
<1>2. h = U64 * q + v /\ q \in Nat
  BY U64Assumption, DivisionBy
<1>3. v * 32 = U64 * p + r /\ p \in Nat /\ r \in Nat /\ r < U64
  <2>1. v * 32 \in Nat
    OBVIOUS
  <2> QED BY <2>1, U64Assumption, DivisionBy
<1> HIDE DEF q, p, r
<1>4. r + w < U64
  <2>1. U64 * p = 32 * (c * p)
    BY <1>1, <1>3
  <2>2. c * p \in Nat
    BY <1>3
  <2> DEFINE cp == c * p
  <2>3. cp \in Nat /\ v * 32 = 32 * cp + r
    BY <1>3, <2>1, <2>2
  <2> HIDE DEF cp
  <2> QED BY <1>1, <1>3, <2>3
<1>5. 32 * h + w = (32 * q + p) * U64 + (r + w)
  <2>1. 32 * h = 32 * (U64 * q) + v * 32
    <3> DEFINE x == U64 * q
    <3>1. x \in Nat /\ h = x + v
      BY <1>2, U64Assumption
    <3> HIDE DEF x
    <3>2. 32 * h = 32 * x + v * 32
      BY <3>1
    <3> QED BY <3>2 DEF x
  <2>2. (32 * q + p) * U64 = 32 * (U64 * q) + U64 * p
    BY <1>2, <1>3, U64Assumption
  <2> DEFINE x == U64 * q
             y == U64 * p
  <2>3. x \in Nat /\ y \in Nat
    BY <1>2, <1>3, U64Assumption
  <2>4. 32 * h = 32 * x + v * 32 /\ v * 32 = y + r /\ (32 * q + p) * U64 = 32 * x + y
    BY <1>3, <2>1, <2>2
  <2> HIDE DEF x, y
  <2>5. r \in Nat
    BY <1>3
  <2> DEFINE z == (32 * q + p) * U64
  <2>6. z = 32 * x + y
    BY <2>4
  <2> HIDE DEF z
  <2>7. 32 * h + w = z + (r + w)
    BY <2>3, <2>4, <2>5, <2>6
  <2> QED BY <2>7 DEF z
<1>6. ((32 * q + p) * U64 + (r + w)) % U64 = r + w
  <2>1. 32 * q + p \in Nat /\ r + w \in Nat /\ U64 \in Nat /\ U64 > 0
    BY <1>2, <1>3, U64Assumption
  <2> QED BY <1>4, <2>1, RestUnique
<1> QED BY <1>4, <1>5, <1>6 DEF r

(* The sum over the first k words is what they say, so many places up; and *)
(* the value after k turns is what they say but for the overflow.          *)
LEMMA HornerPrefix ==
    ASSUME NEW words \in Seq(Word), NEW k \in 0 .. Len(words)
    PROVE  \E h \in Nat :
                /\ Sums(words)[k] = h * Places(Len(words))[Len(words) - k]
                /\ Values(words)[k] < U64 /\ Values(words)[k] = h % U64
<1> DEFINE n == Len(words)
           sum == Sums(words)
           value == Values(words)
           place == Places(n)
           Good(i) == \E h \in Nat : /\ sum[i] = h * place[n - i]
                                     /\ value[i] < U64 /\ value[i] = h % U64
           T == {i \in 0 .. n : Good(i)}
<1>1. n \in Nat /\ \A i \in 1 .. n : words[i] \in Nat /\ words[i] < 32
  <2>1. n \in Nat /\ \A i \in 1 .. n : words[i] \in Nat /\ words[i] < 32
    BY WordsFacts
  <2> QED BY <2>1
<1>2. /\ sum \in [0 .. n -> Nat]
      /\ \A i \in 0 .. n : sum[i] = IF i = 0 THEN 0 ELSE sum[i - 1] + words[i] * place[n - i]
  BY SumsFacts
<1>3. /\ value \in [0 .. n -> Nat]
      /\ \A i \in 0 .. n : value[i] = IF i = 0 THEN 0 ELSE ((value[i - 1] * 32) % U64) + words[i]
  BY ValuesFacts
<1> HIDE DEF n
<1>4. /\ place \in [0 .. n -> Nat]
      /\ \A i \in 0 .. n : place[i] = IF i = 0 THEN 1 ELSE 32 * place[i - 1]
  BY <1>1, PlacesFacts
<1> HIDE DEF sum, value, place
<1>5. 0 \in T
  <2>1. n - 0 \in 0 .. n /\ place[n - 0] \in Nat
    BY <1>1, <1>4
  <2>2. sum[0] = 0 * place[n - 0] /\ value[0] = 0
    BY <1>1, <1>2, <1>3, <2>1
  <2>3. 0 < U64 /\ 0 = 0 % U64
    BY U64Assumption
  <2> QED BY <1>1, <2>2, <2>3
<1>6. ASSUME NEW i \in 1 .. n, i - 1 \in T PROVE i \in T
  <2>1. i - 1 \in 0 .. n /\ i \in 0 .. n /\ i # 0 /\ n - i \in 0 .. n /\ n - (i - 1) \in 0 .. n
    BY <1>1
  <2>2. PICK h \in Nat : /\ sum[i - 1] = h * place[n - (i - 1)]
                         /\ value[i - 1] < U64 /\ value[i - 1] = h % U64
    BY <1>6
  <2>3. place[n - (i - 1)] = 32 * place[n - i] /\ place[n - i] \in Nat
    <3>1. n - (i - 1) # 0 /\ (n - (i - 1)) - 1 = n - i
      BY <1>1
    <3> QED BY <1>4, <2>1, <3>1
  <2>4. words[i] \in Nat /\ words[i] < 32 /\ value[i - 1] \in Nat
    BY <1>1, <1>3, <2>1
  <2>5. sum[i] = h * (32 * place[n - i]) + words[i] * place[n - i]
    BY <1>2, <2>1, <2>2, <2>3
  <2>6. sum[i] = (32 * h + words[i]) * place[n - i]
    BY <2>3, <2>4, <2>5
  <2>7. value[i] = ((value[i - 1] * 32) % U64) + words[i]
    BY <1>3, <2>1
  <2>8. value[i] < U64 /\ value[i] = (32 * h + words[i]) % U64
    BY <2>2, <2>4, <2>7, HornerStep
  <2>9. 32 * h + words[i] \in Nat
    BY <2>4
  <2> QED BY <2>1, <2>6, <2>8, <2>9
<1> HIDE DEF T
<1>7. 0 .. n \subseteq T
  BY <1>1, <1>5, <1>6, UpTo
<1> QED BY <1>7 DEF T, n, sum, value, place

(* The expiry is the number the words spell, but for what is lost above    *)
(* the width of a u64 (components/functions.rs:261-264).                   *)
THEOREM BigEndianExact ==
    ASSUME NEW words \in Seq(Word)
    PROVE  BigEndian(words) = Number(words) % U64 /\ BigEndian(words) \in Nat /\ BigEndian(words) < U64
<1> DEFINE n == Len(words)
<1>1. n \in Nat /\ n \in 0 .. n
  BY WordsFacts
<1>2. PICK h \in Nat : /\ Sums(words)[n] = h * Places(n)[n - n]
                       /\ Values(words)[n] < U64 /\ Values(words)[n] = h % U64
  BY <1>1, HornerPrefix
<1>3. Places(n)[n - n] = 1
  <2> HIDE DEF n
  <2>1. n - n = 0 /\ 0 \in 0 .. n
    BY <1>1
  <2> QED BY <1>1, <2>1, PlacesFacts
<1>4. Sums(words)[n] = h
  BY <1>2, <1>3
<1>5. h % U64 \in Nat
  BY U64Assumption
<1> QED BY <1>2, <1>4, <1>5 DEF BigEndian, Number

-----------------------------------------------------------------------------
(***************************************************************************)
(* The message: words of five bits turned into octets.                      *)
(***************************************************************************)

(* The powers of two.                                                       *)
LEMMA TwoToFacts ==
    /\ TwoTo[0] = 1 /\ TwoTo[1] = 2 /\ TwoTo[2] = 4 /\ TwoTo[3] = 8
    /\ TwoTo[4] = 16 /\ TwoTo[5] = 32 /\ TwoTo[6] = 64 /\ TwoTo[7] = 128
BY DEF TwoTo

(* The loop's variables.                                                   *)
Turns == [acc : Nat, bits : 0 .. 7, out : Seq(Nat)]

(* A turn of the loop of five_bit_to_bytes keeps the types of its variables.*)
LEMMA ShiftType ==
    ASSUME NEW s \in Turns, NEW w \in Nat
    PROVE  Shift(s, w) \in Turns
<1> DEFINE acc == (s.acc * 32 + w) % 65536
           bits == s.bits + 5
           byte == (acc \div TwoTo[bits - 8]) % 256
<1>1. acc \in Nat /\ bits \in Nat /\ bits >= 5 /\ bits <= 12 /\ s.out \in Seq(Nat)
  <2>1. s.acc \in Nat /\ s.bits \in 0 .. 7 /\ s.out \in Seq(Nat)
    BY DEF Turns
  <2>2. s.bits \in Nat /\ s.bits <= 7
    BY <2>1
  <2>3. acc \in Nat
    BY <2>1
  <2> QED BY <2>1, <2>2, <2>3
<1> HIDE DEF acc, bits
<1>2. CASE bits < 8
  <2>1. Shift(s, w) = [acc |-> acc, bits |-> bits, out |-> s.out]
    BY <1>2 DEF Shift, acc, bits
  <2>2. bits \in 0 .. 7
    BY <1>1, <1>2
  <2> QED BY <1>1, <2>1, <2>2 DEF Turns
<1>3. CASE bits >= 8
  <2>1. Shift(s, w) = [acc |-> acc, bits |-> bits - 8, out |-> Append(s.out, byte)]
    <3>1. ~(bits < 8)
      BY <1>1, <1>3
    <3> QED BY <3>1 DEF Shift, acc, bits
  <2>2. bits - 8 \in 0 .. 7
    BY <1>1, <1>3
  <2>3. byte \in Nat
    <3>1. bits = 8 \/ bits = 9 \/ bits = 10 \/ bits = 11 \/ bits = 12
      BY <1>1, <1>3
    <3> QED BY <1>1, <3>1, TwoToFacts
  <2> HIDE DEF byte
  <2>4. Append(s.out, byte) \in Seq(Nat)
    BY <1>1, <2>3
  <2> QED BY <1>1, <2>1, <2>2, <2>4 DEF Turns
<1> QED BY <1>1, <1>2, <1>3

(* The variables of the loop after each turn, as the recursion defines them.*)
LEMMA PackingFacts ==
    ASSUME NEW words \in Seq(Word)
    PROVE  LET n == Len(words)
           IN  /\ Packing(words) \in [0 .. n -> Turns]
               /\ \A k \in 0 .. n : Packing(words)[k] =
                    IF k = 0 THEN [acc |-> 0, bits |-> 0, out |-> <<>>]
                    ELSE Shift(Packing(words)[k - 1], words[k])
<1> DEFINE n == Len(words)
           first == [acc |-> 0, bits |-> 0, out |-> <<>>]
           step == [p \in Turns \X (1 .. n) |-> Shift(p[1], words[p[2]])]
<1>1. n \in Nat /\ \A k \in 1 .. n : words[k] \in Nat
  <2>1. n \in Nat /\ \A k \in 1 .. n : words[k] \in Nat
    BY WordsFacts
  <2> QED BY <2>1
<1>2. first \in Turns
  <2>1. <<>> \in Seq(Nat) /\ 0 \in 0 .. 7
    OBVIOUS
  <2> QED BY <2>1 DEF Turns
<1> HIDE DEF n, first
<1>3. \A v \in Turns : \A k \in 1 .. n : step[<<v, k>>] = Shift(v, words[k]) /\ Shift(v, words[k]) \in Turns
  BY <1>1, ShiftType
<1>4. step \in [Turns \X (1 .. n) -> Turns]
  BY <1>1, ShiftType
<1> HIDE DEF step
<1>6. PICK f \in [0 .. n -> Turns] :
            \A k \in 0 .. n : f[k] = IF k = 0 THEN first ELSE step[<<f[k - 1], k>>]
  <2>1. Iterable(n, Turns, first, step)
    BY <1>1, <1>2, <1>4, IterationExists
  <2> QED BY <2>1 DEF Iterable
<1>7. ASSUME NEW k \in 0 .. n PROVE f[k] = IF k = 0 THEN first ELSE Shift(f[k - 1], words[k])
  <2>1. CASE k = 0
    BY <1>6, <2>1
  <2>2. CASE k # 0
    <3>1. k - 1 \in 0 .. n /\ k \in 1 .. n
      BY <1>1, <2>2
    <3>2. f[k - 1] \in Turns
      BY <3>1
    <3> QED BY <1>3, <1>6, <2>2, <3>1, <3>2
  <2> QED BY <2>1, <2>2
<1>8. f = [k \in 0 .. n |-> IF k = 0 THEN first ELSE Shift(f[k - 1], words[k])]
  BY <1>7
<1>9. Packing(words) = [k \in 0 .. n |->
            IF k = 0 THEN first ELSE Shift(Packing(words)[k - 1], words[k])]
  BY <1>8, Zenon DEF Packing, n, first
<1>10. /\ DOMAIN Packing(words) = 0 .. n
       /\ \A k \in 0 .. n : Packing(words)[k] =
            IF k = 0 THEN first ELSE Shift(Packing(words)[k - 1], words[k])
  BY <1>9, Zenon
<1>11. \A k \in 0 .. n : Packing(words)[k] \in Turns
  <2> DEFINE T == {k \in 0 .. n : Packing(words)[k] \in Turns}
  <2>1. 0 \in T
    BY <1>1, <1>2, <1>10
  <2>2. ASSUME NEW k \in 1 .. n, k - 1 \in T PROVE k \in T
    <3>1. k \in 0 .. n /\ k # 0
      BY <1>1
    <3>2. Packing(words)[k] = Shift(Packing(words)[k - 1], words[k])
      BY <1>10, <3>1
    <3> QED BY <1>1, <2>2, <3>1, <3>2, ShiftType
  <2> HIDE DEF T
  <2>3. 0 .. n \subseteq T
    BY <1>1, <2>1, <2>2, UpTo
  <2> QED BY <2>3 DEF T
<1>12. Packing(words) \in [0 .. n -> Turns]
  BY <1>9, <1>11, <1>10
<1> QED BY <1>10, <1>12 DEF n, first

(* The bit of a word with so many to the right of it.                      *)
BitOf(w, i) == (w \div TwoTo[i]) % 2

(* A word is the sum of its five bits.                                      *)
LEMMA WordBits ==
    ASSUME NEW w \in Nat, w < 32
    PROVE  /\ w = 16 * BitOf(w, 4) + 8 * BitOf(w, 3) + 4 * BitOf(w, 2) + 2 * BitOf(w, 1) + BitOf(w, 0)
           /\ \A i \in 0 .. 4 : BitOf(w, i) \in {0, 1}
<1>1. /\ BitOf(w, 0) = w % 2 /\ BitOf(w, 1) = (w \div 2) % 2 /\ BitOf(w, 2) = (w \div 4) % 2
      /\ BitOf(w, 3) = (w \div 8) % 2 /\ BitOf(w, 4) = (w \div 16) % 2
  <2>1. w \div 1 = w
    OBVIOUS
  <2> QED BY <2>1, TwoToFacts DEF BitOf
<1>2. w = 16 * ((w \div 16) % 2) + 8 * ((w \div 8) % 2) + 4 * ((w \div 4) % 2)
            + 2 * ((w \div 2) % 2) + (w % 2)
  OBVIOUS
<1>3. /\ (w % 2) \in {0, 1} /\ (w \div 2) % 2 \in {0, 1} /\ (w \div 4) % 2 \in {0, 1}
      /\ (w \div 8) % 2 \in {0, 1} /\ (w \div 16) % 2 \in {0, 1}
  OBVIOUS
<1>4. \A i \in 0 .. 4 : i = 0 \/ i = 1 \/ i = 2 \/ i = 3 \/ i = 4
  OBVIOUS
<1> QED BY <1>1, <1>2, <1>3, <1>4

(* What is left of a number when its lower bits are cut off and all but    *)
(* eight of the others.                                                    *)
LEMMA Cut ==
    ASSUME NEW M \in Nat, NEW byte \in Nat, byte < 256, NEW r \in Nat, NEW x
    PROVE  /\ r < 1 /\ x = 1 * (256 * M + byte) + r => (x \div 1) % 256 = byte
           /\ r < 2 /\ x = 2 * (256 * M + byte) + r => (x \div 2) % 256 = byte
           /\ r < 4 /\ x = 4 * (256 * M + byte) + r => (x \div 4) % 256 = byte
           /\ r < 8 /\ x = 8 * (256 * M + byte) + r => (x \div 8) % 256 = byte
           /\ r < 16 /\ x = 16 * (256 * M + byte) + r => (x \div 16) % 256 = byte
OBVIOUS

(* Eight bits of what is in the accumulator, cut out after a shift.        *)
Lowest(f, a, b, c) ==
    /\ f[0] = BitOf(c, 0) /\ f[1] = BitOf(c, 1) /\ f[2] = BitOf(c, 2)
    /\ f[3] = BitOf(c, 3) /\ f[4] = BitOf(c, 4) /\ f[5] = BitOf(b, 0)
    /\ f[6] = BitOf(b, 1) /\ f[7] = BitOf(b, 2) /\ f[8] = BitOf(b, 3)
    /\ f[9] = BitOf(b, 4) /\ f[10] = BitOf(a, 0) /\ f[11] = BitOf(a, 1)

(* The last three words that were shifted in, as the accumulator has them.  *)
Holds(x, a, b, c) ==
    /\ x \in Nat /\ a \in Nat /\ b \in Nat /\ c \in Nat
    /\ a < 32 /\ b < 32 /\ c < 32
    /\ x % 32768 = a * 1024 + b * 32 + c

(* Eight neighbouring bits of three words, cut out of the accumulator.      *)
LEMMA ByteOf ==
    ASSUME NEW x, NEW a, NEW b, NEW c, Holds(x, a, b, c), NEW f, Lowest(f, a, b, c)
    PROVE  /\ (x \div TwoTo[0]) % 256 = 128 * f[7] + 64 * f[6] + 32 * f[5] + 16 * f[4] + 8 * f[3] + 4 * f[2] + 2 * f[1] + f[0]
           /\ (x \div TwoTo[1]) % 256 = 128 * f[8] + 64 * f[7] + 32 * f[6] + 16 * f[5] + 8 * f[4] + 4 * f[3] + 2 * f[2] + f[1]
           /\ (x \div TwoTo[2]) % 256 = 128 * f[9] + 64 * f[8] + 32 * f[7] + 16 * f[6] + 8 * f[5] + 4 * f[4] + 2 * f[3] + f[2]
           /\ (x \div TwoTo[3]) % 256 = 128 * f[10] + 64 * f[9] + 32 * f[8] + 16 * f[7] + 8 * f[6] + 4 * f[5] + 2 * f[4] + f[3]
           /\ (x \div TwoTo[4]) % 256 = 128 * f[11] + 64 * f[10] + 32 * f[9] + 16 * f[8] + 8 * f[7] + 4 * f[6] + 2 * f[5] + f[4]
<1> DEFINE q == x \div 32768
           a0 == BitOf(a, 0)  a1 == BitOf(a, 1)  a2 == BitOf(a, 2)  a3 == BitOf(a, 3)  a4 == BitOf(a, 4)
           b0 == BitOf(b, 0)  b1 == BitOf(b, 1)  b2 == BitOf(b, 2)  b3 == BitOf(b, 3)  b4 == BitOf(b, 4)
           c0 == BitOf(c, 0)  c1 == BitOf(c, 1)  c2 == BitOf(c, 2)  c3 == BitOf(c, 3)  c4 == BitOf(c, 4)
<1>0. /\ x \in Nat /\ a \in Nat /\ b \in Nat /\ c \in Nat
      /\ a < 32 /\ b < 32 /\ c < 32
      /\ x % 32768 = a * 1024 + b * 32 + c
  BY DEF Holds
<1>1. x = 32768 * q + a * 1024 + b * 32 + c /\ q \in Nat
  BY <1>0
<1>2. a = 16 * a4 + 8 * a3 + 4 * a2 + 2 * a1 + a0
        /\ a0 \in Nat /\ a0 <= 1 /\ a1 \in Nat /\ a1 <= 1 /\ a2 \in Nat /\ a2 <= 1 /\ a3 \in Nat /\ a3 <= 1 /\ a4 \in Nat /\ a4 <= 1
  <2>1. \A i \in 0 .. 4 : BitOf(a, i) \in Nat /\ BitOf(a, i) <= 1
    <3>1. \A i \in 0 .. 4 : BitOf(a, i) \in {0, 1}
      BY <1>0, WordBits
    <3> QED BY <3>1
  <2> QED BY <1>0, <2>1, WordBits
<1>3. b = 16 * b4 + 8 * b3 + 4 * b2 + 2 * b1 + b0
        /\ b0 \in Nat /\ b0 <= 1 /\ b1 \in Nat /\ b1 <= 1 /\ b2 \in Nat /\ b2 <= 1 /\ b3 \in Nat /\ b3 <= 1 /\ b4 \in Nat /\ b4 <= 1
  <2>1. \A i \in 0 .. 4 : BitOf(b, i) \in Nat /\ BitOf(b, i) <= 1
    <3>1. \A i \in 0 .. 4 : BitOf(b, i) \in {0, 1}
      BY <1>0, WordBits
    <3> QED BY <3>1
  <2> QED BY <1>0, <2>1, WordBits
<1>4. c = 16 * c4 + 8 * c3 + 4 * c2 + 2 * c1 + c0
        /\ c0 \in Nat /\ c0 <= 1 /\ c1 \in Nat /\ c1 <= 1 /\ c2 \in Nat /\ c2 <= 1 /\ c3 \in Nat /\ c3 <= 1 /\ c4 \in Nat /\ c4 <= 1
  <2>1. \A i \in 0 .. 4 : BitOf(c, i) \in Nat /\ BitOf(c, i) <= 1
    <3>1. \A i \in 0 .. 4 : BitOf(c, i) \in {0, 1}
      BY <1>0, WordBits
    <3> QED BY <3>1
  <2> QED BY <1>0, <2>1, WordBits
<1> HIDE DEF q, a0, a1, a2, a3, a4, b0, b1, b2, b3, b4, c0, c1, c2, c3, c4
<1>10. (x \div 1) % 256 = 128 * b2 + 64 * b1 + 32 * b0 + 16 * c4 + 8 * c3 + 4 * c2 + 2 * c1 + c0
  <2> DEFINE M == 128 * q + 4 * a + 2 * b4 + b3
             byte == 128 * b2 + 64 * b1 + 32 * b0 + 16 * c4 + 8 * c3 + 4 * c2 + 2 * c1 + c0
             r == 0
  <2>1. M \in Nat /\ byte \in Nat /\ byte < 256 /\ r \in Nat /\ r < 1
    BY <1>0, <1>1, <1>2, <1>3, <1>4
  <2>2. x = 1 * (256 * M + byte) + r
    BY <1>0, <1>1, <1>2, <1>3, <1>4
  <2> HIDE DEF M, byte, r
  <2>3. (x \div 1) % 256 = byte
    BY <2>1, <2>2, Cut
  <2> QED BY <2>3 DEF byte
<1>11. (x \div 2) % 256 = 128 * b3 + 64 * b2 + 32 * b1 + 16 * b0 + 8 * c4 + 4 * c3 + 2 * c2 + c1
  <2> DEFINE M == 64 * q + 2 * a + b4
             byte == 128 * b3 + 64 * b2 + 32 * b1 + 16 * b0 + 8 * c4 + 4 * c3 + 2 * c2 + c1
             r == c0
  <2>1. M \in Nat /\ byte \in Nat /\ byte < 256 /\ r \in Nat /\ r < 2
    BY <1>0, <1>1, <1>2, <1>3, <1>4
  <2>2. x = 2 * (256 * M + byte) + r
    BY <1>0, <1>1, <1>2, <1>3, <1>4
  <2> HIDE DEF M, byte, r
  <2>3. (x \div 2) % 256 = byte
    BY <2>1, <2>2, Cut
  <2> QED BY <2>3 DEF byte
<1>12. (x \div 4) % 256 = 128 * b4 + 64 * b3 + 32 * b2 + 16 * b1 + 8 * b0 + 4 * c4 + 2 * c3 + c2
  <2> DEFINE M == 32 * q + a
             byte == 128 * b4 + 64 * b3 + 32 * b2 + 16 * b1 + 8 * b0 + 4 * c4 + 2 * c3 + c2
             r == 2 * c1 + c0
  <2>1. M \in Nat /\ byte \in Nat /\ byte < 256 /\ r \in Nat /\ r < 4
    BY <1>0, <1>1, <1>2, <1>3, <1>4
  <2>2. x = 4 * (256 * M + byte) + r
    BY <1>0, <1>1, <1>2, <1>3, <1>4
  <2> HIDE DEF M, byte, r
  <2>3. (x \div 4) % 256 = byte
    BY <2>1, <2>2, Cut
  <2> QED BY <2>3 DEF byte
<1>13. (x \div 8) % 256 = 128 * a0 + 64 * b4 + 32 * b3 + 16 * b2 + 8 * b1 + 4 * b0 + 2 * c4 + c3
  <2> DEFINE M == 16 * q + 8 * a4 + 4 * a3 + 2 * a2 + a1
             byte == 128 * a0 + 64 * b4 + 32 * b3 + 16 * b2 + 8 * b1 + 4 * b0 + 2 * c4 + c3
             r == 4 * c2 + 2 * c1 + c0
  <2>1. M \in Nat /\ byte \in Nat /\ byte < 256 /\ r \in Nat /\ r < 8
    BY <1>0, <1>1, <1>2, <1>3, <1>4
  <2>2. x = 8 * (256 * M + byte) + r
    BY <1>0, <1>1, <1>2, <1>3, <1>4
  <2> HIDE DEF M, byte, r
  <2>3. (x \div 8) % 256 = byte
    BY <2>1, <2>2, Cut
  <2> QED BY <2>3 DEF byte
<1>14. (x \div 16) % 256 = 128 * a1 + 64 * a0 + 32 * b4 + 16 * b3 + 8 * b2 + 4 * b1 + 2 * b0 + c4
  <2> DEFINE M == 8 * q + 4 * a4 + 2 * a3 + a2
             byte == 128 * a1 + 64 * a0 + 32 * b4 + 16 * b3 + 8 * b2 + 4 * b1 + 2 * b0 + c4
             r == 8 * c3 + 4 * c2 + 2 * c1 + c0
  <2>1. M \in Nat /\ byte \in Nat /\ byte < 256 /\ r \in Nat /\ r < 16
    BY <1>0, <1>1, <1>2, <1>3, <1>4
  <2>2. x = 16 * (256 * M + byte) + r
    BY <1>0, <1>1, <1>2, <1>3, <1>4
  <2> HIDE DEF M, byte, r
  <2>3. (x \div 16) % 256 = byte
    BY <2>1, <2>2, Cut
  <2> QED BY <2>3 DEF byte
<1>15. x \div 1 = x /\ TwoTo[0] = 1
  BY <1>0, TwoToFacts
<1> QED
  BY <1>10, <1>11, <1>12, <1>13, <1>14, <1>15, TwoToFacts
    DEF Lowest, a0, a1, a2, a3, a4, b0, b1, b2, b3, b4, c0, c1, c2, c3, c4

(* The word at a position, or zero where there is none.                    *)
Before(words, i) == IF i < 1 THEN 0 ELSE words[i]

(* It is a number below 32 in any case.                                     *)
LEMMA BeforeType ==
    ASSUME NEW words \in Seq(Word), NEW i \in Int, i <= Len(words)
    PROVE  Before(words, i) \in Nat /\ Before(words, i) < 32
<1>1. CASE i < 1
  BY <1>1 DEF Before
<1>2. CASE i >= 1
  <2>1. i \in 1 .. Len(words) /\ ~(i < 1)
    BY <1>2, WordsFacts
  <2> QED BY <2>1, WordsFacts DEF Before
<1> QED BY <1>1, <1>2

(* The bit that is so many bits before the last one of the n-th word.      *)
Back(words, n, t) == BitOf(Before(words, n - (t \div 5)), t % 5)

(* The bits of the words counted from the first are those counted back from *)
(* the n-th word.                                                           *)
LEMMA BitBack ==
    ASSUME NEW words, NEW n \in Int, NEW t \in Nat, NEW i, i = 5 * n - t, i > 0
    PROVE  Bit(words, i) = Back(words, n, t)
<1> DEFINE u == t \div 5
           v == t % 5
<1>1. t = 5 * u + v /\ u \in Int /\ v \in Int /\ 0 <= v /\ v <= 4
  OBVIOUS
<1> HIDE DEF u, v
<1>2. i - 1 = 5 * (n - u - 1) + (4 - v)
  BY <1>1
<1>3. (i - 1) \div 5 = n - u - 1 /\ (i - 1) % 5 = 4 - v
  BY <1>1, <1>2
<1>4. ((i - 1) \div 5) + 1 = n - u /\ 4 - ((i - 1) % 5) = v /\ ~(n - u < 1)
  BY <1>1, <1>3
<1> QED BY <1>4 DEF Bit, Back, BitOf, Before, u, v

(* The last twelve bits up to the end of the n-th word.                     *)
IsBack(f, words, n) == n \in Int /\ \A t \in 0 .. 11 : f[t] = Back(words, n, t)

(* They are bits of the last three words.                                   *)
LEMMA BackAt ==
    ASSUME NEW words, NEW n, NEW f, IsBack(f, words, n)
    PROVE  Lowest(f, Before(words, n - 2), Before(words, n - 1), Before(words, n))
<1>1. \A v \in {0, 1, 2, 3, 4} : v \div 5 = 0 /\ v % 5 = v /\ v \in 0 .. 11
  OBVIOUS
<1>2. \A v \in {5, 6, 7, 8, 9} : v \div 5 = 1 /\ v % 5 = v - 5 /\ v \in 0 .. 11
  OBVIOUS
<1>3. \A v \in {10, 11} : v \div 5 = 2 /\ v % 5 = v - 10 /\ v \in 0 .. 11
  OBVIOUS
<1>4. n - 0 = n
  BY DEF IsBack
<1>5. \A v \in {0, 1, 2, 3, 4} : f[v] = BitOf(Before(words, n), v)
  BY <1>1, <1>4 DEF Back, IsBack
<1>6. \A v \in {5, 6, 7, 8, 9} : f[v] = BitOf(Before(words, n - 1), v - 5)
  BY <1>2 DEF Back, IsBack
<1>7. \A v \in {10, 11} : f[v] = BitOf(Before(words, n - 2), v - 10)
  BY <1>3 DEF Back, IsBack
<1>8. /\ 5 - 5 = 0 /\ 6 - 5 = 1 /\ 7 - 5 = 2 /\ 8 - 5 = 3 /\ 9 - 5 = 4
      /\ 10 - 10 = 0 /\ 11 - 10 = 1
  OBVIOUS
<1> QED BY <1>5, <1>6, <1>7, <1>8 DEF Lowest

(* An octet ends in a word, so many bits before the end of it.             *)
EndsAt(words, k, n, j) ==
    /\ words \in Seq(Word) /\ n \in Nat /\ n <= Len(words)
    /\ k \in Nat /\ k > 0 /\ j \in Nat /\ j <= 4 /\ 8 * k = 5 * n - j

(* An octet is made of the eight bits that end there.                       *)
LEMMA OctetAt ==
    ASSUME NEW words, NEW k, NEW n, NEW j, EndsAt(words, k, n, j)
    PROVE  /\ k \in DOMAIN Octets(words)
           /\ Octets(words)[k] =
                128 * Back(words, n, j + 7) + 64 * Back(words, n, j + 6)
                + 32 * Back(words, n, j + 5) + 16 * Back(words, n, j + 4)
                + 8 * Back(words, n, j + 3) + 4 * Back(words, n, j + 2)
                + 2 * Back(words, n, j + 1) + Back(words, n, j)
<1> DEFINE bit(q) == Bit(words, 8 * (k - 1) + q)
<1>0. /\ Len(words) \in Nat /\ n \in Nat /\ n <= Len(words)
      /\ k \in Nat /\ k > 0 /\ j \in Nat /\ 8 * k = 5 * n - j
  BY WordsFacts DEF EndsAt
<1>1. k \in 1 .. (5 * Len(words)) \div 8
  BY <1>0
<1>2. Octets(words)[k] =
                    128 * bit(1) + 64 * bit(2) + 32 * bit(3) + 16 * bit(4)
                        + 8 * bit(5) + 4 * bit(6) + 2 * bit(7) + bit(8)
  BY <1>1 DEF Octets
<1>3. ASSUME NEW q \in 1 .. 8 PROVE bit(q) = Back(words, n, j + (8 - q))
  <2>1. /\ j + (8 - q) \in Nat /\ 8 * (k - 1) + q = 5 * n - (j + (8 - q)) /\ n \in Int
        /\ 8 * (k - 1) + q > 0
    BY <1>0
  <2> QED BY <2>1, BitBack
<1>4. /\ j + (8 - 1) = j + 7 /\ j + (8 - 2) = j + 6 /\ j + (8 - 3) = j + 5 /\ j + (8 - 4) = j + 4
      /\ j + (8 - 5) = j + 3 /\ j + (8 - 6) = j + 2 /\ j + (8 - 7) = j + 1 /\ j + (8 - 8) = j
      /\ 1 \in 1 .. 8 /\ 2 \in 1 .. 8 /\ 3 \in 1 .. 8 /\ 4 \in 1 .. 8
      /\ 5 \in 1 .. 8 /\ 6 \in 1 .. 8 /\ 7 \in 1 .. 8 /\ 8 \in 1 .. 8
  BY <1>0
<1> HIDE DEF bit
<1>5. /\ bit(1) = Back(words, n, j + 7) /\ bit(2) = Back(words, n, j + 6)
      /\ bit(3) = Back(words, n, j + 5) /\ bit(4) = Back(words, n, j + 4)
      /\ bit(5) = Back(words, n, j + 3) /\ bit(6) = Back(words, n, j + 2)
      /\ bit(7) = Back(words, n, j + 1) /\ bit(8) = Back(words, n, j)
  BY <1>3, <1>4
<1> QED BY <1>1, <1>2, <1>5 DEF Octets

(* What is cut out of the accumulator is the next octet.                   *)
LEMMA ByteIsOctet ==
    ASSUME NEW words, NEW k, NEW n, NEW j, EndsAt(words, k, n, j),
           NEW x, Holds(x, Before(words, n - 2), Before(words, n - 1), Before(words, n))
    PROVE  (x \div TwoTo[j]) % 256 = Octets(words)[k]
<1> DEFINE f == [t \in 0 .. 11 |-> Back(words, n, t)]
<1>1. j \in Nat /\ j <= 4 /\ n \in Nat
  BY DEF EndsAt
<1>2. \A t \in 0 .. 11 : f[t] = Back(words, n, t)
  OBVIOUS
<1> HIDE DEF f
<1>3. IsBack(f, words, n)
  BY <1>1, <1>2 DEF IsBack
<1>4. Lowest(f, Before(words, n - 2), Before(words, n - 1), Before(words, n))
  BY <1>3, BackAt
<1>5. /\ (x \div TwoTo[0]) % 256 = 128 * f[7] + 64 * f[6] + 32 * f[5] + 16 * f[4] + 8 * f[3] + 4 * f[2] + 2 * f[1] + f[0]
      /\ (x \div TwoTo[1]) % 256 = 128 * f[8] + 64 * f[7] + 32 * f[6] + 16 * f[5] + 8 * f[4] + 4 * f[3] + 2 * f[2] + f[1]
      /\ (x \div TwoTo[2]) % 256 = 128 * f[9] + 64 * f[8] + 32 * f[7] + 16 * f[6] + 8 * f[5] + 4 * f[4] + 2 * f[3] + f[2]
      /\ (x \div TwoTo[3]) % 256 = 128 * f[10] + 64 * f[9] + 32 * f[8] + 16 * f[7] + 8 * f[6] + 4 * f[5] + 2 * f[4] + f[3]
      /\ (x \div TwoTo[4]) % 256 = 128 * f[11] + 64 * f[10] + 32 * f[9] + 16 * f[8] + 8 * f[7] + 4 * f[6] + 2 * f[5] + f[4]
  BY <1>4, ByteOf
<1>6. Octets(words)[k] =
            128 * Back(words, n, j + 7) + 64 * Back(words, n, j + 6)
            + 32 * Back(words, n, j + 5) + 16 * Back(words, n, j + 4)
            + 8 * Back(words, n, j + 3) + 4 * Back(words, n, j + 2)
            + 2 * Back(words, n, j + 1) + Back(words, n, j)
  BY OctetAt
<1>7. \A i \in 0 .. 7 : Back(words, n, j + i) = f[j + i]
  <2>1. \A i \in 0 .. 7 : j + i \in 0 .. 11
    BY <1>1
  <2> QED BY <1>2, <2>1
<1>8. Octets(words)[k] = 128 * f[j + 7] + 64 * f[j + 6] + 32 * f[j + 5] + 16 * f[j + 4] + 8 * f[j + 3] + 4 * f[j + 2] + 2 * f[j + 1] + f[j]
  <2>1. j + 0 = j
    BY <1>1
  <2>2. \A i \in {1, 2, 3, 4, 5, 6, 7} : Back(words, n, j + i) = f[j + i]
    BY <1>7
  <2>3. Back(words, n, j) = f[j]
    BY <1>7, <2>1
  <2> QED BY <1>6, <2>2, <2>3
<1>10. CASE j = 0
  <2>1. Octets(words)[k] = 128 * f[7] + 64 * f[6] + 32 * f[5] + 16 * f[4] + 8 * f[3] + 4 * f[2] + 2 * f[1] + f[0]
    BY <1>8, <1>10
  <2> QED BY <1>5, <1>6, <1>10, <2>1
<1>11. CASE j = 1
  <2>1. Octets(words)[k] = 128 * f[8] + 64 * f[7] + 32 * f[6] + 16 * f[5] + 8 * f[4] + 4 * f[3] + 2 * f[2] + f[1]
    BY <1>8, <1>11
  <2> QED BY <1>5, <1>6, <1>11, <2>1
<1>12. CASE j = 2
  <2>1. Octets(words)[k] = 128 * f[9] + 64 * f[8] + 32 * f[7] + 16 * f[6] + 8 * f[5] + 4 * f[4] + 2 * f[3] + f[2]
    BY <1>8, <1>12
  <2> QED BY <1>5, <1>6, <1>12, <2>1
<1>13. CASE j = 3
  <2>1. Octets(words)[k] = 128 * f[10] + 64 * f[9] + 32 * f[8] + 16 * f[7] + 8 * f[6] + 4 * f[5] + 2 * f[4] + f[3]
    BY <1>8, <1>13
  <2> QED BY <1>5, <1>6, <1>13, <2>1
<1>14. CASE j = 4
  <2>1. Octets(words)[k] = 128 * f[11] + 64 * f[10] + 32 * f[9] + 16 * f[8] + 8 * f[7] + 4 * f[6] + 2 * f[5] + f[4]
    BY <1>8, <1>14
  <2> QED BY <1>5, <1>6, <1>14, <2>1
<1>15. j = 0 \/ j = 1 \/ j = 2 \/ j = 3 \/ j = 4
  BY <1>1
<1> QED BY <1>10, <1>11, <1>12, <1>13, <1>14, <1>15

(* The counts of a turn.                                                   *)
Counts(n, d, l) == n \in Nat /\ d \in Nat /\ l \in Nat /\ d = (5 * n) % 8 /\ l = (5 * n) \div 8

(* The counts after one turn more: either no octet is complete, or one is,  *)
(* and it ends at most four bits before the end of the word.                *)
LEMMA TurnCounts ==
    ASSUME NEW n \in Nat, n > 0, NEW d, NEW l, Counts(n - 1, d, l)
    PROVE  /\ d + 5 < 8 => Counts(n, d + 5, l)
           /\ ~(d + 5 < 8) => /\ Counts(n, (d + 5) - 8, l + 1)
                              /\ (d + 5) - 8 <= 4 /\ 8 * (l + 1) = 5 * n - ((d + 5) - 8)
BY DEF Counts

(* The accumulator after a turn.                                           *)
Carries(m, b, c) ==
    /\ m \in Nat /\ b \in Nat /\ c \in Nat /\ b < 32 /\ c < 32
    /\ m % 1024 = b * 32 + c

(* The accumulator after one turn more, with 16 of its bits kept.           *)
LEMMA TurnAcc ==
    ASSUME NEW m, NEW a, NEW b, Carries(m, a, b), NEW c \in Nat, c < 32
    PROVE  /\ Holds((m * 32 + c) % 65536, a, b, c)
           /\ Carries((m * 32 + c) % 65536, b, c)
<1>0. m \in Nat /\ a \in Nat /\ b \in Nat /\ a < 32 /\ b < 32 /\ m % 1024 = a * 32 + b
  BY DEF Carries
<1> DEFINE q == m \div 1024
           t == m * 32 + c
           r == t \div 65536
           z == t % 65536
<1>1. m = 1024 * q + (a * 32 + b) /\ q \in Nat
  BY <1>0
<1> HIDE DEF q
<1>2. t = 32768 * q + (a * 1024 + b * 32 + c) /\ t \in Nat
  BY <1>0, <1>1
<1> HIDE DEF t
<1>3. t = 65536 * r + z /\ r \in Nat /\ z \in Nat
  BY <1>2
<1> HIDE DEF r, z
<1> DEFINE y == a * 1024 + b * 32 + c
<1>4. y \in Nat /\ y < 32768
  BY <1>0
<1>5. y % 1024 = b * 32 + c
  BY <1>0
<1> HIDE DEF y
<1>6. z = 32768 * (q - 2 * r) + y
  BY <1>0, <1>1, <1>2, <1>3 DEF y
<1>7. z % 32768 = y /\ z % 1024 = y % 1024
  BY <1>1, <1>3, <1>4, <1>6
<1> QED BY <1>0, <1>3, <1>5, <1>7 DEF z, t, y, Holds, Carries

(* After each turn the whole octets are out, the bits left over are the    *)
(* lowest of the accumulator, and above them are those of the words before.*)
PackedTo(words, n) ==
    LET s == Packing(words)[n]
    IN  /\ Counts(n, s.bits, Len(s.out))
        /\ Carries(s.acc, Before(words, n - 1), Before(words, n))
        /\ \A k \in 1 .. Len(s.out) : s.out[k] = Octets(words)[k]

(* A turn keeps that.                                                       *)
LEMMA PackedStep ==
    ASSUME NEW words \in Seq(Word), NEW n \in 1 .. Len(words), PackedTo(words, n - 1)
    PROVE  PackedTo(words, n)
<1> DEFINE s == Packing(words)[n - 1]
           z == Packing(words)[n]
           a == Before(words, n - 2)
           b == Before(words, n - 1)
           c == Before(words, n)
           acc == (s.acc * 32 + c) % 65536
           l == Len(s.out)
           k == l + 1
           j == (s.bits + 5) - 8
           byte == (acc \div TwoTo[j]) % 256
<1>1. n \in Nat /\ n > 0 /\ n <= Len(words) /\ Len(words) \in Nat /\ n - 1 \in 0 .. Len(words)
        /\ n \in 0 .. Len(words) /\ n # 0 /\ (n - 1) - 1 = n - 2 /\ ~(n < 1)
  BY WordsFacts
<1>2. c \in Nat /\ c < 32 /\ c = words[n]
  BY <1>1, BeforeType DEF Before
<1>3. s \in Turns /\ z = Shift(s, c)
  BY <1>1, <1>2, PackingFacts
<1>4. s.out \in Seq(Nat)
  BY <1>3 DEF Turns
<1>5. /\ Counts(n - 1, s.bits, l) /\ Carries(s.acc, a, b)
      /\ \A i \in 1 .. l : s.out[i] = Octets(words)[i]
  BY <1>1 DEF PackedTo
<1>6. Holds(acc, a, b, c) /\ Carries(acc, b, c)
  <2> HIDE DEF s, a, b, c
  <2> QED BY <1>2, <1>5, TurnAcc
<1>7. l \in Nat /\ s.bits \in Nat
  BY <1>5 DEF Counts
<1>8. /\ s.bits + 5 < 8 => Counts(n, s.bits + 5, l)
      /\ ~(s.bits + 5 < 8) => Counts(n, j, k) /\ j <= 4 /\ 8 * k = 5 * n - j
  <2> HIDE DEF s, l
  <2> QED BY <1>1, <1>5, TurnCounts
<1>9. acc \in Nat
  BY <1>6 DEF Carries
<1>10. PackedTo(words, n) <=> /\ Counts(n, z.bits, Len(z.out)) /\ Carries(z.acc, b, c)
                              /\ \A i \in 1 .. Len(z.out) : z.out[i] = Octets(words)[i]
  BY DEF PackedTo
<1>11. z = IF s.bits + 5 < 8 THEN [acc |-> acc, bits |-> s.bits + 5, out |-> s.out]
           ELSE [acc |-> acc, bits |-> j, out |-> Append(s.out, byte)]
  BY <1>3 DEF Shift
<1>12. Holds(acc, Before(words, n - 2), Before(words, n - 1), Before(words, n))
  BY <1>6
<1>13. k = l + 1 /\ l = Len(s.out)
  OBVIOUS
<1> HIDE DEF z, a, b, c, acc
<1>14. CASE s.bits + 5 < 8
  <2>1. z.acc = acc /\ z.bits = s.bits + 5 /\ z.out = s.out
    BY <1>11, <1>14
  <2> QED BY <1>5, <1>6, <1>8, <1>10, <1>14, <2>1
<1>15. CASE ~(s.bits + 5 < 8)
  <2>1. z.acc = acc /\ z.bits = j /\ z.out = Append(s.out, byte)
    BY <1>11, <1>15
  <2>2. Counts(n, j, k) /\ j <= 4 /\ 8 * k = 5 * n - j
    BY <1>8, <1>15
  <2> HIDE DEF s, l, k, j
  <2>3. EndsAt(words, k, n, j)
    <3>1. j \in Nat /\ k \in Nat /\ k > 0
      BY <1>7, <1>13, <2>2 DEF Counts
    <3> QED BY <1>1, <2>2, <3>1 DEF EndsAt
  <2>4. byte = Octets(words)[k]
    BY <1>12, <2>3, ByteIsOctet
  <2>5. byte \in Nat
    <3>1. j = 0 \/ j = 1 \/ j = 2 \/ j = 3 \/ j = 4
      BY <2>3 DEF EndsAt
    <3>2. /\ (acc \div 1) % 256 \in Nat /\ (acc \div 2) % 256 \in Nat /\ (acc \div 4) % 256 \in Nat
          /\ (acc \div 8) % 256 \in Nat /\ (acc \div 16) % 256 \in Nat
      BY <1>9
    <3> QED BY <3>1, <3>2, TwoToFacts
  <2> HIDE DEF byte
  <2>6. Len(z.out) = k /\ \A i \in 1 .. k : z.out[i] = IF i = k THEN byte ELSE s.out[i]
    BY <1>4, <1>7, <1>13, <2>1, <2>5
  <2>7. ASSUME NEW i \in 1 .. k PROVE z.out[i] = Octets(words)[i]
    <3>1. CASE i = k
      BY <2>4, <2>6, <3>1
    <3>2. CASE i # k
      <4>1. i \in 1 .. l
        BY <1>7, <1>13, <3>2
      <4> QED BY <1>5, <2>6, <3>2, <4>1
    <3> QED BY <3>1, <3>2
  <2> QED BY <1>6, <1>10, <2>1, <2>2, <2>6, <2>7
<1> QED BY <1>14, <1>15

(* What the lowest bits of the accumulator are.                            *)
LEMMA LowestBits ==
    ASSUME NEW x, NEW b, NEW c, Carries(x, b, c), NEW f, NEW a, Lowest(f, a, b, c)
    PROVE  /\ x % 1 = 0
           /\ x % 2 = f[0]
           /\ x % 4 = 2 * f[1] + f[0]
           /\ x % 8 = 4 * f[2] + 2 * f[1] + f[0]
           /\ x % 16 = 8 * f[3] + 4 * f[2] + 2 * f[1] + f[0]
           /\ x % 32 = 16 * f[4] + 8 * f[3] + 4 * f[2] + 2 * f[1] + f[0]
           /\ x % 64 = 32 * f[5] + 16 * f[4] + 8 * f[3] + 4 * f[2] + 2 * f[1] + f[0]
           /\ x % 128 = 64 * f[6] + 32 * f[5] + 16 * f[4] + 8 * f[3] + 4 * f[2] + 2 * f[1] + f[0]
<1> DEFINE q == x \div 1024
           b0 == BitOf(b, 0)  b1 == BitOf(b, 1)  b2 == BitOf(b, 2)  b3 == BitOf(b, 3)  b4 == BitOf(b, 4)
           c0 == BitOf(c, 0)  c1 == BitOf(c, 1)  c2 == BitOf(c, 2)  c3 == BitOf(c, 3)  c4 == BitOf(c, 4)
<1>0. /\ x \in Nat /\ b \in Nat /\ c \in Nat /\ b < 32 /\ c < 32
      /\ x % 1024 = b * 32 + c
  BY DEF Carries
<1>1. x = 1024 * q + b * 32 + c /\ q \in Nat
  BY <1>0
<1>3. b = 16 * b4 + 8 * b3 + 4 * b2 + 2 * b1 + b0
        /\ b0 \in Nat /\ b0 <= 1 /\ b1 \in Nat /\ b1 <= 1 /\ b2 \in Nat /\ b2 <= 1 /\ b3 \in Nat /\ b3 <= 1 /\ b4 \in Nat /\ b4 <= 1
  <2>1. \A i \in 0 .. 4 : BitOf(b, i) \in Nat /\ BitOf(b, i) <= 1
    <3>1. \A i \in 0 .. 4 : BitOf(b, i) \in {0, 1}
      BY <1>0, WordBits
    <3> QED BY <3>1
  <2> QED BY <1>0, <2>1, WordBits
<1>4. c = 16 * c4 + 8 * c3 + 4 * c2 + 2 * c1 + c0
        /\ c0 \in Nat /\ c0 <= 1 /\ c1 \in Nat /\ c1 <= 1 /\ c2 \in Nat /\ c2 <= 1 /\ c3 \in Nat /\ c3 <= 1 /\ c4 \in Nat /\ c4 <= 1
  <2>1. \A i \in 0 .. 4 : BitOf(c, i) \in Nat /\ BitOf(c, i) <= 1
    <3>1. \A i \in 0 .. 4 : BitOf(c, i) \in {0, 1}
      BY <1>0, WordBits
    <3> QED BY <3>1
  <2> QED BY <1>0, <2>1, WordBits
<1>5. /\ f[0] = c0 /\ f[1] = c1 /\ f[2] = c2 /\ f[3] = c3 /\ f[4] = c4
      /\ f[5] = b0 /\ f[6] = b1
  BY DEF Lowest
<1> HIDE DEF q, b0, b1, b2, b3, b4, c0, c1, c2, c3, c4
<1>10. x % 1 = 0
  <2> DEFINE M == 1024 * q + 512 * b4 + 256 * b3 + 128 * b2 + 64 * b1 + 32 * b0 + 16 * c4 + 8 * c3 + 4 * c2 + 2 * c1 + c0
             r == 0
  <2>1. M \in Nat /\ r \in Nat /\ r < 1 /\ x = 1 * M + r
    BY <1>1, <1>3, <1>4
  <2> HIDE DEF M, r
  <2>2. x % 1 = r
    BY <2>1
  <2> QED BY <2>2 DEF r
<1>11. x % 2 = c0
  <2> DEFINE M == 512 * q + 256 * b4 + 128 * b3 + 64 * b2 + 32 * b1 + 16 * b0 + 8 * c4 + 4 * c3 + 2 * c2 + c1
             r == c0
  <2>1. M \in Nat /\ r \in Nat /\ r < 2 /\ x = 2 * M + r
    BY <1>1, <1>3, <1>4
  <2> HIDE DEF M, r
  <2>2. x % 2 = r
    BY <2>1
  <2> QED BY <2>2 DEF r
<1>12. x % 4 = 2 * c1 + c0
  <2> DEFINE M == 256 * q + 128 * b4 + 64 * b3 + 32 * b2 + 16 * b1 + 8 * b0 + 4 * c4 + 2 * c3 + c2
             r == 2 * c1 + c0
  <2>1. M \in Nat /\ r \in Nat /\ r < 4 /\ x = 4 * M + r
    BY <1>1, <1>3, <1>4
  <2> HIDE DEF M, r
  <2>2. x % 4 = r
    BY <2>1
  <2> QED BY <2>2 DEF r
<1>13. x % 8 = 4 * c2 + 2 * c1 + c0
  <2> DEFINE M == 128 * q + 64 * b4 + 32 * b3 + 16 * b2 + 8 * b1 + 4 * b0 + 2 * c4 + c3
             r == 4 * c2 + 2 * c1 + c0
  <2>1. M \in Nat /\ r \in Nat /\ r < 8 /\ x = 8 * M + r
    BY <1>1, <1>3, <1>4
  <2> HIDE DEF M, r
  <2>2. x % 8 = r
    BY <2>1
  <2> QED BY <2>2 DEF r
<1>14. x % 16 = 8 * c3 + 4 * c2 + 2 * c1 + c0
  <2> DEFINE M == 64 * q + 32 * b4 + 16 * b3 + 8 * b2 + 4 * b1 + 2 * b0 + c4
             r == 8 * c3 + 4 * c2 + 2 * c1 + c0
  <2>1. M \in Nat /\ r \in Nat /\ r < 16 /\ x = 16 * M + r
    BY <1>1, <1>3, <1>4
  <2> HIDE DEF M, r
  <2>2. x % 16 = r
    BY <2>1
  <2> QED BY <2>2 DEF r
<1>15. x % 32 = 16 * c4 + 8 * c3 + 4 * c2 + 2 * c1 + c0
  <2> DEFINE M == 32 * q + 16 * b4 + 8 * b3 + 4 * b2 + 2 * b1 + b0
             r == 16 * c4 + 8 * c3 + 4 * c2 + 2 * c1 + c0
  <2>1. M \in Nat /\ r \in Nat /\ r < 32 /\ x = 32 * M + r
    BY <1>1, <1>3, <1>4
  <2> HIDE DEF M, r
  <2>2. x % 32 = r
    BY <2>1
  <2> QED BY <2>2 DEF r
<1>16. x % 64 = 32 * b0 + 16 * c4 + 8 * c3 + 4 * c2 + 2 * c1 + c0
  <2> DEFINE M == 16 * q + 8 * b4 + 4 * b3 + 2 * b2 + b1
             r == 32 * b0 + 16 * c4 + 8 * c3 + 4 * c2 + 2 * c1 + c0
  <2>1. M \in Nat /\ r \in Nat /\ r < 64 /\ x = 64 * M + r
    BY <1>1, <1>3, <1>4
  <2> HIDE DEF M, r
  <2>2. x % 64 = r
    BY <2>1
  <2> QED BY <2>2 DEF r
<1>17. x % 128 = 64 * b1 + 32 * b0 + 16 * c4 + 8 * c3 + 4 * c2 + 2 * c1 + c0
  <2> DEFINE M == 8 * q + 4 * b4 + 2 * b3 + b2
             r == 64 * b1 + 32 * b0 + 16 * c4 + 8 * c3 + 4 * c2 + 2 * c1 + c0
  <2>1. M \in Nat /\ r \in Nat /\ r < 128 /\ x = 128 * M + r
    BY <1>1, <1>3, <1>4
  <2> HIDE DEF M, r
  <2>2. x % 128 = r
    BY <2>1
  <2> QED BY <2>2 DEF r
<1> QED BY <1>5, <1>10, <1>11, <1>12, <1>13, <1>14, <1>15, <1>16, <1>17

(* The bits left over are zero if the accumulator has a zero there.        *)
LEMMA LeftOver ==
    ASSUME NEW x, NEW b, NEW c, Carries(x, b, c), NEW f, NEW a, Lowest(f, a, b, c),
           NEW d \in Nat, d <= 7
    PROVE  x % TwoTo[d] = 0 <=> \A t \in 0 .. d - 1 : f[t] = 0
<1>1. /\ x % 1 = 0
      /\ x % 2 = f[0]
      /\ x % 4 = 2 * f[1] + f[0]
      /\ x % 8 = 4 * f[2] + 2 * f[1] + f[0]
      /\ x % 16 = 8 * f[3] + 4 * f[2] + 2 * f[1] + f[0]
      /\ x % 32 = 16 * f[4] + 8 * f[3] + 4 * f[2] + 2 * f[1] + f[0]
      /\ x % 64 = 32 * f[5] + 16 * f[4] + 8 * f[3] + 4 * f[2] + 2 * f[1] + f[0]
      /\ x % 128 = 64 * f[6] + 32 * f[5] + 16 * f[4] + 8 * f[3] + 4 * f[2] + 2 * f[1] + f[0]
  BY LowestBits
<1> DEFINE p0 == f[0]  p1 == f[1]  p2 == f[2]  p3 == f[3]  p4 == f[4]  p5 == f[5]  p6 == f[6]
<1>2. p0 \in Nat /\ p1 \in Nat /\ p2 \in Nat /\ p3 \in Nat /\ p4 \in Nat /\ p5 \in Nat /\ p6 \in Nat
  <2>1. \A i \in 0 .. 4 : BitOf(b, i) \in Nat /\ BitOf(c, i) \in Nat
    <3>1. \A i \in 0 .. 4 : BitOf(b, i) \in {0, 1} /\ BitOf(c, i) \in {0, 1}
      BY WordBits DEF Carries
    <3> QED BY <3>1
  <2> QED BY <2>1 DEF Lowest
<1> HIDE DEF p0, p1, p2, p3, p4, p5, p6
<1>20. CASE d = 0
  <2>1. x % TwoTo[d] = x % 1
    BY <1>20, TwoToFacts
  <2>5. x % 1 = 0
    BY <1>1 DEF p0, p1, p2, p3, p4, p5, p6
  <2>2. x % 1 = 0 <=> TRUE
    BY <1>2, <2>5
  <2>3. 0 .. d - 1 = {}
    BY <1>20
  <2>4. (\A t \in 0 .. d - 1 : f[t] = 0) <=> TRUE
    BY <2>3 DEF p0, p1, p2, p3, p4, p5, p6
  <2> QED BY <2>1, <2>2, <2>4
<1>21. CASE d = 1
  <2>1. x % TwoTo[d] = x % 2
    BY <1>21, TwoToFacts
  <2>5. x % 2 = p0
    BY <1>1 DEF p0, p1, p2, p3, p4, p5, p6
  <2>2. x % 2 = 0 <=> p0 = 0
    BY <1>2, <2>5
  <2>3. 0 .. d - 1 = {0}
    BY <1>21
  <2>4. (\A t \in 0 .. d - 1 : f[t] = 0) <=> p0 = 0
    BY <2>3 DEF p0, p1, p2, p3, p4, p5, p6
  <2> QED BY <2>1, <2>2, <2>4
<1>22. CASE d = 2
  <2>1. x % TwoTo[d] = x % 4
    BY <1>22, TwoToFacts
  <2>5. x % 4 = 2 * p1 + p0
    BY <1>1 DEF p0, p1, p2, p3, p4, p5, p6
  <2>2. x % 4 = 0 <=> p0 = 0 /\ p1 = 0
    BY <1>2, <2>5
  <2>3. 0 .. d - 1 = {0, 1}
    BY <1>22
  <2>4. (\A t \in 0 .. d - 1 : f[t] = 0) <=> p0 = 0 /\ p1 = 0
    BY <2>3 DEF p0, p1, p2, p3, p4, p5, p6
  <2> QED BY <2>1, <2>2, <2>4
<1>23. CASE d = 3
  <2>1. x % TwoTo[d] = x % 8
    BY <1>23, TwoToFacts
  <2>5. x % 8 = 4 * p2 + 2 * p1 + p0
    BY <1>1 DEF p0, p1, p2, p3, p4, p5, p6
  <2>2. x % 8 = 0 <=> p0 = 0 /\ p1 = 0 /\ p2 = 0
    BY <1>2, <2>5
  <2>3. 0 .. d - 1 = {0, 1, 2}
    BY <1>23
  <2>4. (\A t \in 0 .. d - 1 : f[t] = 0) <=> p0 = 0 /\ p1 = 0 /\ p2 = 0
    BY <2>3 DEF p0, p1, p2, p3, p4, p5, p6
  <2> QED BY <2>1, <2>2, <2>4
<1>24. CASE d = 4
  <2>1. x % TwoTo[d] = x % 16
    BY <1>24, TwoToFacts
  <2>5. x % 16 = 8 * p3 + 4 * p2 + 2 * p1 + p0
    BY <1>1 DEF p0, p1, p2, p3, p4, p5, p6
  <2>2. x % 16 = 0 <=> p0 = 0 /\ p1 = 0 /\ p2 = 0 /\ p3 = 0
    BY <1>2, <2>5
  <2>3. 0 .. d - 1 = {0, 1, 2, 3}
    BY <1>24
  <2>4. (\A t \in 0 .. d - 1 : f[t] = 0) <=> p0 = 0 /\ p1 = 0 /\ p2 = 0 /\ p3 = 0
    BY <2>3 DEF p0, p1, p2, p3, p4, p5, p6
  <2> QED BY <2>1, <2>2, <2>4
<1>25. CASE d = 5
  <2>1. x % TwoTo[d] = x % 32
    BY <1>25, TwoToFacts
  <2>5. x % 32 = 16 * p4 + 8 * p3 + 4 * p2 + 2 * p1 + p0
    BY <1>1 DEF p0, p1, p2, p3, p4, p5, p6
  <2>2. x % 32 = 0 <=> p0 = 0 /\ p1 = 0 /\ p2 = 0 /\ p3 = 0 /\ p4 = 0
    BY <1>2, <2>5
  <2>3. 0 .. d - 1 = {0, 1, 2, 3, 4}
    BY <1>25
  <2>4. (\A t \in 0 .. d - 1 : f[t] = 0) <=> p0 = 0 /\ p1 = 0 /\ p2 = 0 /\ p3 = 0 /\ p4 = 0
    BY <2>3 DEF p0, p1, p2, p3, p4, p5, p6
  <2> QED BY <2>1, <2>2, <2>4
<1>26. CASE d = 6
  <2>1. x % TwoTo[d] = x % 64
    BY <1>26, TwoToFacts
  <2>5. x % 64 = 32 * p5 + 16 * p4 + 8 * p3 + 4 * p2 + 2 * p1 + p0
    BY <1>1 DEF p0, p1, p2, p3, p4, p5, p6
  <2>2. x % 64 = 0 <=> p0 = 0 /\ p1 = 0 /\ p2 = 0 /\ p3 = 0 /\ p4 = 0 /\ p5 = 0
    BY <1>2, <2>5
  <2>3. 0 .. d - 1 = {0, 1, 2, 3, 4, 5}
    BY <1>26
  <2>4. (\A t \in 0 .. d - 1 : f[t] = 0) <=> p0 = 0 /\ p1 = 0 /\ p2 = 0 /\ p3 = 0 /\ p4 = 0 /\ p5 = 0
    BY <2>3 DEF p0, p1, p2, p3, p4, p5, p6
  <2> QED BY <2>1, <2>2, <2>4
<1>27. CASE d = 7
  <2>1. x % TwoTo[d] = x % 128
    BY <1>27, TwoToFacts
  <2>5. x % 128 = 64 * p6 + 32 * p5 + 16 * p4 + 8 * p3 + 4 * p2 + 2 * p1 + p0
    BY <1>1 DEF p0, p1, p2, p3, p4, p5, p6
  <2>2. x % 128 = 0 <=> p0 = 0 /\ p1 = 0 /\ p2 = 0 /\ p3 = 0 /\ p4 = 0 /\ p5 = 0 /\ p6 = 0
    BY <1>2, <2>5
  <2>3. 0 .. d - 1 = {0, 1, 2, 3, 4, 5, 6}
    BY <1>27
  <2>4. (\A t \in 0 .. d - 1 : f[t] = 0) <=> p0 = 0 /\ p1 = 0 /\ p2 = 0 /\ p3 = 0 /\ p4 = 0 /\ p5 = 0 /\ p6 = 0
    BY <2>3 DEF p0, p1, p2, p3, p4, p5, p6
  <2> QED BY <2>1, <2>2, <2>4
<1>30. d = 0 \/ d = 1 \/ d = 2 \/ d = 3 \/ d = 4 \/ d = 5 \/ d = 6 \/ d = 7
  OBVIOUS
<1> QED BY <1>20, <1>21, <1>22, <1>23, <1>24, <1>25, <1>26, <1>27, <1>30

(* So it holds when all words are shifted in.                               *)
LEMMA PackedAll ==
    ASSUME NEW words \in Seq(Word)
    PROVE  PackedTo(words, Len(words))
<1> DEFINE n == Len(words)
           T == {i \in 0 .. n : PackedTo(words, i)}
<1>1. n \in Nat
  BY WordsFacts
<1>2. 0 \in T
  <2>1. Packing(words)[0] = [acc |-> 0, bits |-> 0, out |-> <<>>]
    BY <1>1, PackingFacts
  <2>2. Before(words, 0 - 1) = 0 /\ Before(words, 0) = 0 /\ 0 \in 0 .. n
    BY <1>1 DEF Before
  <2>3. Counts(0, 0, 0) /\ Carries(0, 0, 0)
    BY DEF Counts, Carries
  <2>4. Len(<<>>) = 0 /\ 1 .. 0 = {}
    OBVIOUS
  <2> QED BY <2>1, <2>2, <2>3, <2>4 DEF PackedTo
<1>3. ASSUME NEW i \in 1 .. n, i - 1 \in T PROVE i \in T
  <2>1. i \in 0 .. n
    BY <1>1
  <2> QED BY <1>3, <2>1, PackedStep
<1> HIDE DEF T
<1>4. 0 .. n \subseteq T
  BY <1>1, <1>2, <1>3, UpTo
<1> QED BY <1>1, <1>4 DEF T

(* What a message is turned into: its octets, if no bit that is left over  *)
(* is set.                                                                 *)
LEMMA OctetsOf ==
    ASSUME NEW words \in Seq(Word)
    PROVE  LET padded == \A i \in 8 * Len(Octets(words)) + 1 .. 5 * Len(words) : Bit(words, i) = 0
           IN  /\ Octets(words) \in Seq(Nat)
               /\ FiveBitToBytes(words) = IF padded THEN Octets(words) ELSE Invalid
<1> DEFINE n == Len(words)
           s == Packing(words)[n]
           l == Len(s.out)
           d == s.bits
           padded == \A i \in 8 * Len(Octets(words)) + 1 .. 5 * n : Bit(words, i) = 0
<1>1. n \in Nat /\ n \in 0 .. n
  BY WordsFacts
<1>2. s \in Turns
  BY <1>1, PackingFacts
<1>3. s.out \in Seq(Nat) /\ d \in 0 .. 7
  BY <1>2 DEF Turns
<1>4. /\ Counts(n, d, l) /\ Carries(s.acc, Before(words, n - 1), Before(words, n))
      /\ \A k \in 1 .. l : s.out[k] = Octets(words)[k]
  BY PackedAll DEF PackedTo
<1>5. Octets(words) = s.out
  <2>1. Octets(words) = [k \in 1 .. l |-> Octets(words)[k]]
    BY <1>4 DEF Octets, Counts
  <2>2. s.out = [k \in 1 .. l |-> s.out[k]]
    BY <1>3, LenProperties
  <2> QED BY <1>4, <2>1, <2>2
<1>6. Len(Octets(words)) = l
  BY <1>5
<1> HIDE DEF s
<1>7. FiveBitToBytes(words) = IF s.acc % TwoTo[d] # 0 THEN Invalid ELSE s.out
  BY DEF FiveBitToBytes, s
<1>8. s.acc % TwoTo[d] = 0 <=> padded
  <2> DEFINE f == [t \in 0 .. 11 |-> Back(words, n, t)]
  <2>1. \A t \in 0 .. 11 : f[t] = Back(words, n, t)
    OBVIOUS
  <2> HIDE DEF f
  <2>2. IsBack(f, words, n)
    BY <1>1, <2>1 DEF IsBack
  <2>3. Lowest(f, Before(words, n - 2), Before(words, n - 1), Before(words, n))
    BY <2>2, BackAt
  <2>4. d \in Nat /\ d <= 7
    BY <1>3
  <2> HIDE DEF d
  <2>5. s.acc % TwoTo[d] = 0 <=> \A t \in 0 .. d - 1 : f[t] = 0
    BY <1>4, <2>3, <2>4, LeftOver
  <2>6. d = (5 * n) % 8 /\ l = (5 * n) \div 8 /\ l \in Nat
    BY <1>4 DEF Counts
  <2> HIDE DEF l, n
  <2>7. 8 * l = 5 * n - d
    BY <1>1, <2>6
  <2>8. ASSUME NEW i \in 8 * l + 1 .. 5 * n
        PROVE  5 * n - i \in 0 .. d - 1 /\ Bit(words, i) = f[5 * n - i]
    <3>1. /\ 5 * n - i \in Nat /\ 5 * n - i <= d - 1 /\ i = 5 * n - (5 * n - i) /\ i > 0
          /\ 5 * n - i \in 0 .. 11 /\ n \in Int
      BY <1>1, <2>4, <2>6, <2>7
    <3>2. Bit(words, i) = Back(words, n, 5 * n - i)
      BY <3>1, BitBack
    <3> QED BY <2>1, <2>4, <3>1, <3>2
  <2>9. ASSUME NEW t \in 0 .. d - 1
        PROVE  5 * n - t \in 8 * l + 1 .. 5 * n /\ Bit(words, 5 * n - t) = f[t]
    <3>1. /\ t \in Nat /\ 5 * n - t \in Int /\ 8 * l + 1 <= 5 * n - t /\ 5 * n - t <= 5 * n
          /\ 5 * n - t > 0 /\ t \in 0 .. 11 /\ n \in Int
      BY <1>1, <2>4, <2>6, <2>7
    <3>2. Bit(words, 5 * n - t) = Back(words, n, t)
      BY <3>1, BitBack
    <3>3. 5 * n - t \in 8 * l + 1 .. 5 * n
      BY <1>1, <2>6, <3>1
    <3> QED BY <2>1, <3>1, <3>2, <3>3
  <2>10. padded <=> \A i \in 8 * l + 1 .. 5 * n : Bit(words, i) = 0
    BY <1>6 DEF n
  <2> HIDE DEF padded
  <2>11. (\A t \in 0 .. d - 1 : f[t] = 0) => padded
    BY <2>8, <2>10
  <2>12. padded => \A t \in 0 .. d - 1 : f[t] = 0
    BY <2>9, <2>10
  <2> QED BY <2>5, <2>11, <2>12
<1> QED BY <1>3, <1>5, <1>7, <1>8

Binary == {0, 1}

(* A byte of its eight bits.                                               *)
ByteFrom(a, b, c, d, e, f, g, h) ==
    128 * a + 64 * b + 32 * c + 16 * d + 8 * e + 4 * f + 2 * g + h

(* Eight bits make no more than a byte.                                    *)
LEMMA ByteType ==
    \A a, b, c, d, e, f, g, h \in Binary : ByteFrom(a, b, c, d, e, f, g, h) \in 0 .. 255
BY DEF ByteFrom, Binary

(* Octets are bytes.                                                       *)
LEMMA OctetsAreBytes == ASSUME NEW words \in Seq(Word) PROVE Octets(words) \in Seq(0 .. 255)
<1> DEFINE l == (5 * Len(words)) \div 8
<1>1. Len(words) \in Nat /\ \A i \in 1 .. Len(words) : words[i] \in Nat
  BY WordsFacts
<1>2. l \in Nat /\ 8 * l <= 5 * Len(words)
  BY <1>1
<1>3. ASSUME NEW i \in 1 .. 5 * Len(words) PROVE Bit(words, i) \in {0, 1}
  <2> DEFINE w == words[((i - 1) \div 5) + 1]
             t == 4 - ((i - 1) % 5)
  <2>1. ((i - 1) \div 5) + 1 \in 1 .. Len(words) /\ t \in 0 .. 4
    BY <1>1
  <2>2. w \in Nat
    BY <1>1, <2>1
  <2>3. t = 0 \/ t = 1 \/ t = 2 \/ t = 3 \/ t = 4
    BY <2>1
  <2>4. Bit(words, i) = (w \div TwoTo[t]) % 2
    BY DEF Bit
  <2> HIDE DEF w, t
  <2>5. /\ (w \div 1) % 2 \in {0, 1} /\ (w \div 2) % 2 \in {0, 1} /\ (w \div 4) % 2 \in {0, 1}
        /\ (w \div 8) % 2 \in {0, 1} /\ (w \div 16) % 2 \in {0, 1}
    BY <2>2
  <2> QED BY <2>3, <2>4, <2>5, TwoToFacts
<1> DEFINE bit(k, j) == Bit(words, 8 * (k - 1) + j)
           octet(k) == ByteFrom(bit(k, 1), bit(k, 2), bit(k, 3), bit(k, 4),
                                bit(k, 5), bit(k, 6), bit(k, 7), bit(k, 8))
           S == 0 .. 255
<1>4. Octets(words) = [k \in 1 .. l |-> octet(k)]
  BY DEF Octets, ByteFrom
<1> HIDE DEF l
<1>5. ASSUME NEW k \in 1 .. l PROVE octet(k) \in S
  <2>1. \A j \in 1 .. 8 : 8 * (k - 1) + j \in 1 .. 5 * Len(words)
    BY <1>1, <1>2
  <2>2. \A j \in 1 .. 8 : bit(k, j) \in Binary
    BY <1>3, <2>1 DEF Binary
  <2>3. /\ bit(k, 1) \in Binary /\ bit(k, 2) \in Binary /\ bit(k, 3) \in Binary
        /\ bit(k, 4) \in Binary /\ bit(k, 5) \in Binary /\ bit(k, 6) \in Binary
        /\ bit(k, 7) \in Binary /\ bit(k, 8) \in Binary
    BY <2>2
  <2> HIDE DEF bit
  <2> QED BY <2>3, ByteType DEF S
<1> HIDE DEF octet, S
<1>6. Octets(words) \in [1 .. l -> S]
  BY <1>4, <1>5
<1>7. Octets(words) \in UNION {[1 .. m -> S] : m \in Nat}
  BY <1>2, <1>6
<1>8. Octets(words) \in Seq(S)
  BY <1>7, SeqDef, Zenon
<1> QED BY <1>8 DEF S

(* A description is accepted exactly if its data is UTF-8, with nothing in *)
(* the bits that are left over, and it is the text the data spells         *)
(* (components/functions.rs:193-221,257-258).                              *)
THEOREM MessageExact ==
    ASSUME NEW words \in Seq(Word)
    PROVE  LET bytes == FiveBitToBytes(words)
           IN  IF bytes # Invalid /\ FromUtf8(bytes) # Invalid
               THEN IsText(words) /\ bytes = Octets(words) /\ bytes \in Strings
               ELSE ~IsText(words)
<1> DEFINE bytes == FiveBitToBytes(words)
           octets == Octets(words)
           padded == \A i \in 8 * Len(octets) + 1 .. 5 * Len(words) : Bit(words, i) = 0
<1>1. octets \in Seq(Nat) /\ bytes = IF padded THEN octets ELSE Invalid
  BY OctetsOf
<1>2. octets # Invalid
  BY <1>1, InvalidAssumption
<1>3. IsText(words) <=> IsUtf8(octets) /\ padded
  BY DEF IsText
<1>4. octets \in Seq(0 .. 255)
  BY OctetsAreBytes
<1> HIDE DEF padded, octets, bytes
<1>5. CASE padded /\ IsUtf8(octets)
  <2>1. bytes = octets /\ bytes # Invalid /\ FromUtf8(bytes) # Invalid /\ IsText(words)
    BY <1>1, <1>2, <1>3, <1>5 DEF FromUtf8
  <2>2. bytes \in Strings
    BY <1>4, <1>5, <2>1 DEF Strings
  <2> QED BY <2>1, <2>2 DEF octets, bytes
<1>6. CASE ~(padded /\ IsUtf8(octets))
  <2>1. ~IsText(words)
    BY <1>3, <1>6
  <2>2. ~(bytes # Invalid /\ FromUtf8(bytes) # Invalid)
    BY <1>1, <1>6 DEF FromUtf8
  <2> QED BY <2>1, <2>2 DEF bytes
<1> QED BY <1>5, <1>6

-----------------------------------------------------------------------------
(***************************************************************************)
(* The positions of the fields in the data.                                 *)
(***************************************************************************)

(* FlattenSeq of each prefix of a sequence is got from the one before.     *)
LEMMA FlattenSteps ==
    ASSUME NEW S, NEW s \in Seq(Seq(S))
    PROVE  \E g \in [0 .. Len(s) -> Seq(S)] :
                \A i \in 0 .. Len(s) :
                    /\ g[i] = IF i = 0 THEN <<>> ELSE g[i - 1] \o s[i]
                    /\ FlattenSeq(SubSeq(s, 1, i)) = g[i]
<1> DEFINE n == Len(s)
           step == [p \in Seq(S) \X (1 .. n) |-> p[1] \o s[p[2]]]
<1>1. n \in Nat /\ s \in [1 .. n -> Seq(S)]
  BY LenProperties
<1>2. \A v \in Seq(S) : \A k \in 1 .. n : s[k] \in Seq(S) /\ v \o s[k] \in Seq(S)
  <2>1. \A k \in 1 .. n : s[k] \in Seq(S)
    BY <1>1
  <2> QED BY <2>1, ConcatProperties
<1> HIDE DEF n
<1>3. step \in [Seq(S) \X (1 .. n) -> Seq(S)]
  BY <1>2
<1>4. \A v \in Seq(S) : \A k \in 1 .. n : step[<<v, k>>] = v \o s[k]
  OBVIOUS
<1> HIDE DEF step
<1>5. PICK g \in [0 .. n -> Seq(S)] :
            \A k \in 0 .. n : g[k] = IF k = 0 THEN <<>> ELSE step[<<g[k - 1], k>>]
  <2>1. <<>> \in Seq(S)
    OBVIOUS
  <2>2. Iterable(n, Seq(S), <<>>, step)
    BY <1>1, <1>3, <2>1, IterationExists
  <2> QED BY <2>2 DEF Iterable
<1>6. ASSUME NEW k \in 0 .. n PROVE g[k] = IF k = 0 THEN <<>> ELSE g[k - 1] \o s[k]
  <2>1. CASE k = 0
    BY <1>5, <2>1
  <2>2. CASE k # 0
    <3>1. k - 1 \in 0 .. n /\ k \in 1 .. n
      BY <1>1, <2>2
    <3>2. g[k - 1] \in Seq(S)
      BY <3>1
    <3> QED BY <1>4, <1>5, <2>2, <3>1, <3>2
  <2> QED BY <2>1, <2>2
<1>8. g[0] = <<>> /\ 1 - 1 = 0
  <2>1. 0 \in 0 .. n
    BY <1>1
  <2>2. g[0] = <<>>
    BY <1>6, <2>1
  <2>3. 1 - 1 = 0
    OBVIOUS
  <2> QED BY <2>2, <2>3
<1>7. ASSUME NEW i \in 0 .. n PROVE FlattenSeq(SubSeq(s, 1, i)) = g[i]
  <2> DEFINE p == SubSeq(s, 1, i)
             D == 1 .. i
  <2>1. i \in Nat /\ i <= n
    BY <1>1
  <2>2. p \in Seq(Seq(S)) /\ Len(p) = i /\ \A k \in D : p[k] = s[k]
    <3>1. \A k \in 1 .. i : s[k] \in Seq(S)
      BY <1>1, <2>1
    <3>2. /\ p \in Seq(Seq(S)) /\ Len(p) = (IF 1 <= i THEN i - 1 + 1 ELSE 0)
          /\ \A k \in 1 .. i - 1 + 1 : p[k] = s[1 + k - 1]
      BY <2>1, <3>1, SubSeqProperties
    <3>3. i - 1 + 1 = i /\ \A k \in D : 1 + k - 1 = k
      BY <2>1
    <3> QED BY <2>1, <3>2, <3>3
  <2>3. CASE i = 0
    <3>1. p = <<>>
      BY <2>2, <2>3, EmptySeq
    <3> QED BY <1>6, <2>2, <2>3, <3>1 DEF FlattenSeq
  <2>4. CASE i # 0
    <3> DEFINE flatten == CHOOSE f : f = [k \in 1 .. Len(p) |-> IF k = 1 THEN p[k] ELSE f[k - 1] \o p[k]]
    <3>1. FlattenSeq(p) = flatten[i]
      BY <2>2, <2>4 DEF FlattenSeq
    <3> DEFINE h == [k \in D |-> g[k]]
    <3>2. h = [k \in 1 .. Len(p) |-> IF k = 1 THEN p[k] ELSE h[k - 1] \o p[k]]
      <4>1. ASSUME NEW k \in D PROVE h[k] = IF k = 1 THEN p[k] ELSE h[k - 1] \o p[k]
        <5>1. k \in 0 .. n /\ k # 0 /\ k \in 1 .. n /\ s[k] \in Seq(S)
          BY <1>1, <2>1
        <5>2. h[k] = g[k - 1] \o s[k] /\ p[k] = s[k]
          BY <1>6, <2>2, <5>1
        <5>3. CASE k = 1
          <6>1. g[k - 1] = <<>>
            BY <1>8, <5>3
          <6>2. <<>> \o s[k] = s[k]
            BY <5>1, ConcatEmptySeq
          <6> QED BY <5>2, <5>3, <6>1, <6>2
        <5>4. CASE k # 1
          <6>1. k - 1 \in D
            BY <2>1, <5>4
          <6> QED BY <5>2, <5>4, <6>1
        <5> QED BY <5>3, <5>4
      <4> HIDE DEF p
      <4> QED BY <2>2, <4>1
    <3>3. flatten = [k \in D |-> IF k = 1 THEN p[k] ELSE flatten[k - 1] \o p[k]]
      <4> HIDE DEF p, h
      <4> QED BY <2>2, <3>2
    <3> HIDE DEF flatten
    <3>4. \A k \in D : flatten[k] = IF k = 1 THEN p[k] ELSE flatten[k - 1] \o p[k]
      BY <3>3
    <3> DEFINE T == {k \in 0 .. i : k # 0 => flatten[k] = g[k]}
    <3>5. 0 \in T
      BY <2>1
    <3>6. ASSUME NEW k \in 1 .. i, k - 1 \in T PROVE k \in T
      <4>1. k \in 0 .. i /\ k # 0 /\ k \in 0 .. n /\ k \in 1 .. n /\ s[k] \in Seq(S) /\ p[k] = s[k]
        BY <1>1, <2>1, <2>2
      <4>2. g[k] = g[k - 1] \o s[k]
        BY <1>6, <4>1
      <4>3. CASE k = 1
        <5>1. g[k - 1] = <<>>
          BY <1>8, <4>3
        <5>2. <<>> \o s[k] = s[k]
          BY <4>1, ConcatEmptySeq
        <5> QED BY <3>4, <4>1, <4>2, <4>3, <5>1, <5>2
      <4>4. CASE k # 1
        <5>1. k - 1 # 0
          BY <2>1, <4>4
        <5> QED BY <3>4, <3>6, <4>1, <4>2, <4>4, <5>1
      <4> QED BY <4>3, <4>4
    <3> HIDE DEF T
    <3>7. 0 .. i \subseteq T
      BY <2>1, <3>5, <3>6, UpTo
    <3>8. flatten[i] = g[i]
      BY <2>1, <2>4, <3>7 DEF T
    <3> QED BY <3>1, <3>8
  <2> QED BY <2>3, <2>4
<1> QED BY <1>6, <1>7 DEF n

(* A field as it is encoded.                                               *)
Piece(field) ==
    <<field.tag, Len(field.data) \div 32, Len(field.data) % 32>> \o field.data

(* Its tag, the two words of its length, its data.                          *)
LEMMA PieceFacts ==
    ASSUME NEW field \in TaggedFields
    PROVE  /\ Piece(field) \in Seq(Word) /\ Len(Piece(field)) = 3 + Len(field.data)
           /\ Piece(field)[1] = field.tag
           /\ Piece(field)[2] * 32 + Piece(field)[3] = Len(field.data)
           /\ \A k \in 1 .. Len(field.data) : Piece(field)[3 + k] = field.data[k]
           /\ field.data \in Seq(Word) /\ Len(field.data) \in Nat /\ field.tag \in Word
<1> DEFINE data == field.data
           l == Len(data)
           head == <<field.tag, l \div 32, l % 32>>
<1>1. field.tag \in Word /\ data \in Seq(Word) /\ l < 1024
  BY DEF TaggedFields
<1>2. l \in Nat
  BY <1>1, LenProperties
<1>3. l \div 32 \in Word /\ l % 32 \in Word /\ (l \div 32) * 32 + (l % 32) = l
  <2> HIDE DEF l
  <2> QED BY <1>1, <1>2 DEF Word
<1> HIDE DEF l
<1>4. head \in Seq(Word) /\ Len(head) = 3
  BY <1>1, <1>3
<1>5. head[1] = field.tag /\ head[2] = l \div 32 /\ head[3] = l % 32
  OBVIOUS
<1> HIDE DEF head, data
<1>6. /\ head \o data \in Seq(Word) /\ Len(head \o data) = 3 + Len(data)
      /\ \A i \in 1 .. 3 + Len(data) : (head \o data)[i] = IF i <= 3 THEN head[i] ELSE data[i - 3]
  <2>1. /\ head \o data \in Seq(Word) /\ Len(head \o data) = Len(head) + Len(data)
        /\ \A i \in 1 .. Len(head) + Len(data) :
                (head \o data)[i] = IF i <= Len(head) THEN head[i] ELSE data[i - Len(head)]
    BY <1>1, <1>4, ConcatProperties
  <2> QED BY <1>4, <2>1
<1>7. Len(data) = l
  BY DEF l
<1>8. \A k \in 1 .. l : (head \o data)[3 + k] = data[k]
  <2>1. \A k \in 1 .. l : 3 + k \in 1 .. 3 + l /\ ~(3 + k <= 3) /\ (3 + k) - 3 = k
    BY <1>2
  <2> QED BY <1>6, <1>7, <2>1
<1>9. /\ (head \o data)[1] = head[1] /\ (head \o data)[2] = head[2] /\ (head \o data)[3] = head[3]
  BY <1>2, <1>6, <1>7
<1>10. Piece(field) = head \o data
  BY DEF Piece, head, data, l
<1> DEFINE p == Piece(field)
<1>11. p \in Seq(Word) /\ Len(p) = 3 + l /\ p[1] = field.tag
  BY <1>5, <1>6, <1>7, <1>9, <1>10
<1>12. p[2] * 32 + p[3] = l
  BY <1>3, <1>5, <1>9, <1>10
<1>13. \A k \in 1 .. l : p[3 + k] = data[k]
  BY <1>8, <1>10
<1> HIDE DEF p
<1>14. l = Len(field.data) /\ data = field.data
  BY DEF l, data
<1> QED BY <1>1, <1>2, <1>11, <1>12, <1>13, <1>14 DEF p

(* The encoding of the first fields.                                       *)
Prefix(fields, i) == Encode(SubSeq(fields, 1, i))

(* The encoding of one field more is the same with that field at its end.   *)
LEMMA PrefixFacts ==
    ASSUME NEW fields \in Seq(TaggedFields)
    PROVE  /\ Prefix(fields, Len(fields)) = Encode(fields)
           /\ Len(fields) \in Nat /\ \A i \in 1 .. Len(fields) : fields[i] \in TaggedFields
           /\ \A i \in 0 .. Len(fields) :
                /\ Prefix(fields, i) \in Seq(Word)
                /\ Prefix(fields, i) = IF i = 0 THEN <<>>
                                       ELSE Prefix(fields, i - 1) \o Piece(fields[i])
<1> DEFINE n == Len(fields)
           s == [i \in 1 .. n |-> Piece(fields[i])]
<1>1. n \in Nat /\ fields \in [1 .. n -> TaggedFields]
  BY LenProperties
<1>2. \A i \in 1 .. n : fields[i] \in TaggedFields
  BY <1>1
<1>3. s \in Seq(Seq(Word)) /\ Len(s) = n /\ \A i \in 1 .. n : s[i] = Piece(fields[i])
  <2>1. \A i \in 1 .. n : Piece(fields[i]) \in Seq(Word)
    BY <1>2, PieceFacts
  <2> HIDE DEF n
  <2>2. s \in [1 .. n -> Seq(Word)]
    BY <2>1
  <2> HIDE DEF s
  <2>3. s \in Seq(Seq(Word)) /\ DOMAIN s = 1 .. n
    BY <1>1, <2>2, SeqDef
  <2>4. Len(s) = n
    BY <1>1, <2>3, LenProperties
  <2> QED BY <2>3, <2>4 DEF s
<1> HIDE DEF s
<1>4. PICK g \in [0 .. n -> Seq(Word)] :
        \A i \in 0 .. n : /\ g[i] = IF i = 0 THEN <<>> ELSE g[i - 1] \o s[i]
                          /\ FlattenSeq(SubSeq(s, 1, i)) = g[i]
  BY <1>3, FlattenSteps
<1>5. ASSUME NEW i \in 0 .. n PROVE Prefix(fields, i) = g[i]
  <2> DEFINE f == SubSeq(fields, 1, i)
             p == [k \in DOMAIN f |->
                    LET data == f[k].data IN <<f[k].tag, Len(data) \div 32, Len(data) % 32>> \o data]
             q == SubSeq(s, 1, i)
  <2>1. i \in Nat /\ i <= n
    BY <1>1
  <2>2. DOMAIN f = 1 .. i /\ \A k \in 1 .. i : f[k] = fields[k]
    BY <1>1, <2>1
  <2>3. q = [k \in 1 .. i |-> s[k]]
    BY <1>3, <2>1
  <2>4. p = [k \in 1 .. i |-> Piece(f[k])]
    BY <2>2, Zenon DEF Piece
  <2>5. \A k \in 1 .. i : Piece(f[k]) = s[k]
    BY <1>3, <2>1, <2>2
  <2>6. p = q
    BY <2>3, <2>4, <2>5
  <2>7. Prefix(fields, i) = FlattenSeq(p)
    BY Zenon DEF Prefix, Encode
  <2> QED BY <1>4, <2>6, <2>7
<1>6. Prefix(fields, n) = Encode(fields)
  BY SubSeqFull DEF Prefix
<1>7. ASSUME NEW i \in 0 .. n
      PROVE  Prefix(fields, i) = IF i = 0 THEN <<>> ELSE Prefix(fields, i - 1) \o Piece(fields[i])
  <2>1. i # 0 => i - 1 \in 0 .. n /\ i \in 1 .. n
    BY <1>1
  <2> QED BY <1>3, <1>4, <1>5, <2>1
<1> QED BY <1>1, <1>2, <1>5, <1>6, <1>7

(* Where the field after the first i ones begins.                          *)
At(fields, i) == 8 + Len(Prefix(fields, i))

(* A field begins where the one before it ends.                             *)
LEMMA AtFacts ==
    ASSUME NEW fields \in Seq(TaggedFields)
    PROVE  /\ At(fields, 0) = 8
           /\ \A i \in 0 .. Len(fields) : At(fields, i) \in Nat /\ At(fields, i) >= 8
           /\ \A i \in 1 .. Len(fields) :
                At(fields, i) = At(fields, i - 1) + 3 + Len(fields[i].data)
<1> DEFINE n == Len(fields)
<1>1. n \in Nat /\ 0 \in 0 .. n
  BY PrefixFacts
<1> HIDE DEF n
<1>2. Prefix(fields, 0) = <<>>
  BY <1>1, PrefixFacts DEF n
<1>3. \A i \in 0 .. n : Prefix(fields, i) \in Seq(Word) /\ Len(Prefix(fields, i)) \in Nat
  BY PrefixFacts, LenProperties DEF n
<1>4. ASSUME NEW i \in 1 .. n
      PROVE  At(fields, i) = At(fields, i - 1) + 3 + Len(fields[i].data)
  <2>1. i \in 0 .. n /\ i - 1 \in 0 .. n /\ i # 0
    BY <1>1
  <2>2. fields[i] \in TaggedFields
    BY PrefixFacts DEF n
  <2>3. /\ Piece(fields[i]) \in Seq(Word) /\ Len(Piece(fields[i])) = 3 + Len(fields[i].data)
        /\ Len(fields[i].data) \in Nat
    BY <2>2, PieceFacts
  <2>4. Prefix(fields, i) = Prefix(fields, i - 1) \o Piece(fields[i])
    BY <2>1, PrefixFacts DEF n
  <2>5. Len(Prefix(fields, i)) = Len(Prefix(fields, i - 1)) + Len(Piece(fields[i]))
    BY <1>3, <2>1, <2>3, <2>4, ConcatProperties
  <2>6. /\ At(fields, i) = 8 + Len(Prefix(fields, i))
        /\ At(fields, i - 1) = 8 + Len(Prefix(fields, i - 1))
    BY DEF At
  <2> DEFINE a == Len(Prefix(fields, i - 1))
             b == Len(fields[i].data)
  <2>7. a \in Nat /\ b \in Nat
    BY <1>3, <2>1, <2>3
  <2>8. Len(Prefix(fields, i)) = a + (3 + b)
    BY <2>3, <2>5
  <2>9. At(fields, i) = 8 + (a + (3 + b)) /\ At(fields, i - 1) = 8 + a
    BY <2>6, <2>8
  <2> HIDE DEF a, b
  <2>10. At(fields, i) = At(fields, i - 1) + 3 + b
    BY <2>7, <2>9
  <2> QED BY <2>10 DEF b
<1>5. ASSUME NEW i \in 0 .. n PROVE At(fields, i) \in Nat /\ At(fields, i) >= 8
  <2>1. Len(Prefix(fields, i)) \in Nat
    BY <1>3
  <2> QED BY <2>1 DEF At
<1>6. At(fields, 0) = 8
  <2>1. Len(Prefix(fields, 0)) = 0
    BY <1>2, EmptySeq
  <2> QED BY <2>1 DEF At
<1> QED BY <1>4, <1>5, <1>6 DEF n

(* Fields begin one after the other.                                       *)
LEMMA AtGrows ==
    ASSUME NEW fields \in Seq(TaggedFields), NEW i \in 0 .. Len(fields), NEW j \in 0 .. Len(fields), i < j
    PROVE  At(fields, i) + 3 <= At(fields, j)
<1> DEFINE n == Len(fields)
           at(k) == At(fields, k)
           T == {k \in 0 .. n : i < k => at(i) + 3 <= at(k)}
<1>1. n \in Nat
  BY PrefixFacts
<1>2. 0 \in T
  BY <1>1
<1>3. ASSUME NEW k \in 1 .. n, k - 1 \in T PROVE k \in T
  <2>1. k \in 0 .. n /\ k - 1 \in 0 .. n /\ i \in 0 .. n
    BY <1>1
  <2>2. at(k) = at(k - 1) + 3 + Len(fields[k].data) /\ Len(fields[k].data) \in Nat
    BY AtFacts, PrefixFacts, PieceFacts
  <2>3. at(k) \in Nat /\ at(k - 1) \in Nat /\ at(i) \in Nat
    BY <2>1, AtFacts
  <2>4. i < k - 1 => at(i) + 3 <= at(k - 1)
    BY <1>3
  <2> HIDE DEF at
  <2>5. i = k - 1 => at(i) = at(k - 1)
    OBVIOUS
  <2>6. i < k => i < k - 1 \/ i = k - 1
    BY <2>1
  <2>7. i < k => at(i) + 3 <= at(k)
    BY <2>2, <2>3, <2>4, <2>5, <2>6
  <2> QED BY <2>1, <2>7
<1> HIDE DEF T, n
<1>4. 0 .. n \subseteq T
  BY <1>1, <1>2, <1>3, UpTo
<1> QED BY <1>4 DEF T, n

(* The data up to there.                                                   *)
Full(stamp, fields, i) == stamp \o Prefix(fields, i)

(* The timestamp is a sequence of seven words.                              *)
LEMMA StampFacts ==
    ASSUME NEW stamp \in [1 .. 7 -> Word]
    PROVE  stamp \in Seq(Word) /\ Len(stamp) = 7
<1>1. stamp \in Seq(Word) /\ DOMAIN stamp = 1 .. 7
  <2>1. 7 \in Nat
    OBVIOUS
  <2> QED BY <2>1, SeqDef
<1>2. Len(stamp) \in Nat /\ 1 .. Len(stamp) = 1 .. 7
  BY <1>1, LenProperties
<1> QED BY <1>1, <1>2

(* Joining sequences of words is associative.                               *)
LEMMA WordsAssociative ==
    ASSUME NEW s \in Seq(Word), NEW t \in Seq(Word), NEW u \in Seq(Word)
    PROVE  (s \o t) \o u = s \o (t \o u)
BY ConcatAssociative, SMT

(* The data with one field more.                                            *)
LEMMA FullFacts ==
    ASSUME NEW stamp \in [1 .. 7 -> Word], NEW fields \in Seq(TaggedFields)
    PROVE  /\ \A i \in 0 .. Len(fields) :
                Full(stamp, fields, i) \in Seq(Word) /\ Len(Full(stamp, fields, i)) = At(fields, i) - 1
           /\ \A i \in 1 .. Len(fields) :
                Full(stamp, fields, i) = Full(stamp, fields, i - 1) \o Piece(fields[i])
<1> DEFINE n == Len(fields)
<1>1. stamp \in Seq(Word) /\ Len(stamp) = 7
  BY StampFacts
<1>2. n \in Nat /\ \A i \in 0 .. n : Prefix(fields, i) \in Seq(Word)
  BY PrefixFacts
<1> HIDE DEF n
<1>3. ASSUME NEW i \in 0 .. n
      PROVE  Full(stamp, fields, i) \in Seq(Word) /\ Len(Full(stamp, fields, i)) = At(fields, i) - 1
  <2>1. Prefix(fields, i) \in Seq(Word) /\ Len(Prefix(fields, i)) \in Nat
    BY <1>2, LenProperties
  <2>2. /\ Full(stamp, fields, i) \in Seq(Word)
        /\ Len(Full(stamp, fields, i)) = Len(stamp) + Len(Prefix(fields, i))
    BY <1>1, <2>1, ConcatProperties DEF Full
  <2> QED BY <1>1, <2>1, <2>2 DEF At
<1>4. ASSUME NEW i \in 1 .. n
      PROVE  Full(stamp, fields, i) = Full(stamp, fields, i - 1) \o Piece(fields[i])
  <2>1. i \in 0 .. n /\ i - 1 \in 0 .. n /\ i # 0
    BY <1>2
  <2>2. Prefix(fields, i) = Prefix(fields, i - 1) \o Piece(fields[i])
    BY <2>1, PrefixFacts DEF n
  <2>3. Piece(fields[i]) \in Seq(Word)
    BY PrefixFacts, PieceFacts DEF n
  <2>4. Prefix(fields, i - 1) \in Seq(Word)
    BY <1>2, <2>1
  <2>5. (stamp \o Prefix(fields, i - 1)) \o Piece(fields[i]) = stamp \o (Prefix(fields, i - 1) \o Piece(fields[i]))
    <3> DEFINE s == stamp
               t == Prefix(fields, i - 1)
               u == Piece(fields[i])
    <3>1. s \in Seq(Word)
      BY <1>1
    <3>2. t \in Seq(Word)
      BY <2>4
    <3>3. u \in Seq(Word)
      BY <2>3
    <3> HIDE DEF s, t, u
    <3>4. (s \o t) \o u = s \o (t \o u)
      BY <3>1, <3>2, <3>3, WordsAssociative
    <3> QED BY <3>4 DEF s, t, u
  <2>6. Full(stamp, fields, i) = stamp \o Prefix(fields, i)
    BY DEF Full
  <2>7. Full(stamp, fields, i - 1) = stamp \o Prefix(fields, i - 1)
    BY DEF Full
  <2> QED BY <2>2, <2>5, <2>6, <2>7
<1> QED BY <1>3, <1>4 DEF n

(* More fields leave what comes before them as it is.                      *)
LEMMA FullGrows ==
    ASSUME NEW stamp \in [1 .. 7 -> Word], NEW fields \in Seq(TaggedFields),
           NEW i \in 0 .. Len(fields), NEW j \in 0 .. Len(fields), i <= j,
           NEW p \in Nat, p > 0, p < At(fields, i)
    PROVE  Full(stamp, fields, j)[p] = Full(stamp, fields, i)[p]
<1> DEFINE n == Len(fields)
           full(k) == Full(stamp, fields, k)
           T == {k \in 0 .. n : i <= k => full(k)[p] = full(i)[p] /\ p < At(fields, k)}
<1>1. n \in Nat /\ i \in 0 .. n /\ i \in Nat
  BY PrefixFacts
<1>2. 0 \in T
  BY <1>1
<1>3. ASSUME NEW k \in 1 .. n, k - 1 \in T PROVE k \in T
  <2>1. k \in 0 .. n /\ k - 1 \in 0 .. n
    BY <1>1
  <2>2. CASE i = k
    BY <2>1, <2>2
  <2>3. CASE k < i
    BY <1>1, <2>1, <2>3
  <2>4. CASE i < k
    <3>1. i <= k - 1
      BY <1>1, <2>1, <2>4
    <3>2. full(k - 1)[p] = full(i)[p] /\ p < At(fields, k - 1)
      BY <1>3, <3>1
    <3>3. full(k) = full(k - 1) \o Piece(fields[k]) /\ full(k - 1) \in Seq(Word)
          /\ Len(full(k - 1)) = At(fields, k - 1) - 1
      BY <2>1, FullFacts
    <3>4. /\ Piece(fields[k]) \in Seq(Word) /\ Len(Piece(fields[k])) = 3 + Len(fields[k].data)
          /\ Len(fields[k].data) \in Nat
      BY PrefixFacts, PieceFacts
    <3>5. At(fields, k - 1) \in Nat /\ At(fields, k) = At(fields, k - 1) + 3 + Len(fields[k].data)
      BY <2>1, AtFacts
    <3>6. p \in 1 .. Len(full(k - 1)) + Len(Piece(fields[k])) /\ p <= Len(full(k - 1)) /\ p < At(fields, k)
      <4> DEFINE a == At(fields, k - 1)
                 b == Len(fields[k].data)
                 u == Len(full(k - 1))
                 v == Len(Piece(fields[k]))
                 z == At(fields, k)
      <4>1. a \in Nat /\ b \in Nat /\ u = a - 1 /\ v = 3 + b /\ z = a + 3 + b /\ p < a
        BY <3>2, <3>3, <3>4, <3>5
      <4> HIDE DEF a, b, u, v, z
      <4>2. p \in 1 .. u + v /\ p <= u /\ p < z
        BY <4>1
      <4> QED BY <4>2 DEF u, v, z
    <3>7. full(k)[p] = full(k - 1)[p]
      <4> DEFINE u == full(k - 1)
                 v == Piece(fields[k])
      <4>1. u \in Seq(Word) /\ v \in Seq(Word) /\ p \in 1 .. Len(u) + Len(v) /\ p <= Len(u)
        BY <3>3, <3>4, <3>6
      <4>2. full(k) = u \o v
        BY <3>3
      <4> HIDE DEF u, v
      <4>3. (u \o v)[p] = u[p]
        BY <4>1, ConcatProperties
      <4>4. full(k)[p] = u[p]
        BY <4>2, <4>3
      <4> QED BY <4>4 DEF u
    <3> QED BY <2>1, <3>2, <3>6, <3>7
  <2>5. i = k \/ k < i \/ i < k
    BY <1>1, <2>1
  <2> QED BY <2>2, <2>3, <2>4, <2>5
<1> HIDE DEF T, n
<1>4. 0 .. n \subseteq T
  BY <1>1, <1>2, <1>3, UpTo
<1> QED BY <1>4 DEF T, n

(* The data of a request that is composed of fields and cut short.         *)
Composed(stamp, fields, cut, words) ==
    /\ stamp \in [1 .. 7 -> Word] /\ fields \in Seq(TaggedFields)
    /\ cut \in 0 .. 7 + Len(Encode(fields))
    /\ words = Compose(stamp, fields, cut)

(* Nothing but its end is missing.                                         *)
LEMMA ComposedFacts ==
    ASSUME NEW stamp, NEW fields, NEW cut, NEW words, Composed(stamp, fields, cut, words)
    PROVE  /\ words \in Seq(Word) /\ Len(words) \in Nat
           /\ Len(words) < At(fields, Len(fields))
           /\ \A p \in 1 .. Len(words) : words[p] = Full(stamp, fields, Len(fields))[p]
<1> DEFINE m == Len(fields)
           all == Full(stamp, fields, m)
           l == Len(all)
<1>1. /\ stamp \in [1 .. 7 -> Word] /\ fields \in Seq(TaggedFields)
      /\ cut \in 0 .. 7 + Len(Encode(fields)) /\ words = Compose(stamp, fields, cut)
  BY DEF Composed
<1>2. m \in Nat /\ m \in 0 .. m /\ Prefix(fields, m) = Encode(fields)
  BY <1>1, PrefixFacts
<1>3. all = stamp \o Encode(fields)
  BY <1>2 DEF Full
<1>4. all \in Seq(Word) /\ l = At(fields, m) - 1 /\ At(fields, m) = 8 + Len(Encode(fields))
  BY <1>1, <1>2, FullFacts DEF At
<1>5. Len(Encode(fields)) \in Nat
  BY <1>1, <1>2, PrefixFacts, LenProperties
<1>6. l \in Nat /\ cut \in Nat /\ cut <= l /\ l < At(fields, m)
  <2> DEFINE e == Len(Encode(fields))
  <2>1. e \in Nat /\ l = (8 + e) - 1 /\ cut \in 0 .. 7 + e /\ At(fields, m) = 8 + e
    BY <1>1, <1>4, <1>5
  <2> HIDE DEF e, l
  <2> QED BY <2>1
<1>7. words = SubSeq(all, 1, l - cut)
  BY <1>1, <1>3 DEF Compose
<1> HIDE DEF all
<1>8. all \in Seq(Word) /\ \A i \in 1 .. l : all[i] \in Word
  BY <1>4, LenProperties
<1> DEFINE k == l - cut
<1>9. k \in Nat /\ k <= l
  BY <1>6
<1>10. words = SubSeq(all, 1, k)
  BY <1>7
<1> HIDE DEF k, l
<1>11. /\ words \in Seq(Word) /\ Len(words) = k
       /\ \A i \in 1 .. k : words[i] = all[i]
  <2>1. \A i \in 1 .. k : all[i] \in Word
    BY <1>6, <1>8, <1>9
  <2>2. /\ SubSeq(all, 1, k) \in Seq(Word)
        /\ Len(SubSeq(all, 1, k)) = (IF 1 <= k THEN k - 1 + 1 ELSE 0)
        /\ \A i \in 1 .. k - 1 + 1 : SubSeq(all, 1, k)[i] = all[1 + i - 1]
    BY <1>9, <2>1, SubSeqProperties
  <2>3. k - 1 + 1 = k /\ \A i \in 1 .. k : 1 + i - 1 = i
    BY <1>9
  <2> QED BY <1>9, <1>10, <2>2, <2>3
<1>12. k < At(fields, m)
  <2>1. At(fields, m) \in Nat
    BY <1>1, <1>2, AtFacts
  <2> QED BY <1>6, <1>9, <2>1
<1> QED BY <1>9, <1>11, <1>12 DEF all, m

(* Whatever of a field is there is where it was put.                       *)
LEMMA FieldAt ==
    ASSUME NEW stamp, NEW fields, NEW cut, NEW words, Composed(stamp, fields, cut, words),
           NEW n \in 1 .. Len(fields), NEW q \in 1 .. 3 + Len(fields[n].data),
           At(fields, n - 1) + q <= Len(words) + 1
    PROVE  words[At(fields, n - 1) + q - 1] = Piece(fields[n])[q]
<1> DEFINE m == Len(fields)
           a == At(fields, n - 1)
           z == At(fields, n)
           d == Len(fields[n].data)
           p == a + q - 1
           u == Full(stamp, fields, n - 1)
           v == Piece(fields[n])
<1>1. stamp \in [1 .. 7 -> Word] /\ fields \in Seq(TaggedFields)
  BY DEF Composed
<1>2. m \in Nat /\ n \in 0 .. m /\ n - 1 \in 0 .. m /\ m \in 0 .. m /\ n <= m
  BY <1>1, PrefixFacts
<1>3. v \in Seq(Word) /\ Len(v) = 3 + d /\ d \in Nat
  BY <1>1, PrefixFacts, PieceFacts
<1>4. a \in Nat /\ a >= 8 /\ z = a + 3 + d
  BY <1>1, <1>2, AtFacts
<1>5. u \in Seq(Word) /\ Len(u) = a - 1 /\ Full(stamp, fields, n) = u \o v
  BY <1>1, <1>2, FullFacts
<1>6. /\ p \in Nat /\ p > 0 /\ p < z /\ p \in 1 .. Len(words) /\ q \in Nat
      /\ p \in 1 .. Len(u) + Len(v) /\ ~(p <= Len(u)) /\ p - Len(u) = q
  <2> DEFINE l == Len(words)
             lu == Len(u)
             lv == Len(v)
  <2>1. l \in Nat /\ lu = a - 1 /\ lv = 3 + d /\ q \in 1 .. 3 + d /\ a + q <= l + 1
    BY <1>3, <1>5, ComposedFacts
  <2> HIDE DEF l, lu, lv, a, z, d
  <2>2. /\ p \in Nat /\ p > 0 /\ p < z /\ p \in 1 .. l /\ q \in Nat
        /\ p \in 1 .. lu + lv /\ ~(p <= lu) /\ p - lu = q
    BY <1>3, <1>4, <2>1
  <2> QED BY <2>2 DEF l, lu, lv
<1>7. words[p] = Full(stamp, fields, m)[p]
  <2> HIDE DEF p
  <2> QED BY <1>6, ComposedFacts DEF m
<1>8. Full(stamp, fields, m)[p] = Full(stamp, fields, n)[p]
  <2> HIDE DEF p
  <2> QED BY <1>1, <1>2, <1>6, FullGrows
<1> HIDE DEF p, u, v
<1>9. (u \o v)[p] = v[q]
  <2>1. (u \o v)[p] = v[p - Len(u)]
    BY <1>3, <1>5, <1>6, ConcatProperties
  <2> QED BY <1>6, <2>1
<1> QED BY <1>5, <1>7, <1>8, <1>9 DEF p, v

(* The data is nothing but whole fields if it ends where one of them does. *)
LEMMA WholeAt ==
    ASSUME NEW stamp, NEW fields, NEW cut, NEW words, Composed(stamp, fields, cut, words),
           NEW n \in 0 .. Len(fields)
    PROVE  Compose(stamp, SubSeq(fields, 1, n), 0) = words <=> At(fields, n) = Len(words) + 1
<1> DEFINE m == Len(fields)
           w == Full(stamp, fields, n)
           l == Len(words)
<1>1. stamp \in [1 .. 7 -> Word] /\ fields \in Seq(TaggedFields)
  BY DEF Composed
<1>2. m \in Nat /\ n \in 0 .. m /\ m \in 0 .. m /\ n <= m
  BY <1>1, PrefixFacts
<1>3. w \in Seq(Word) /\ Len(w) = At(fields, n) - 1 /\ At(fields, n) \in Nat
  BY <1>1, <1>2, FullFacts, AtFacts
<1>4. words \in Seq(Word) /\ l \in Nat
  BY ComposedFacts
<1>5. Compose(stamp, SubSeq(fields, 1, n), 0) = w
  <2>1. w = stamp \o Encode(SubSeq(fields, 1, n))
    BY DEF Full, Prefix
  <2>2. Compose(stamp, SubSeq(fields, 1, n), 0) = SubSeq(w, 1, Len(w) - 0)
    BY <2>1 DEF Compose
  <2> HIDE DEF w
  <2>3. Len(w) \in Nat
    BY <1>3, LenProperties
  <2>4. Len(w) - 0 = Len(w)
    BY <2>3
  <2>5. SubSeq(w, 1, Len(w)) = w
    BY <1>3, SubSeqFull
  <2> QED BY <2>2, <2>4, <2>5
<1>6. w = words => At(fields, n) = l + 1
  BY <1>3, <1>4
<1>7. ASSUME At(fields, n) = l + 1 PROVE w = words
  <2>1. Len(w) = l
    BY <1>3, <1>4, <1>7
  <2>2. ASSUME NEW p \in 1 .. l PROVE w[p] = words[p]
    <3>1. p \in Nat /\ p > 0 /\ p < At(fields, n)
      BY <1>4, <1>7
    <3>2. words[p] = Full(stamp, fields, m)[p]
      BY ComposedFacts
    <3>3. Full(stamp, fields, m)[p] = w[p]
      BY <1>1, <1>2, <3>1, FullGrows
    <3> QED BY <3>2, <3>3
  <2>3. \A p \in 1 .. Len(w) : w[p] = words[p]
    BY <2>1, <2>2
  <2> HIDE DEF w
  <2> QED BY <1>3, <1>4, <2>1, <2>3, SeqEqual
<1> QED BY <1>5, <1>6, <1>7 DEF l

-----------------------------------------------------------------------------
(***************************************************************************)
(* What is found of the fields.                                             *)
(***************************************************************************)

(* What one field contributes.                                             *)
FoundIn(fields, d, x) ==
    [description |-> IF d = 0 THEN None ELSE Octets(fields[d].data),
     expiry      |-> IF x = 0 THEN None ELSE Number(fields[x].data) % U64]

(* A description is text, an expiry the number its words spell.            *)
LEMMA FieldFacts ==
    ASSUME NEW tag \in Word, NEW data \in Seq(Word)
    PROVE  /\ DecodeField(tag, data) \in Found \cup {Invalid}
           /\ DecodeField(tag, data) =
                IF tag = TagD /\ ~IsText(data) THEN Invalid
                ELSE [description |-> IF tag = TagD THEN Octets(data) ELSE None,
                      expiry      |-> IF tag = TagX THEN Number(data) % U64 ELSE None]
<1> DEFINE bytes == FiveBitToBytes(data)
           octets == Octets(data)
           number == Number(data) % U64
<1>1. octets \in Seq(Nat)
  BY OctetsOf
<1>2. /\ bytes # Invalid /\ FromUtf8(bytes) # Invalid => IsText(data) /\ bytes = octets
      /\ ~(bytes # Invalid /\ FromUtf8(bytes) # Invalid) => ~IsText(data)
  BY MessageExact
<1>3. BigEndian(data) = number /\ number \in Nat
  BY BigEndianExact
<1>4. TagD # TagX
  BY DEF TagD, TagX
<1> HIDE DEF bytes, octets, number
<1>5. CASE tag = TagD
  <2>1. DecodeField(tag, data) =
            IF bytes = Invalid \/ FromUtf8(bytes) = Invalid
            THEN Invalid ELSE [NoFields EXCEPT !.description = bytes]
    BY <1>4, <1>5 DEF DecodeField, bytes
  <2>2. CASE ~IsText(data)
    <3>1. DecodeField(tag, data) = Invalid
      BY <1>2, <2>1, <2>2
    <3> QED BY <1>5, <2>2, <3>1
  <2>3. CASE IsText(data)
    <3>1. DecodeField(tag, data) = [NoFields EXCEPT !.description = octets]
      BY <1>2, <2>1, <2>3
    <3>2. DecodeField(tag, data) = [description |-> octets, expiry |-> None]
      BY <3>1 DEF NoFields
    <3>3. DecodeField(tag, data) \in Found
      BY <1>1, <3>2 DEF Found
    <3> QED BY <1>4, <1>5, <2>3, <3>2, <3>3 DEF octets
  <2> QED BY <2>2, <2>3
<1>6. CASE tag = TagX
  <2>1. DecodeField(tag, data) = [NoFields EXCEPT !.expiry = BigEndian(data)]
    BY <1>4, <1>6 DEF DecodeField
  <2>2. DecodeField(tag, data) = [description |-> None, expiry |-> number]
    BY <1>3, <2>1 DEF NoFields
  <2>3. DecodeField(tag, data) \in Found
    BY <1>3, <2>2 DEF Found
  <2> QED BY <1>4, <1>6, <2>2, <2>3 DEF number
<1>7. CASE tag # TagD /\ tag # TagX
  <2>1. DecodeField(tag, data) = NoFields
    BY <1>7 DEF DecodeField
  <2>2. NoFields \in Found
    BY DEF NoFields, Found
  <2> QED BY <1>7, <2>1, <2>2 DEF NoFields
<1> QED BY <1>5, <1>6, <1>7

(* Two fields of the data, or one and the rest.                            *)
LEMMA LaterFacts ==
    ASSUME NEW field \in Found, NEW rest \in Found
    PROVE  /\ Later(field, rest) \in Found
           /\ Later(field, rest) =
                [description |-> IF rest.description = None THEN field.description ELSE rest.description,
                 expiry      |-> IF rest.expiry = None THEN field.expiry ELSE rest.expiry]
<1>1. DOMAIN field = {"description", "expiry"}
  BY DEF Found
<1>2. Later(field, rest) =
        [f \in {"description", "expiry"} |-> IF rest[f] = None THEN field[f] ELSE rest[f]]
  BY <1>1 DEF Later
<1>3. Later(field, rest) =
        [description |-> IF rest.description = None THEN field.description ELSE rest.description,
         expiry      |-> IF rest.expiry = None THEN field.expiry ELSE rest.expiry]
  BY <1>2
<1>4. /\ field.description \in Seq(Nat) \cup {None} /\ field.expiry \in Nat \cup {None}
      /\ rest.description \in Seq(Nat) \cup {None} /\ rest.expiry \in Nat \cup {None}
  BY DEF Found
<1> QED BY <1>3, <1>4 DEF Found

(* A field and what comes behind it.                                       *)
Joined(field, rest) ==
    IF field = Invalid \/ rest = Invalid THEN Invalid ELSE Later(field, rest)

(* Where the field that begins at i ends, by its length; and what is decoded*)
(* of it.                                                                   *)
Behind(words, i) == i + 3 + words[i + 1] * 32 + words[i + 2]

FieldOf(words, i) == DecodeField(words[i], SubSeq(words, i + 3, Behind(words, i) - 1))

(* One turn of decode_tagged_fields.                                       *)
Turn(words, i, from) ==
    IF i = Len(words) + 1 THEN NoFields
    ELSE IF i + 3 > Len(words) + 1 THEN Invalid
    ELSE IF Behind(words, i) > Len(words) + 1 THEN Invalid
    ELSE Joined(FieldOf(words, i), from[Behind(words, i)])

(* A field that does not reach past the end is followed by something behind *)
(* it.                                                                      *)
LEMMA TurnFacts ==
    ASSUME NEW words \in Seq(Word), NEW i \in 1 .. Len(words) + 1,
           i + 3 <= Len(words) + 1, Behind(words, i) <= Len(words) + 1
    PROVE  /\ Behind(words, i) \in 1 .. Len(words) + 1 /\ Behind(words, i) > i
           /\ FieldOf(words, i) \in Found \cup {Invalid}
<1> DEFINE l == Len(words)
           b == Behind(words, i)
           w1 == words[i + 1]
           w2 == words[i + 2]
<1>1. l \in Nat /\ \A k \in 1 .. l : words[k] \in Word
  BY LenProperties
<1>2. i \in 1 .. l /\ i + 1 \in 1 .. l /\ i + 2 \in 1 .. l /\ i \in Nat
  BY <1>1
<1>3. w1 \in Nat /\ w2 \in Nat /\ words[i] \in Word /\ b = i + 3 + w1 * 32 + w2
  <2>1. \A x \in Word : x \in Nat
    BY DEF Word
  <2> QED BY <1>1, <1>2, <2>1 DEF Behind
<1> HIDE DEF w1, w2, b
<1>4. b \in Nat /\ b >= i + 3 /\ b <= l + 1
  BY <1>2, <1>3 DEF b
<1>5. SubSeq(words, i + 3, b - 1) \in Seq(Word)
  <2>1. i + 3 \in Nat \ {0} /\ b - 1 \in Nat
    BY <1>2, <1>4
  <2>2. \A k \in i + 3 .. b - 1 : words[k] \in Word
    BY <1>1, <1>2, <1>4
  <2> DEFINE x == i + 3
             y == b - 1
  <2>3. x \in Int /\ y \in Int /\ \A k \in x .. y : words[k] \in Word
    BY <2>1, <2>2
  <2> HIDE DEF x, y
  <2>4. SubSeq(words, x, y) \in Seq(Word)
    BY <2>3, SubSeqProperties
  <2> QED BY <2>4 DEF x, y
<1>6. FieldOf(words, i) \in Found \cup {Invalid}
  BY <1>3, <1>5, FieldFacts DEF FieldOf, b
<1> QED BY <1>1, <1>2, <1>4, <1>6 DEF b

(* It looks at what it found further on only.                              *)
LEMMA TurnCases ==
    ASSUME NEW words \in Seq(Word), NEW i \in 1 .. Len(words) + 1
    PROVE  \/ \A from : Turn(words, i, from) = NoFields
           \/ \A from : Turn(words, i, from) = Invalid
           \/ /\ Behind(words, i) \in 1 .. Len(words) + 1 /\ Behind(words, i) > i
              /\ FieldOf(words, i) \in Found \cup {Invalid}
              /\ \A from : Turn(words, i, from) = Joined(FieldOf(words, i), from[Behind(words, i)])
<1> DEFINE end == Len(words) + 1
           b == Behind(words, i)
<1>1. end \in Nat /\ i \in Nat
  BY LenProperties
<1>2. CASE i = end
  BY <1>2 DEF Turn
<1>3. CASE i # end /\ i + 3 > end
  BY <1>3 DEF Turn
<1>4. CASE i # end /\ ~(i + 3 > end)
  <2>1. i + 3 <= end
    BY <1>1, <1>4
  <2>2. b \in Int
    <3>1. i + 1 \in 1 .. Len(words) /\ i + 2 \in 1 .. Len(words)
      BY <2>1, LenProperties
    <3>2. words[i + 1] \in Nat /\ words[i + 2] \in Nat
      <4>1. \A x \in Word : x \in Nat
        BY DEF Word
      <4> QED BY <3>1, <4>1, LenProperties
    <3> QED BY <3>2 DEF Behind
  <2>3. CASE b <= end
    <3>1. b \in 1 .. end /\ b > i /\ FieldOf(words, i) \in Found \cup {Invalid}
      BY <2>1, <2>3, TurnFacts
    <3> HIDE DEF b
    <3>2. ~(b > end)
      BY <1>1, <2>2, <2>3
    <3>3. \A from : Turn(words, i, from) = Joined(FieldOf(words, i), from[b])
      BY <1>4, <3>2 DEF Turn, b
    <3> QED BY <3>1, <3>3 DEF b
  <2>4. CASE ~(b <= end)
    <3> HIDE DEF b
    <3>1. b > end
      BY <1>1, <2>2, <2>4
    <3>2. \A from : Turn(words, i, from) = Invalid
      BY <1>4, <3>1 DEF Turn, b
    <3> QED BY <3>2
  <2> QED BY <2>3, <2>4
<1> QED BY <1>2, <1>3, <1>4

(* A turn finds something or fails.                                         *)
LEMMA TurnType ==
    ASSUME NEW words \in Seq(Word), NEW i \in 1 .. Len(words) + 1, NEW from,
           \A k \in 1 .. Len(words) + 1 : k > i => from[k] \in Found \cup {Invalid}
    PROVE  Turn(words, i, from) \in Found \cup {Invalid}
<1> DEFINE S == Found \cup {Invalid}
           b == Behind(words, i)
           field == FieldOf(words, i)
<1>1. NoFields \in S /\ Invalid \in S
  BY DEF NoFields, Found
<1>2. ASSUME b \in 1 .. Len(words) + 1, b > i, field \in S PROVE Joined(field, from[b]) \in S
  <2>1. from[b] \in S
    BY <1>2
  <2> QED BY <1>2, <2>1, LaterFacts DEF Joined
<1> QED BY <1>1, <1>2, TurnCases

(* The recursion defines what is found from each position on.               *)
LEMMA FieldsFromFacts ==
    ASSUME NEW words \in Seq(Word)
    PROVE  \A i \in 1 .. Len(words) + 1 :
                /\ FieldsFrom(words)[i] \in Found \cup {Invalid}
                /\ FieldsFrom(words)[i] = Turn(words, i, FieldsFrom(words))
<1> DEFINE end == Len(words) + 1
           D == 1 .. end
           S == Found \cup {Invalid}
           F == [p \in D \X [D -> S] |-> Turn(words, p[1], p[2])]
           rank == [i \in D |-> end - i]
<1>1. end \in Nat /\ end > 0
  BY LenProperties
<1>2. \A i \in D : \A g \in [D -> S] : Turn(words, i, g) \in S
  BY TurnType
<1>3. F \in [D \X [D -> S] -> S] /\ \A i \in D : \A g \in [D -> S] : F[<<i, g>>] = Turn(words, i, g)
  <2>1. \A i \in D : \A g \in [D -> S] : F[<<i, g>>] = Turn(words, i, g)
    OBVIOUS
  <2>2. ASSUME NEW p \in D \X [D -> S] PROVE F[p] \in S
    <3>1. PICK i \in D, g \in [D -> S] : p = <<i, g>>
      OBVIOUS
    <3> HIDE DEF F
    <3> QED BY <1>2, <2>1, <3>1
  <2>3. F = [p \in D \X [D -> S] |-> F[p]]
    OBVIOUS
  <2> HIDE DEF F
  <2> QED BY <2>1, <2>2, <2>3
<1> HIDE DEF F
<1>4. rank \in [D -> 0 .. end] /\ S # {} /\ \A i \in D : rank[i] = end - i
  BY <1>1
<1>5. ASSUME NEW i \in D, NEW g \in [D -> S], NEW h \in [D -> S],
             \A y \in D : rank[y] < rank[i] => g[y] = h[y]
      PROVE  F[<<i, g>>] = F[<<i, h>>]
  <2> DEFINE b == Behind(words, i)
  <2>1. ASSUME b \in D, b > i PROVE g[b] = h[b]
    <3> HIDE DEF b
    <3>1. rank[b] = end - b /\ rank[i] = end - i
      BY <1>4, <2>1
    <3>2. b \in Nat /\ i \in Nat /\ b > i
      BY <1>1, <2>1
    <3>3. rank[b] < rank[i]
      <4> HIDE DEF rank, end
      <4> QED BY <1>1, <3>1, <3>2
    <3> QED BY <1>5, <2>1, <3>3
  <2>2. Turn(words, i, g) = Turn(words, i, h)
    <3> HIDE DEF rank
    <3> QED BY <2>1, TurnCases
  <2> QED BY <1>3, <2>2
<1>6. PICK f \in [D -> S] : \A i \in D : f[i] = Turn(words, i, f)
  <2> HIDE DEF rank, S, D
  <2>1. Determined(D, S, rank, F)
    BY <1>5 DEF Determined
  <2>2. end \in Nat /\ rank \in [D -> 0 .. end] /\ S # {} /\ F \in [D \X [D -> S] -> S]
    BY <1>1, <1>3, <1>4
  <2> HIDE DEF end
  <2>3. Solvable(D, S, F)
    BY <2>1, <2>2, RecursionExists
  <2>4. PICK f \in [D -> S] : \A i \in D : f[i] = F[<<i, f>>]
    BY <2>3 DEF Solvable
  <2> QED BY <1>3, <2>4
<1>7. FieldsFrom(words) = [i \in D |-> Turn(words, i, FieldsFrom(words))]
  <2>1. f = [i \in D |-> Turn(words, i, f)]
    BY <1>6
  <2>2. FieldsFrom(words) = CHOOSE from : from = [i \in D |-> Turn(words, i, from)]
    BY Zenon DEF FieldsFrom, Turn, Joined, FieldOf, Behind
  <2> HIDE DEF D
  <2> QED BY <2>1, <2>2
<1>8. \A i \in D : FieldsFrom(words)[i] = Turn(words, i, FieldsFrom(words))
  BY <1>7
<1> DEFINE from == FieldsFrom(words)
           T == {k \in 0 .. end : \A i \in D : i > end - k => from[i] \in S}
<1> HIDE DEF from, S
<1>9. 0 \in T
  BY <1>1
<1>10. ASSUME NEW k \in 1 .. end, k - 1 \in T PROVE k \in T
  <2>1. ASSUME NEW i \in D, i > end - k PROVE from[i] \in S
    <3>1. ASSUME NEW j \in D, j > i PROVE from[j] \in S
      <4>1. j > end - (k - 1)
        BY <1>1, <2>1, <3>1
      <4> QED BY <1>10, <4>1
    <3>2. Turn(words, i, from) \in S
      BY <3>1, TurnType DEF S
    <3> QED BY <1>8, <3>2 DEF from
  <2>2. k \in 0 .. end
    BY <1>1
  <2> QED BY <2>1, <2>2
<1> HIDE DEF T
<1>11. 0 .. end \subseteq T
  BY <1>1, <1>9, <1>10, UpTo
<1>12. end \in T /\ \A i \in D : i > end - end
  BY <1>1, <1>11
<1>13. \A i \in D : from[i] \in S
  BY <1>12 DEF T
<1> QED BY <1>8, <1>13 DEF S, from

(* The loop at the beginning of a field: it is at the end of the data, or  *)
(* the field is cut short, or it is decoded and followed by the next.      *)
LEMMA FieldStep ==
    ASSUME NEW stamp, NEW fields, NEW cut, NEW words, Composed(stamp, fields, cut, words),
           NEW j \in 0 .. Len(fields), At(fields, j) <= Len(words) + 1
    PROVE  FieldsFrom(words)[At(fields, j)] =
               IF At(fields, j) = Len(words) + 1 THEN NoFields
               ELSE IF At(fields, j + 1) > Len(words) + 1 THEN Invalid
               ELSE Joined(DecodeField(fields[j + 1].tag, fields[j + 1].data),
                           FieldsFrom(words)[At(fields, j + 1)])
<1> DEFINE m == Len(fields)
           end == Len(words) + 1
           a == At(fields, j)
           z == At(fields, j + 1)
           n == j + 1
           field == fields[n]
           d == Len(field.data)
           v == Piece(field)
           from == FieldsFrom(words)
<1>1. stamp \in [1 .. 7 -> Word] /\ fields \in Seq(TaggedFields)
  BY DEF Composed
<1>2. m \in Nat /\ j \in Nat /\ j <= m /\ end \in Nat /\ words \in Seq(Word)
  BY <1>1, PrefixFacts, ComposedFacts
<1>3. a \in Nat /\ a >= 8 /\ a \in 1 .. end
  <2>1. a \in Nat /\ a >= 8 /\ a <= end
    BY <1>1, AtFacts
  <2> HIDE DEF a, end
  <2> QED BY <1>2, <2>1
<1>4. from[a] = Turn(words, a, from)
  <2> HIDE DEF a, from
  <2> QED BY <1>2, <1>3, FieldsFromFacts DEF from
<1>5. CASE a = end
  <2>1. from[a] = NoFields
    BY <1>4, <1>5 DEF Turn
  <2> QED BY <1>5, <2>1
<1>6. CASE a # end
  <2>1. n \in 1 .. m /\ n - 1 = j
    <3>1. j # m
      <4>1. end <= At(fields, m) /\ At(fields, m) \in Nat
        <5> DEFINE l == Len(words)
                   y == At(fields, m)
        <5>1. l \in Nat /\ l < y /\ y \in Nat /\ end = l + 1
          BY <1>1, <1>2, ComposedFacts, AtFacts
        <5> HIDE DEF l, y, end
        <5>2. end <= y
          BY <5>1
        <5> QED BY <5>1, <5>2 DEF y
      <4>2. a < end
        BY <1>2, <1>3, <1>6
      <4>3. CASE j = m
        <5>1. At(fields, m) = a
          BY <4>3
        <5> HIDE DEF a, end
        <5> QED BY <1>2, <1>3, <4>1, <4>2, <5>1
      <4> QED BY <4>3
    <3> QED BY <1>2, <3>1
  <2>2. field \in TaggedFields
    BY <1>1, <2>1, PrefixFacts
  <2> DEFINE v1 == v[1]
             v2 == v[2]
             v3 == v[3]
  <2>3. /\ v1 = field.tag /\ v2 * 32 + v3 = d /\ d \in Nat
        /\ \A k \in 1 .. d : v[3 + k] = field.data[k]
        /\ field.data \in Seq(Word) /\ v \in Seq(Word) /\ Len(v) = 3 + d
    BY <2>2, PieceFacts
  <2>4. z = a + 3 + d /\ z \in Nat
    <3>1. z = At(fields, n - 1) + 3 + Len(fields[n].data)
      BY <1>1, <2>1, AtFacts
    <3>2. z = a + 3 + d
      BY <2>1, <3>1
    <3> HIDE DEF z, a, d
    <3> QED BY <1>3, <2>3, <3>2
  <2>5. ASSUME NEW q \in 1 .. 3 + d, a + q <= end PROVE words[a + q - 1] = v[q]
    <3>1. At(fields, n - 1) + q <= Len(words) + 1 /\ q \in 1 .. 3 + Len(fields[n].data)
      BY <2>1, <2>5
    <3>2. words[At(fields, n - 1) + q - 1] = Piece(fields[n])[q]
      BY <2>1, <3>1, FieldAt
    <3> QED BY <2>1, <3>2
  <2> HIDE DEF a, z, field, v, end, from, d
  <2>6. CASE a + 3 > end
    <3>1. z > end
      BY <1>2, <1>3, <2>3, <2>4, <2>6
    <3>2. from[a] = Invalid
      BY <1>4, <1>6, <2>6 DEF Turn, end
    <3> QED BY <1>6, <3>1, <3>2 DEF a, z, end, from
  <2>7. CASE ~(a + 3 > end)
    <3>1. words[a] = v1 /\ words[a + 1] = v2 /\ words[a + 2] = v3
      <4>1. a + 1 <= end /\ a + 2 <= end /\ a + 3 <= end
        BY <1>2, <1>3, <2>7
      <4>2. 1 \in 1 .. 3 + d /\ 2 \in 1 .. 3 + d /\ 3 \in 1 .. 3 + d
        BY <2>3
      <4>3. words[a + 1 - 1] = v[1] /\ words[a + 2 - 1] = v[2] /\ words[a + 3 - 1] = v[3]
        BY <2>5, <4>1, <4>2
      <4>4. a + 1 - 1 = a /\ a + 2 - 1 = a + 1 /\ a + 3 - 1 = a + 2
        BY <1>3
      <4> QED BY <4>3, <4>4
    <3>2. v2 \in Nat /\ v3 \in Nat
      <4>1. \A x \in Word : x \in Nat
        BY DEF Word
      <4>2. 2 \in 1 .. Len(v) /\ 3 \in 1 .. Len(v)
        BY <2>3
      <4> QED BY <2>3, <4>1, <4>2, LenProperties
    <3> HIDE DEF v1, v2, v3
    <3>3. Behind(words, a) = z
      <4>1. Behind(words, a) = a + 3 + v2 * 32 + v3
        BY <3>1 DEF Behind
      <4> QED BY <1>3, <2>3, <2>4, <3>2, <4>1
    <3>4. CASE z > end
      <4>1. from[a] = Invalid
        BY <1>4, <1>6, <2>7, <3>3, <3>4 DEF Turn, end
      <4> QED BY <1>6, <3>4, <4>1 DEF a, z, end, from
    <3>5. CASE ~(z > end)
      <4>1. from[a] = Joined(FieldOf(words, a), from[z])
        BY <1>4, <1>6, <2>7, <3>3, <3>5 DEF Turn, end
      <4>2. SubSeq(words, a + 3, z - 1) = field.data
        <5> DEFINE x == a + 3
                   y == z - 1
                   s == SubSeq(words, x, y)
                   data == field.data
        <5>1. /\ x \in Nat /\ y \in Int /\ x > 0 /\ y < end /\ y - x + 1 = d
              /\ (x <= y => d > 0) /\ (~(x <= y) => d = 0)
          BY <1>2, <1>3, <2>3, <2>4, <3>5
        <5>2. \A k \in x .. y : words[k] \in Word
          <6>1. \A k \in x .. y : k \in 1 .. Len(words)
            <7>1. Len(words) \in Nat /\ end = Len(words) + 1
              BY <1>2, LenProperties DEF end
            <7> HIDE DEF x, y
            <7> QED BY <5>1, <7>1
          <6> QED BY <1>2, <6>1, LenProperties
        <5>3. \A k \in 1 .. d : words[x + k - 1] = data[k]
          <6>1. ASSUME NEW k \in 1 .. d PROVE words[x + k - 1] = data[k]
            <7>1. 3 + k \in 1 .. 3 + d /\ a + (3 + k) <= end /\ a + (3 + k) - 1 = a + 3 + k - 1
              <8>1. /\ a \in Nat /\ d \in Nat /\ end \in Nat /\ z = a + 3 + d /\ ~(z > end)
                    /\ k \in Nat /\ k > 0 /\ k <= d
                BY <1>2, <1>3, <2>3, <2>4, <3>5
              <8> QED BY <8>1
            <7>2. words[a + (3 + k) - 1] = v[3 + k]
              BY <2>5, <7>1
            <7>3. v[3 + k] = data[k]
              BY <2>3
            <7> QED BY <7>1, <7>2, <7>3
          <6> QED BY <6>1
        <5>4. data \in Seq(Word) /\ Len(data) = d
          BY <2>3 DEF d
        <5> HIDE DEF x, y, data
        <5>5. /\ s \in Seq(Word) /\ Len(s) = (IF x <= y THEN y - x + 1 ELSE 0)
              /\ \A k \in 1 .. y - x + 1 : s[k] = words[x + k - 1]
          BY <5>1, <5>2, SubSeqProperties
        <5> HIDE DEF s
        <5>6. Len(s) = d /\ \A k \in 1 .. d : s[k] = data[k]
          BY <5>1, <5>3, <5>5
        <5>7. s = data
          <6>1. Len(s) = Len(data) /\ \A k \in 1 .. Len(s) : s[k] = data[k]
            BY <5>4, <5>6
          <6> QED BY <5>4, <5>5, <6>1, SeqEqual
        <5> QED BY <5>7 DEF s, x, y, data
      <4>3. FieldOf(words, a) = DecodeField(field.tag, field.data)
        BY <2>3, <3>1, <3>3, <4>2 DEF FieldOf
      <4>4. from[a] = Joined(DecodeField(field.tag, field.data), from[z])
        BY <4>1, <4>3
      <4> QED BY <1>6, <3>5, <4>4 DEF a, z, end, from, field
    <3> QED BY <3>4, <3>5
  <2> QED BY <2>6, <2>7
<1> QED BY <1>5, <1>6

(* The last field of a kind is the first one or is among the others.       *)
LEMMA LastFacts ==
    ASSUME NEW fields \in Seq(TaggedFields), NEW tag, NEW a \in Nat, a > 0, NEW b \in Nat
    PROVE  /\ LastOf(fields, tag, a, b) \in {0} \cup (a .. b)
           /\ LastOf(fields, tag, a, b) # 0 => fields[LastOf(fields, tag, a, b)].tag = tag
           /\ a > b => LastOf(fields, tag, a, b) = 0
           /\ a <= b => LastOf(fields, tag, a, b) =
                            IF LastOf(fields, tag, a + 1, b) # 0 THEN LastOf(fields, tag, a + 1, b)
                            ELSE IF fields[a].tag = tag THEN a ELSE 0
<1> DEFINE at(x) == {i \in x .. b : fields[i].tag = tag}
<1>1. ASSUME NEW x \in Nat, x > 0
      PROVE  IF at(x) = {} THEN LastOf(fields, tag, x, b) = 0
             ELSE /\ LastOf(fields, tag, x, b) \in at(x)
                  /\ \A y \in at(x) : y <= LastOf(fields, tag, x, b)
  <2>1. LastOf(fields, tag, x, b) = IF at(x) = {} THEN 0 ELSE Max(at(x))
    BY DEF LastOf
  <2>2. at(x) \subseteq 0 .. b
    BY <1>1
  <2> HIDE DEF at
  <2>3. at(x) # {} => Max(at(x)) \in at(x) /\ \A y \in at(x) : y <= Max(at(x))
    BY <2>2, GreatestNumber
  <2> QED BY <2>1, <2>3
<1> DEFINE l == LastOf(fields, tag, a, b)
           r == LastOf(fields, tag, a + 1, b)
<1>2. IF at(a) = {} THEN l = 0 ELSE l \in at(a) /\ \A y \in at(a) : y <= l
  BY <1>1
<1>3. IF at(a + 1) = {} THEN r = 0 ELSE r \in at(a + 1) /\ \A y \in at(a + 1) : y <= r
  <2>1. a + 1 \in Nat /\ a + 1 > 0
    OBVIOUS
  <2> HIDE DEF at, r
  <2>2. ASSUME NEW x \in Nat, x > 0, x = a + 1
        PROVE  IF at(x) = {} THEN r = 0 ELSE r \in at(x) /\ \A y \in at(x) : y <= r
    BY <1>1, <2>2 DEF r
  <2> QED BY <2>1, <2>2
<1>4. \A i : i \in at(a) <=> i \in a .. b /\ fields[i].tag = tag
  OBVIOUS
<1>5. \A i : i \in at(a + 1) <=> i \in a + 1 .. b /\ fields[i].tag = tag
  OBVIOUS
<1> DEFINE s == at(a)
           t == at(a + 1)
           first == fields[a].tag = tag
<1>6. ASSUME a <= b
      PROVE  t = {i \in s : i > a} /\ (a \in s <=> first) /\ \A i \in s : i \in Nat /\ i >= a
  BY <1>6
<1>7. a <= b => l = IF r # 0 THEN r ELSE IF first THEN a ELSE 0
  <2> SUFFICES ASSUME a <= b PROVE l = IF r # 0 THEN r ELSE IF first THEN a ELSE 0
    OBVIOUS
  <2>1. /\ IF s = {} THEN l = 0 ELSE l \in s /\ \A y \in s : y <= l
        /\ IF t = {} THEN r = 0 ELSE r \in t /\ \A y \in t : y <= r
        /\ t = {i \in s : i > a} /\ (a \in s <=> first) /\ \A i \in s : i \in Nat /\ i >= a
    BY <1>2, <1>3, <1>6
  <2> HIDE DEF l, r, s, t, first
  <2>2. CASE t # {}
    <3>1. r \in s /\ r > a /\ r \in Nat /\ l \in s /\ l \in Nat
      BY <2>1, <2>2
    <3>2. r <= l /\ l > a
      BY <2>1, <3>1
    <3>3. l \in t
      BY <2>1, <3>1, <3>2
    <3>4. l <= r
      BY <2>1, <3>3
    <3> QED BY <3>1, <3>2, <3>4
  <2>3. CASE t = {}
    <3>1. \A i \in s : i = a
      BY <2>1, <2>3
    <3> QED BY <2>1, <2>3, <3>1
  <2> QED BY <2>2, <2>3
<1>8. l \in {0} \cup (a .. b) /\ (l # 0 => fields[l].tag = tag) /\ (a > b => l = 0)
  <2>1. a > b => at(a) = {}
    BY <1>4
  <2> HIDE DEF l, at
  <2> QED BY <1>2, <1>4, <2>1
<1> QED BY <1>7, <1>8

(* What the fields a .. b contribute.                                      *)
Between(fields, a, b) ==
    FoundIn(fields, LastOf(fields, TagD, a, b), LastOf(fields, TagX, a, b))

(* One field before others, if its message is text: what is found is what   *)
(* all of them contribute, the later one of two of a kind.                  *)
LEMMA BetweenFacts ==
    ASSUME NEW fields \in Seq(TaggedFields), NEW a \in 1 .. Len(fields), NEW b \in 0 .. Len(fields), a <= b,
           fields[a].tag = TagD => IsText(fields[a].data)
    PROVE  /\ Between(fields, a + 1, b) \in Found
           /\ Joined(DecodeField(fields[a].tag, fields[a].data), Between(fields, a + 1, b)) =
                Between(fields, a, b)
<1> DEFINE m == Len(fields)
           tag == fields[a].tag
           data == fields[a].data
           field == DecodeField(tag, data)
           rest == Between(fields, a + 1, b)
           d == LastOf(fields, TagD, a + 1, b)
           x == LastOf(fields, TagX, a + 1, b)
<1>1. /\ m \in Nat /\ a \in Nat /\ a > 0 /\ a + 1 \in Nat /\ a + 1 > 0 /\ b \in Nat /\ b <= m
      /\ \A i \in 1 .. m : fields[i] \in TaggedFields
  BY PrefixFacts
<1>2. tag \in Word /\ data \in Seq(Word)
  <2>1. fields[a] \in TaggedFields
    BY <1>1
  <2> QED BY <2>1, PieceFacts
<1>3. field = [description |-> IF tag = TagD THEN Octets(data) ELSE None,
               expiry      |-> IF tag = TagX THEN Number(data) % U64 ELSE None]
      /\ field \in Found
  <2>1. [description |-> IF tag = TagD THEN Octets(data) ELSE None,
         expiry      |-> IF tag = TagX THEN Number(data) % U64 ELSE None] # Invalid
        \/ field # Invalid
    <3>1. Octets(data) \in Seq(Nat)
      BY <1>2, OctetsOf
    <3>2. Number(data) % U64 \in Nat
      BY <1>2, BigEndianExact
    <3>3. [description |-> IF tag = TagD THEN Octets(data) ELSE None,
           expiry      |-> IF tag = TagX THEN Number(data) % U64 ELSE None] \in Found
      BY <3>1, <3>2 DEF Found
    <3> QED BY <3>3, InvalidAssumption
  <2>2. /\ field \in Found \cup {Invalid}
        /\ field = [description |-> IF tag = TagD THEN Octets(data) ELSE None,
                    expiry      |-> IF tag = TagX THEN Number(data) % U64 ELSE None]
    BY <1>2, FieldFacts
  <2> QED BY <2>1, <2>2
<1>4. \A i \in 1 .. m : Octets(fields[i].data) \in Seq(Nat) /\ Number(fields[i].data) % U64 \in Nat
  <2>1. ASSUME NEW i \in 1 .. m
        PROVE  Octets(fields[i].data) \in Seq(Nat) /\ Number(fields[i].data) % U64 \in Nat
    <3>1. fields[i] \in TaggedFields
      BY <1>1
    <3>2. fields[i].data \in Seq(Word)
      BY <3>1, PieceFacts
    <3> QED BY <3>2, OctetsOf, BigEndianExact
  <2> QED BY <2>1
<1>5. (d = 0 \/ d \in 1 .. m) /\ (x = 0 \/ x \in 1 .. m)
  <2>1. d \in {0} \cup (a + 1 .. b) /\ x \in {0} \cup (a + 1 .. b)
    BY <1>1, LastFacts
  <2> HIDE DEF d, x, m
  <2> QED BY <1>1, <2>1
<1>6. /\ LastOf(fields, TagD, a, b) = IF d # 0 THEN d ELSE IF tag = TagD THEN a ELSE 0
      /\ LastOf(fields, TagX, a, b) = IF x # 0 THEN x ELSE IF tag = TagX THEN a ELSE 0
  BY <1>1, LastFacts
<1>7. rest = [description |-> IF d = 0 THEN None ELSE Octets(fields[d].data),
              expiry      |-> IF x = 0 THEN None ELSE Number(fields[x].data) % U64]
  BY DEF Between, FoundIn
<1>8. (d # 0 => Octets(fields[d].data) # None) /\ (x # 0 => Number(fields[x].data) % U64 # None)
  <2>1. \A e \in Seq(Nat) \cup Nat : e # None
    BY NoneAssumption
  <2> HIDE DEF d, x, m
  <2> QED BY <1>4, <1>5, <2>1
<1>9. rest \in Found
  <2> HIDE DEF d, x, m, rest
  <2> QED BY <1>4, <1>5, <1>7 DEF Found
<1> DEFINE whole == Between(fields, a, b)
<1>10. whole = [description |-> IF d # 0 THEN Octets(fields[d].data)
                                ELSE IF tag = TagD THEN Octets(data) ELSE None,
                expiry      |-> IF x # 0 THEN Number(fields[x].data) % U64
                                ELSE IF tag = TagX THEN Number(data) % U64 ELSE None]
  <2> DEFINE d2 == LastOf(fields, TagD, a, b)
             x2 == LastOf(fields, TagX, a, b)
  <2>1. whole = [description |-> IF d2 = 0 THEN None ELSE Octets(fields[d2].data),
                 expiry      |-> IF x2 = 0 THEN None ELSE Number(fields[x2].data) % U64]
    BY DEF Between, FoundIn
  <2>2. /\ d2 = IF d # 0 THEN d ELSE IF tag = TagD THEN a ELSE 0
        /\ x2 = IF x # 0 THEN x ELSE IF tag = TagX THEN a ELSE 0
    BY <1>6
  <2> HIDE DEF d2, x2, d, x, whole
  <2>3. (IF d2 = 0 THEN None ELSE Octets(fields[d2].data)) =
            IF d # 0 THEN Octets(fields[d].data) ELSE IF tag = TagD THEN Octets(data) ELSE None
    BY <1>1, <2>2
  <2>4. (IF x2 = 0 THEN None ELSE Number(fields[x2].data) % U64) =
            IF x # 0 THEN Number(fields[x].data) % U64
            ELSE IF tag = TagX THEN Number(data) % U64 ELSE None
    BY <1>1, <2>2
  <2> QED BY <2>1, <2>3, <2>4
<1> HIDE DEF field, rest, whole
<1>11. Later(field, rest) =
            [description |-> IF rest.description = None THEN field.description ELSE rest.description,
             expiry      |-> IF rest.expiry = None THEN field.expiry ELSE rest.expiry]
  BY <1>3, <1>9, LaterFacts
<1> HIDE DEF d, x, tag, data
<1>12. /\ (IF rest.description = None THEN field.description ELSE rest.description) =
            IF d # 0 THEN Octets(fields[d].data) ELSE IF tag = TagD THEN Octets(data) ELSE None
       /\ (IF rest.expiry = None THEN field.expiry ELSE rest.expiry) =
            IF x # 0 THEN Number(fields[x].data) % U64
            ELSE IF tag = TagX THEN Number(data) % U64 ELSE None
  <2>1. /\ rest.description = IF d = 0 THEN None ELSE Octets(fields[d].data)
        /\ rest.expiry = IF x = 0 THEN None ELSE Number(fields[x].data) % U64
    BY <1>7
  <2>2. /\ field.description = IF tag = TagD THEN Octets(data) ELSE None
        /\ field.expiry = IF tag = TagX THEN Number(data) % U64 ELSE None
    BY <1>3
  <2> QED BY <1>8, <2>1, <2>2
<1>13. Later(field, rest) = whole
  BY <1>10, <1>11, <1>12
<1>14. Joined(field, rest) = Later(field, rest)
  BY <1>3, <1>9, InvalidAssumption DEF Joined
<1> QED BY <1>9, <1>13, <1>14 DEF field, rest, whole, tag, data

(* How many fields there may be if the j first are left aside.             *)
Ends(fields, words, j) ==
    {n \in j .. Len(fields) :
        /\ At(fields, n) = Len(words) + 1
        /\ \A i \in j + 1 .. n : fields[i].tag = TagD => IsText(fields[i].data)}

(* From the beginning of a field on the loop finds what is there.          *)
FoundFrom(fields, words, j) ==
    At(fields, j) <= Len(words) + 1 =>
        IF Ends(fields, words, j) = {} THEN FieldsFrom(words)[At(fields, j)] = Invalid
        ELSE \A n \in Ends(fields, words, j) :
                FieldsFrom(words)[At(fields, j)] = Between(fields, j + 1, n)

(* No fields contribute nothing.                                            *)
LEMMA NothingBetween ==
    ASSUME NEW fields \in Seq(TaggedFields), NEW j \in Nat
    PROVE  Between(fields, j + 1, j) = NoFields
<1>1. j + 1 \in Nat /\ j + 1 > 0 /\ j + 1 > j
  OBVIOUS
<1> DEFINE a == j + 1
<1> HIDE DEF a
<1>2. LastOf(fields, TagD, a, j) = 0 /\ LastOf(fields, TagX, a, j) = 0
  BY <1>1, LastFacts DEF a
<1>3. Between(fields, a, j) = NoFields
  BY <1>2 DEF Between, FoundIn, NoFields
<1> QED BY <1>3 DEF a

(* At the end of the data there is nothing more.                            *)
LEMMA FoundAtEnd ==
    ASSUME NEW stamp, NEW fields, NEW cut, NEW words, Composed(stamp, fields, cut, words),
           NEW j \in 0 .. Len(fields), At(fields, j) = Len(words) + 1
    PROVE  FoundFrom(fields, words, j)
<1> DEFINE m == Len(fields)
           end == Len(words) + 1
<1>1. fields \in Seq(TaggedFields) /\ m \in Nat /\ end \in Nat /\ j \in Nat
  BY PrefixFacts, ComposedFacts DEF Composed
<1>2. FieldsFrom(words)[At(fields, j)] = NoFields
  <2>1. At(fields, j) <= Len(words) + 1
    BY <1>1
  <2> QED BY <2>1, FieldStep
<1>3. j \in Ends(fields, words, j)
  <2>1. j \in j .. Len(fields) /\ j + 1 .. j = {}
    BY <1>1
  <2> QED BY <2>1 DEF Ends
<1>4. ASSUME NEW n \in Ends(fields, words, j) PROVE n = j
  <2>1. n \in 0 .. m /\ j <= n /\ At(fields, n) = At(fields, j)
    BY <1>1, <1>4 DEF Ends
  <2>2. j < n => At(fields, j) + 3 <= At(fields, n)
    BY <1>1, <2>1, AtGrows
  <2>3. ~(j < n)
    BY <1>1, <2>1, <2>2
  <2> QED BY <1>1, <2>1, <2>3
<1>5. Between(fields, j + 1, j) = NoFields
  BY <1>1, NothingBetween
<1> QED BY <1>2, <1>3, <1>4, <1>5 DEF FoundFrom

(* Before the end there is another field, and it is found if it is whole and*)
(* its message text, and what comes behind it is found.                     *)
LEMMA FoundBefore ==
    ASSUME NEW stamp, NEW fields, NEW cut, NEW words, Composed(stamp, fields, cut, words),
           NEW j \in 0 .. Len(fields), At(fields, j) # Len(words) + 1,
           j = Len(fields) \/ FoundFrom(fields, words, j + 1)
    PROVE  FoundFrom(fields, words, j)
<1> DEFINE m == Len(fields)
           end == Len(words) + 1
           a == At(fields, j)
           z == At(fields, j + 1)
           k == j + 1
           from == FieldsFrom(words)
           text == fields[k].tag = TagD => IsText(fields[k].data)
           field == DecodeField(fields[k].tag, fields[k].data)
<1> SUFFICES ASSUME a <= end
             PROVE  IF Ends(fields, words, j) = {} THEN from[a] = Invalid
                    ELSE \A n \in Ends(fields, words, j) : from[a] = Between(fields, j + 1, n)
  BY DEF FoundFrom
<1>1. fields \in Seq(TaggedFields) /\ m \in Nat /\ end \in Nat /\ j \in Nat /\ j <= m /\ a \in Nat
  BY PrefixFacts, ComposedFacts, AtFacts DEF Composed
<1>2. k \in 1 .. m /\ k \in 0 .. m
  <2>1. Len(words) \in Nat /\ Len(words) < At(fields, m) /\ At(fields, m) \in Nat
    BY <1>1, ComposedFacts, AtFacts
  <2>2. CASE j = m
    <3>1. At(fields, m) = a
      BY <2>2
    <3> HIDE DEF a
    <3> QED BY <1>1, <2>1, <3>1 DEF a
  <2> QED BY <1>1, <2>2
<1>3. from[a] = IF z > end THEN Invalid ELSE Joined(field, from[z])
  BY FieldStep
<1>4. \A n \in Ends(fields, words, j) : n \in k .. m /\ At(fields, n) = end /\ text
  <2>1. ASSUME NEW n \in Ends(fields, words, j) PROVE n \in k .. m /\ At(fields, n) = end /\ text
    <3>1. n \in j .. m /\ At(fields, n) = end /\ n # j
      BY DEF Ends
    <3>2. n \in k .. m /\ k \in j + 1 .. n
      BY <1>1, <3>1
    <3>3. text
      BY <3>2 DEF Ends
    <3> QED BY <3>1, <3>2, <3>3
  <2> QED BY <2>1
<1>5. CASE z > end
  <2>1. ASSUME NEW n \in Ends(fields, words, j) PROVE FALSE
    <3>1. n \in k .. m /\ At(fields, n) = end
      BY <1>4
    <3>2. n = k \/ k < n
      BY <1>1, <3>1
    <3>3. k < n => z + 3 <= At(fields, n)
      <4>1. n \in 0 .. m
        BY <1>1, <3>1
      <4> HIDE DEF k
      <4>2. k < n => At(fields, k) + 3 <= At(fields, n)
        BY <1>1, <1>2, <4>1, AtGrows
      <4> QED BY <4>2 DEF k
    <3>4. z \in Nat
      BY <1>1, <1>2, AtFacts
    <3>5. n = k => z = end
      BY <3>1
    <3> HIDE DEF z, k, end
    <3> QED BY <1>1, <1>5, <3>1, <3>2, <3>3, <3>4, <3>5
  <2>2. Ends(fields, words, j) = {}
    BY <2>1
  <2> QED BY <1>3, <1>5, <2>2
<1>6. CASE ~(z > end)
  <2>1. z <= end
    <3>1. z \in Nat
      BY <1>1, <1>2, AtFacts
    <3> HIDE DEF z, end
    <3> QED BY <1>1, <1>6, <3>1
  <2>2. IF Ends(fields, words, k) = {} THEN from[z] = Invalid
        ELSE \A n \in Ends(fields, words, k) : from[z] = Between(fields, k + 1, n)
    <3>1. FoundFrom(fields, words, k)
      BY <1>1, <1>2
    <3> QED BY <2>1, <3>1 DEF FoundFrom
  <2>3. \A n : n \in Ends(fields, words, j) <=> n \in Ends(fields, words, k) /\ text
    <3>1. ASSUME NEW n \in Ends(fields, words, j) PROVE n \in Ends(fields, words, k) /\ text
      <4>1. n \in k .. m /\ At(fields, n) = end /\ text
        BY <1>4
      <4>2. \A i \in k + 1 .. n : i \in j + 1 .. n
        BY <1>1
      <4> QED BY <4>1, <4>2 DEF Ends
    <3>2. ASSUME NEW n \in Ends(fields, words, k), text PROVE n \in Ends(fields, words, j)
      <4>1. n \in k .. m /\ At(fields, n) = end
        BY DEF Ends
      <4>2. n \in j .. m
        BY <1>1, <4>1
      <4>3. ASSUME NEW i \in j + 1 .. n PROVE fields[i].tag = TagD => IsText(fields[i].data)
        <5>1. i = k \/ i \in k + 1 .. n
          BY <1>1, <4>1
        <5>2. CASE i = k
          BY <3>2, <5>2
        <5>3. CASE i \in k + 1 .. n
          BY <5>3 DEF Ends
        <5> QED BY <5>1, <5>2, <5>3
      <4> QED BY <4>1, <4>2, <4>3 DEF Ends
    <3> HIDE DEF text
    <3> QED BY <3>1, <3>2
  <2>4. CASE ~text
    <3>1. Ends(fields, words, j) = {}
      BY <2>3, <2>4
    <3>2. field = Invalid
      <4>1. fields[k] \in TaggedFields
        BY <1>1, <1>2, PrefixFacts
      <4>2. fields[k].tag \in Word /\ fields[k].data \in Seq(Word)
        BY <4>1, PieceFacts
      <4> QED BY <2>4, <4>2, FieldFacts
    <3>3. from[a] = Invalid
      BY <1>3, <1>6, <3>2 DEF Joined
    <3> QED BY <3>1, <3>3
  <2>5. CASE text /\ Ends(fields, words, k) = {}
    <3>1. Ends(fields, words, j) = {}
      BY <2>3, <2>5
    <3>2. from[a] = Invalid
      BY <1>3, <1>6, <2>2, <2>5 DEF Joined
    <3> QED BY <3>1, <3>2
  <2>6. CASE text /\ Ends(fields, words, k) # {}
    <3>1. Ends(fields, words, j) # {}
      <4> HIDE DEF text, k
      <4> QED BY <2>3, <2>6
    <3>2. ASSUME NEW n \in Ends(fields, words, j) PROVE from[a] = Between(fields, k, n)
      <4>1. n \in Ends(fields, words, k)
        <5> HIDE DEF text, k
        <5> QED BY <2>3
      <4>2. from[z] = Between(fields, k + 1, n)
        BY <2>2, <2>6, <4>1
      <4>3. n \in 0 .. m /\ k <= n
        BY <1>1, <4>1 DEF Ends
      <4>4. Joined(field, Between(fields, k + 1, n)) = Between(fields, k, n)
        <5> HIDE DEF k
        <5> QED BY <1>1, <1>2, <2>6, <4>3, BetweenFacts DEF m
      <4> QED BY <1>3, <1>6, <4>2, <4>4
    <3> QED BY <3>1, <3>2
  <2> QED BY <2>4, <2>5, <2>6
<1> QED BY <1>5, <1>6

(* From the first field on, then, everything is found, by induction from the*)
(* last field.                                                              *)
LEMMA FoundAll ==
    ASSUME NEW stamp, NEW fields, NEW cut, NEW words, Composed(stamp, fields, cut, words)
    PROVE  FoundFrom(fields, words, 0)
<1> DEFINE m == Len(fields)
           T == {k \in 0 .. m : FoundFrom(fields, words, m - k)}
<1>1. m \in Nat
  BY PrefixFacts DEF Composed
<1>2. ASSUME NEW j \in 0 .. m, j = m \/ FoundFrom(fields, words, j + 1) PROVE FoundFrom(fields, words, j)
  BY <1>2, FoundAtEnd, FoundBefore
<1>3. 0 \in T
  <2>1. m \in 0 .. m /\ m - 0 = m /\ 0 \in 0 .. m
    BY <1>1
  <2>2. FoundFrom(fields, words, m)
    BY <1>2, <2>1
  <2> HIDE DEF m
  <2> QED BY <2>1, <2>2
<1>4. ASSUME NEW k \in 1 .. m, k - 1 \in T PROVE k \in T
  <2>1. m - k \in 0 .. m /\ m - (k - 1) = (m - k) + 1 /\ k \in 0 .. m
    BY <1>1
  <2>2. FoundFrom(fields, words, (m - k) + 1)
    BY <1>4, <2>1
  <2>3. FoundFrom(fields, words, m - k)
    BY <1>2, <2>1, <2>2
  <2> QED BY <2>1, <2>3
<1> HIDE DEF T
<1>5. 0 .. m \subseteq T
  <2> HIDE DEF m
  <2> QED BY <1>1, <1>3, <1>4, UpTo
<1>6. m \in T /\ m - m = 0
  BY <1>1, <1>5
<1> QED BY <1>6 DEF T

-----------------------------------------------------------------------------
(***************************************************************************)
(* The amount of a payment request.                                         *)
(***************************************************************************)

(* Division by what divides without a rest.                                *)
LEMMA DivisionFacts ==
    /\ \A m \in Nat : m % 10 = 0 => m = 10 * (m \div 10) /\ m \div 10 \in Nat
    /\ \A m \in Nat : (10 * m) \div 10 = m
    /\ \A m \in Nat : m % 1000 = 0 => m = 1000 * (m \div 1000) /\ m \div 1000 \in Nat
OBVIOUS

(* A unit is worth ten times as many tenths of a msat.                     *)
LEMMA UnitFacts ==
    ASSUME NEW m \in {"btc", "m", "u", "n"}
    PROVE  MsatPer[m] \in Nat /\ TenthsPer[m] = 10 * MsatPer[m]
<1>1. PICK c \in Nat : Milli = 10 * c
  BY MilliAssumption, DivisionFacts
<1> DEFINE m2 == Milli * Milli
           m3 == Milli * Milli * Milli
<1>2. Milli \in Nat /\ m2 \in Nat /\ m3 \in Nat
  BY MilliAssumption
<1>3. Milli = 10 * c /\ m2 = 10 * (c * Milli) /\ m3 = 10 * (c * m2)
  BY <1>1, <1>2
<1>4. m3 * Milli = 10 * (c * m3)
  BY <1>1, <1>2
<1>5. c * Milli \in Nat /\ c * m2 \in Nat /\ c * m3 \in Nat
  BY <1>2
<1>6. /\ Milli \div 10 = c /\ m2 \div 10 = c * Milli
      /\ m3 \div 10 = c * m2 /\ (m3 * Milli) \div 10 = c * m3
  BY <1>3, <1>4, <1>5, DivisionFacts
<1> QED
  BY <1>3, <1>4, <1>5, <1>6 DEF MsatPer, TenthsPer

(* An amount of that many tenths is worded as it is.                       *)
LEMMA WordedExactly ==
    ASSUME NEW hrp \in Hrps, NEW msats \in Nat, hrp.ln, hrp.digits = "number",
           msats < U64, Tenths(hrp) = 10 * msats
    PROVE  AmountExact(hrp, msats)
<1>1. msats # None
  BY NoneAssumption
<1>2. CASE msats % 1000 = 0
  <2>1. FormatAmount(msats) = [n |-> msats \div 1000, unit |-> "sats"]
    BY <1>1, <1>2 DEF FormatAmount
  <2>2. Tenths(hrp) = 10 * (msats \div 1000) * 1000
    BY <1>2, DivisionFacts
  <2> QED
    BY <1>1, <2>1, <2>2 DEF AmountExact
<1>3. CASE msats % 1000 # 0
  <2>1. FormatAmount(msats) = [n |-> msats, unit |-> "msats"]
    BY <1>1, <1>3 DEF FormatAmount
  <2>2. Tenths(hrp) = 10 * msats * 1
    OBVIOUS
  <2> QED
    BY <1>1, <1>3, <2>1, <2>2 DEF AmountExact
<1> QED
  BY <1>2, <1>3

(* Whatever number and multiplier a payment request has, the amount on the *)
(* page is what it says to the msat; and it is refused exactly if it says  *)
(* none that a u64 of msat can hold, or its number is too long for a u64   *)
(* of its own: the checked product never wraps, and tenths of a msat are   *)
(* not rounded (components/functions.rs:139-190).                          *)
THEOREM AmountsExact ==
    ASSUME NEW hrp \in Hrps
    PROVE  /\ ParseAmount(hrp) = Invalid <=> Unpayable(hrp) \/ TooLong(hrp)
           /\ ParseAmount(hrp) # Invalid => AmountExact(hrp, ParseAmount(hrp))
<1>1. hrp.number \in Nat /\ hrp.multiplier \in {"btc", "m", "u", "n", "p"} /\ hrp.ln \in BOOLEAN
        /\ hrp.digits \in {"none", "garbled", "number"} /\ U64 \in Nat
  BY U64Assumption DEF Hrps, Multipliers
<1>2. CASE ~hrp.ln
  BY <1>2 DEF ParseAmount, Unpayable
<1>3. CASE hrp.ln /\ hrp.digits = "none"
  <2>1. ParseAmount(hrp) = None /\ None # Invalid
    BY <1>3, InvalidAssumption DEF ParseAmount
  <2>2. ~Unpayable(hrp) /\ ~TooLong(hrp)
    BY <1>3 DEF Unpayable, TooLong
  <2> QED
    BY <1>3, <2>1, <2>2 DEF AmountExact
<1>4. CASE hrp.ln /\ (hrp.digits = "garbled" \/ (hrp.digits = "number" /\ hrp.number >= U64))
  BY <1>4 DEF ParseAmount, Unpayable, TooLong
<1>5. CASE hrp.ln /\ hrp.digits = "number" /\ ~(hrp.number >= U64) /\ hrp.multiplier = "p"
  <2>1. ParseAmount(hrp) = IF hrp.number % 10 # 0 THEN Invalid ELSE hrp.number \div 10
    BY <1>5 DEF ParseAmount
  <2>2. Tenths(hrp) = hrp.number
    BY <1>1, <1>5 DEF Tenths, TenthsPer
  <2>3. CASE hrp.number % 10 # 0
    BY <1>5, <2>1, <2>2, <2>3 DEF Unpayable
  <2>4. CASE hrp.number % 10 = 0
    <3> DEFINE msats == hrp.number \div 10
    <3>1. msats \in Nat /\ hrp.number = 10 * msats
      BY <1>1, <2>4, DivisionFacts
    <3>2. ParseAmount(hrp) = msats /\ msats # Invalid
      BY <2>1, <2>4, <3>1, InvalidAssumption
    <3> HIDE DEF msats
    <3>3. msats < U64 /\ Tenths(hrp) = 10 * msats
      BY <1>1, <1>5, <2>2, <3>1
    <3>4. ~(Tenths(hrp) >= 10 * U64) /\ ~(Tenths(hrp) % 10 # 0)
      BY <1>1, <1>5, <2>2, <2>4
    <3> QED
      BY <1>1, <1>5, <3>1, <3>2, <3>3, <3>4, WordedExactly DEF Unpayable, TooLong
  <2> QED
    BY <2>3, <2>4
<1>6. CASE hrp.ln /\ hrp.digits = "number" /\ ~(hrp.number >= U64) /\ hrp.multiplier # "p"
  <2> DEFINE unit == MsatPer[hrp.multiplier]
             msats == hrp.number * unit
  <2>1. ParseAmount(hrp) = IF msats < U64 THEN msats ELSE Invalid
    BY <1>6 DEF ParseAmount, CheckedMul
  <2>2. unit \in Nat /\ TenthsPer[hrp.multiplier] = 10 * unit
    BY <1>1, <1>6, UnitFacts
  <2> HIDE DEF unit
  <2>3. msats \in Nat /\ Tenths(hrp) = 10 * msats
    BY <1>1, <2>2 DEF Tenths
  <2> HIDE DEF msats
  <2>4. CASE msats < U64
    <3>1. ParseAmount(hrp) = msats /\ msats # Invalid
      BY <2>1, <2>3, <2>4, InvalidAssumption
    <3>2. ~(Tenths(hrp) >= 10 * U64) /\ ~(Tenths(hrp) % 10 # 0)
      BY <1>1, <2>3, <2>4
    <3> QED
      BY <1>1, <1>6, <2>3, <2>4, <3>1, <3>2, WordedExactly DEF Unpayable, TooLong
  <2>5. CASE ~(msats < U64)
    <3>1. Tenths(hrp) >= 10 * U64
      BY <1>1, <2>3, <2>5
    <3> QED
      BY <1>6, <2>1, <2>5, <3>1 DEF Unpayable
  <2> QED
    BY <2>4, <2>5
<1> QED
  BY <1>1, <1>2, <1>3, <1>4, <1>5, <1>6

(* A decoded amount is a number.                                            *)
LEMMA AmountType ==
    ASSUME NEW hrp \in Hrps
    PROVE  ParseAmount(hrp) \in Nat \cup {None, Invalid}
<1>1. hrp.number \in Nat /\ hrp.multiplier \in {"btc", "m", "u", "n", "p"}
  BY DEF Hrps, Multipliers
<1>2. CASE hrp.multiplier = "p"
  <2>1. hrp.number \div 10 \in Nat
    BY <1>1
  <2> QED BY <1>2, <2>1 DEF ParseAmount
<1>3. CASE hrp.multiplier # "p"
  <2>1. MsatPer[hrp.multiplier] \in Nat
    BY <1>1, <1>3, UnitFacts
  <2> DEFINE a == hrp.number
             b == MsatPer[hrp.multiplier]
  <2>2. a \in Nat /\ b \in Nat
    BY <1>1, <2>1
  <2>3. ParseAmount(hrp) = CheckedMul(a, b) \/ ParseAmount(hrp) \in {None, Invalid}
    BY <1>3 DEF ParseAmount
  <2> HIDE DEF a, b
  <2>4. a * b \in Nat
    BY <2>2
  <2> QED BY <2>3, <2>4 DEF CheckedMul
<1> QED BY <1>2, <1>3

-----------------------------------------------------------------------------
(***************************************************************************)
(* The expiry as it is worded.                                              *)
(***************************************************************************)

(* What is left of the days are hours, and so on.                          *)
LEMMA ClockFacts ==
    ASSUME NEW t \in Nat
    PROVE  LET d == t \div 86400
               h == (t % 86400) \div 3600
               m == (t % 3600) \div 60
               s == t % 60
           IN  /\ d \in Nat /\ d <= t /\ h \in Nat /\ h < 24 /\ m \in Nat /\ m < 60 /\ s \in Nat /\ s < 60
               /\ t = 86400 * d + 3600 * h + 60 * m + s
OBVIOUS

(* A part as it is shown; that it is there at all, and how many parts that  *)
(* makes.                                                                   *)
Shown == [n : Nat, unit : {"d", "h", "m", "s"}]

Part(n, unit) == IF n > 0 THEN <<[n |-> n, unit |-> unit]>> ELSE <<>>

Parts(n) == IF n > 0 THEN 1 ELSE 0

(* A part of zero is left out.                                              *)
LEMMA PartFacts ==
    ASSUME NEW n \in Nat, NEW unit \in {"d", "h", "m", "s"}
    PROVE  /\ Part(n, unit) \in Seq(Shown) /\ Len(Part(n, unit)) = Parts(n)
           /\ n > 0 => Part(n, unit)[1] = [n |-> n, unit |-> unit]
<1>1. [n |-> n, unit |-> unit] \in Shown
  BY DEF Shown
<1> DEFINE r == [n |-> n, unit |-> unit]
<1> HIDE DEF r
<1>2. <<r>> \in Seq(Shown) /\ Len(<<r>>) = 1 /\ <<r>>[1] = r
  BY <1>1 DEF r
<1>3. <<>> \in Seq(Shown) /\ Len(<<>>) = 0
  OBVIOUS
<1>4. Part(n, unit) = IF n > 0 THEN <<r>> ELSE <<>>
  BY DEF Part, r
<1>5. CASE n > 0
  <2>1. Part(n, unit) = <<r>> /\ Parts(n) = 1
    BY <1>4, <1>5 DEF Parts
  <2> QED BY <1>2, <1>5, <2>1 DEF r
<1>6. CASE ~(n > 0)
  <2>1. Part(n, unit) = <<>> /\ Parts(n) = 0
    BY <1>4, <1>6 DEF Parts
  <2> QED BY <1>3, <1>6, <2>1
<1> QED BY <1>5, <1>6

(* A list with a part more.                                                 *)
LEMMA PartAdded ==
    ASSUME NEW list \in Seq(Shown), NEW n \in Nat, NEW unit \in {"d", "h", "m", "s"}
    PROVE  /\ list \o Part(n, unit) \in Seq(Shown)
           /\ Len(list \o Part(n, unit)) = Len(list) + Parts(n)
           /\ \A i \in 1 .. Len(list) : (list \o Part(n, unit))[i] = list[i]
           /\ n > 0 => (list \o Part(n, unit))[Len(list) + 1] = [n |-> n, unit |-> unit]
<1> DEFINE part == Part(n, unit)
           l == Len(list)
           k == Len(part)
<1>1. /\ part \in Seq(Shown) /\ k = Parts(n) /\ n > 0 => part[1] = [n |-> n, unit |-> unit]
  BY PartFacts
<1>2. l \in Nat /\ Parts(n) \in Nat /\ (n > 0 => Parts(n) = 1)
  BY LenProperties DEF Parts
<1>3. part \in Seq(Shown)
  BY PartFacts
<1>4. k = Parts(n)
  BY PartFacts
<1> HIDE DEF part
<1>5. /\ list \o part \in Seq(Shown) /\ Len(list \o part) = l + k
      /\ \A i \in 1 .. l + k : (list \o part)[i] = IF i <= l THEN list[i] ELSE part[i - l]
  BY <1>3, ConcatProperties
<1> HIDE DEF k, l
<1>6. \A i \in 1 .. l : (list \o part)[i] = list[i]
  BY <1>2, <1>4, <1>5
<1>7. n > 0 => (list \o part)[l + 1] = part[1]
  <2>1. n > 0 => l + 1 \in 1 .. l + k /\ ~(l + 1 <= l) /\ (l + 1) - l = 1
    BY <1>2, <1>4
  <2> QED BY <1>5, <2>1
<1>8. n > 0 => part[1] = [n |-> n, unit |-> unit]
  BY PartFacts DEF part
<1> QED BY <1>4, <1>5, <1>6, <1>7, <1>8 DEF l, part

(* The parts that are there, in their order.                               *)
Listed(list, d, h, m, s) ==
    /\ list \in Seq(Shown)
    /\ Len(list) = Parts(d) + Parts(h) + Parts(m) + Parts(s)
    /\ d > 0 => list[1] = [n |-> d, unit |-> "d"]
    /\ h > 0 => list[Parts(d) + 1] = [n |-> h, unit |-> "h"]
    /\ m > 0 => list[Parts(d) + Parts(h) + 1] = [n |-> m, unit |-> "m"]
    /\ s > 0 => list[Parts(d) + Parts(h) + Parts(m) + 1] = [n |-> s, unit |-> "s"]

(* The list of four parts is that.                                          *)
LEMMA PartsListed ==
    ASSUME NEW d \in Nat, NEW h \in Nat, NEW m \in Nat, NEW s \in Nat
    PROVE  Listed(Part(d, "d") \o Part(h, "h") \o Part(m, "m") \o Part(s, "s"), d, h, m, s)
<1> DEFINE a == Part(d, "d")
           b == a \o Part(h, "h")
           c == b \o Part(m, "m")
           e == c \o Part(s, "s")
           pd == Parts(d)
           ph == Parts(h)
           pm == Parts(m)
           ps == Parts(s)
<1>1. /\ pd \in Nat /\ ph \in Nat /\ pm \in Nat /\ ps \in Nat
      /\ (d > 0 => pd = 1) /\ (h > 0 => ph = 1) /\ (m > 0 => pm = 1)
  BY DEF Parts
<1>2. a \in Seq(Shown) /\ Len(a) = pd /\ (d > 0 => a[1] = [n |-> d, unit |-> "d"])
  BY PartFacts
<1> HIDE DEF a
<1>3. /\ b \in Seq(Shown) /\ Len(b) = Len(a) + ph /\ \A i \in 1 .. Len(a) : b[i] = a[i]
      /\ h > 0 => b[Len(a) + 1] = [n |-> h, unit |-> "h"]
  BY <1>2, PartAdded
<1> HIDE DEF b
<1>4. /\ c \in Seq(Shown) /\ Len(c) = Len(b) + pm /\ \A i \in 1 .. Len(b) : c[i] = b[i]
      /\ m > 0 => c[Len(b) + 1] = [n |-> m, unit |-> "m"]
  BY <1>3, PartAdded
<1> HIDE DEF c
<1>5. /\ e \in Seq(Shown) /\ Len(e) = Len(c) + ps /\ \A i \in 1 .. Len(c) : e[i] = c[i]
      /\ s > 0 => e[Len(c) + 1] = [n |-> s, unit |-> "s"]
  BY <1>4, PartAdded
<1> HIDE DEF e, pd, ph, pm, ps
<1>6. Len(a) = pd /\ Len(b) = pd + ph /\ Len(c) = pd + ph + pm /\ Len(e) = pd + ph + pm + ps
  BY <1>2, <1>3, <1>4, <1>5
<1>7. d > 0 => e[1] = [n |-> d, unit |-> "d"]
  <2>1. d > 0 => 1 \in 1 .. Len(a) /\ 1 \in 1 .. Len(b) /\ 1 \in 1 .. Len(c)
    BY <1>1, <1>6
  <2>2. d > 0 => e[1] = c[1] /\ c[1] = b[1] /\ b[1] = a[1]
    BY <1>3, <1>4, <1>5, <2>1
  <2> QED BY <1>2, <2>2
<1>8. h > 0 => e[pd + 1] = [n |-> h, unit |-> "h"]
  <2> DEFINE i == pd + 1
  <2>1. h > 0 => i \in 1 .. Len(b) /\ i \in 1 .. Len(c)
    BY <1>1, <1>6
  <2>2. h > 0 => b[i] = [n |-> h, unit |-> "h"]
    BY <1>3, <1>6
  <2> HIDE DEF i
  <2>3. h > 0 => e[i] = c[i] /\ c[i] = b[i]
    BY <1>4, <1>5, <2>1
  <2>4. h > 0 => e[i] = [n |-> h, unit |-> "h"]
    BY <2>2, <2>3
  <2> QED BY <2>4 DEF i
<1>9. m > 0 => e[pd + ph + 1] = [n |-> m, unit |-> "m"]
  <2> DEFINE i == pd + ph + 1
  <2>1. m > 0 => i \in 1 .. Len(c)
    BY <1>1, <1>6
  <2>2. m > 0 => c[i] = [n |-> m, unit |-> "m"]
    BY <1>4, <1>6
  <2> HIDE DEF i
  <2>3. m > 0 => e[i] = c[i]
    BY <1>5, <2>1
  <2>4. m > 0 => e[i] = [n |-> m, unit |-> "m"]
    BY <2>2, <2>3
  <2> QED BY <2>4 DEF i
<1>10. s > 0 => e[pd + ph + pm + 1] = [n |-> s, unit |-> "s"]
  BY <1>5, <1>6
<1>11. Listed(e, d, h, m, s)
  BY <1>5, <1>6, <1>7, <1>8, <1>9, <1>10 DEF Listed, pd, ph, pm, ps
<1> QED BY <1>11 DEF e, c, b, a

(* A unit is there once or not at all, and worth its part.                 *)
Worth(list, unit) ==
    LET of == {i \in DOMAIN list : list[i].unit = unit}
    IN  IF of = {} THEN 0 ELSE list[Max(of)].n * Seconds[unit]

(* The greatest of one.                                                     *)
LEMMA MaxOfOne == \A k : Max({k}) = k
BY DEF Max

(* It is worth nothing if it is not there, and its number of seconds if it  *)
(* is.                                                                      *)
LEMMA WorthFacts ==
    ASSUME NEW list, NEW unit
    PROVE  LET of == {i \in DOMAIN list : list[i].unit = unit}
           IN  /\ of = {} => Worth(list, unit) = 0
               /\ \A k : of = {k} => Worth(list, unit) = list[k].n * Seconds[unit]
<1> DEFINE of == {i \in DOMAIN list : list[i].unit = unit}
<1>1. Worth(list, unit) = IF of = {} THEN 0 ELSE list[Max(of)].n * Seconds[unit]
  BY DEF Worth
<1> HIDE DEF of
<1>2. of = {} => Worth(list, unit) = 0
  BY <1>1
<1>3. ASSUME NEW k, of = {k} PROVE Worth(list, unit) = list[k].n * Seconds[unit]
  <2>1. of # {} /\ Max(of) = k
    BY <1>3, MaxOfOne
  <2> QED BY <1>1, <2>1, Zenon
<1> QED BY <1>2, <1>3 DEF of

(* The parts are worth what they are made of, larger units come first and no*)
(* part makes up a larger unit.                                             *)
LEMMA ListedExactly ==
    ASSUME NEW list, NEW d \in Nat, NEW h \in Nat, NEW m \in Nat, NEW s \in Nat,
           Listed(list, d, h, m, s), h < 24, m < 60, s < 60, d < U64
    PROVE  /\ Worth(list, "d") = 86400 * d /\ Worth(list, "h") = 3600 * h
           /\ Worth(list, "m") = 60 * m /\ Worth(list, "s") = s
           /\ \A i, j \in DOMAIN list : i < j => Seconds[list[i].unit] > Seconds[list[j].unit]
           /\ \A i \in DOMAIN list :
                /\ list[i].n < [d |-> U64, h |-> 24, m |-> 60, s |-> 60][list[i].unit]
                /\ list[i].n > 0
<1> DEFINE pd == Parts(d)
           ph == Parts(h)
           pm == Parts(m)
           ps == Parts(s)
           len == pd + ph + pm + ps
           D == 1
           H == pd + 1
           M == pd + ph + 1
           S == pd + ph + pm + 1
<1>1. /\ pd = (IF d > 0 THEN 1 ELSE 0) /\ ph = (IF h > 0 THEN 1 ELSE 0)
      /\ pm = (IF m > 0 THEN 1 ELSE 0) /\ ps = (IF s > 0 THEN 1 ELSE 0)
  BY DEF Parts
<1>2. DOMAIN list = 1 .. len
  BY LenProperties DEF Listed
<1>3. /\ d > 0 => list[D] = [n |-> d, unit |-> "d"]
      /\ h > 0 => list[H] = [n |-> h, unit |-> "h"]
      /\ m > 0 => list[M] = [n |-> m, unit |-> "m"]
      /\ s > 0 => list[S] = [n |-> s, unit |-> "s"]
  BY DEF Listed
<1> HIDE DEF pd, ph, pm, ps
<1>4. \A i \in 1 .. len : (i = D /\ d > 0) \/ (i = H /\ h > 0) \/ (i = M /\ m > 0) \/ (i = S /\ s > 0)
  BY <1>1
<1>5. /\ d > 0 => D \in 1 .. len /\ D < H /\ D < M /\ D < S
      /\ h > 0 => H \in 1 .. len /\ H < M /\ H < S
      /\ m > 0 => M \in 1 .. len /\ M < S
      /\ s > 0 => S \in 1 .. len
      /\ D \in Nat /\ H \in Nat /\ M \in Nat /\ S \in Nat /\ D <= H /\ H <= M /\ M <= S
  BY <1>1
<1> HIDE DEF D, H, M, S, len
<1>6. /\ d > 0 => list[D].unit = "d" /\ list[D].n = d
      /\ h > 0 => list[H].unit = "h" /\ list[H].n = h
      /\ m > 0 => list[M].unit = "m" /\ list[M].n = m
      /\ s > 0 => list[S].unit = "s" /\ list[S].n = s
  BY <1>3
<1> DEFINE of(unit) == {i \in DOMAIN list : list[i].unit = unit}
<1>7. of("d") = IF d > 0 THEN {D} ELSE {}
  BY <1>2, <1>4, <1>5, <1>6
<1>8. of("h") = IF h > 0 THEN {H} ELSE {}
  BY <1>2, <1>4, <1>5, <1>6
<1>9. of("m") = IF m > 0 THEN {M} ELSE {}
  BY <1>2, <1>4, <1>5, <1>6
<1>10. of("s") = IF s > 0 THEN {S} ELSE {}
  BY <1>2, <1>4, <1>5, <1>6
<1>11. /\ Seconds["d"] = 86400 /\ Seconds["h"] = 3600 /\ Seconds["m"] = 60 /\ Seconds["s"] = 1
  BY DEF Seconds
<1>12. \A unit : /\ of(unit) = {} => Worth(list, unit) = 0
                 /\ \A k : of(unit) = {k} => Worth(list, unit) = list[k].n * Seconds[unit]
  BY WorthFacts
<1> HIDE DEF of
<1>13. Worth(list, "d") = 86400 * d
  <2>1. CASE d > 0
    <3>1. of("d") = {D}
      BY <1>7, <2>1
    <3>2. Worth(list, "d") = list[D].n * Seconds["d"]
      BY <1>12, <3>1, Zenon
    <3>3. list[D].n = d /\ Seconds["d"] = 86400
      BY <1>6, <1>11, <2>1
    <3>4. Worth(list, "d") = d * 86400
      BY <3>2, <3>3
    <3> QED BY <3>4
  <2>2. CASE ~(d > 0)
    <3>1. of("d") = {}
      BY <1>7, <2>2
    <3>2. Worth(list, "d") = 0
      BY <1>12, <3>1, Zenon
    <3> QED BY <2>2, <3>2
  <2> QED BY <2>1, <2>2
<1>14. Worth(list, "h") = 3600 * h
  <2>1. CASE h > 0
    <3>1. of("h") = {H}
      BY <1>8, <2>1
    <3>2. Worth(list, "h") = list[H].n * Seconds["h"]
      BY <1>12, <3>1, Zenon
    <3>3. list[H].n = h /\ Seconds["h"] = 3600
      BY <1>6, <1>11, <2>1
    <3>4. Worth(list, "h") = h * 3600
      BY <3>2, <3>3
    <3> QED BY <3>4
  <2>2. CASE ~(h > 0)
    <3>1. of("h") = {}
      BY <1>8, <2>2
    <3>2. Worth(list, "h") = 0
      BY <1>12, <3>1, Zenon
    <3> QED BY <2>2, <3>2
  <2> QED BY <2>1, <2>2
<1>15. Worth(list, "m") = 60 * m
  <2>1. CASE m > 0
    <3>1. of("m") = {M}
      BY <1>9, <2>1
    <3>2. Worth(list, "m") = list[M].n * Seconds["m"]
      BY <1>12, <3>1, Zenon
    <3>3. list[M].n = m /\ Seconds["m"] = 60
      BY <1>6, <1>11, <2>1
    <3>4. Worth(list, "m") = m * 60
      BY <3>2, <3>3, Zenon
    <3> QED BY <3>4
  <2>2. CASE ~(m > 0)
    <3>1. of("m") = {}
      BY <1>9, <2>2
    <3>2. Worth(list, "m") = 0
      BY <1>12, <3>1, Zenon
    <3> QED BY <2>2, <3>2
  <2> QED BY <2>1, <2>2
<1>16. Worth(list, "s") = s
  <2>1. CASE s > 0
    <3>1. of("s") = {S}
      BY <1>10, <2>1
    <3>2. Worth(list, "s") = list[S].n * Seconds["s"]
      BY <1>12, <3>1, Zenon
    <3>3. list[S].n = s /\ Seconds["s"] = 1
      BY <1>6, <1>11, <2>1
    <3>4. Worth(list, "s") = s * 1
      BY <3>2, <3>3, Zenon
    <3> QED BY <3>4
  <2>2. CASE ~(s > 0)
    <3>1. of("s") = {}
      BY <1>10, <2>2
    <3>2. Worth(list, "s") = 0
      BY <1>12, <3>1, Zenon
    <3> QED BY <2>2, <3>2
  <2> QED BY <2>1, <2>2
<1>17. ASSUME NEW i \in 1 .. len, NEW j \in 1 .. len, i < j
       PROVE  Seconds[list[i].unit] > Seconds[list[j].unit]
  <2>1. CASE i = D /\ d > 0
    <3>1. (j = H /\ h > 0) \/ (j = M /\ m > 0) \/ (j = S /\ s > 0)
      BY <1>4, <1>5, <1>17, <2>1
    <3> QED BY <1>6, <1>11, <2>1, <3>1
  <2>2. CASE i = H /\ h > 0
    <3>1. (j = M /\ m > 0) \/ (j = S /\ s > 0)
      BY <1>4, <1>5, <1>17, <2>2
    <3> QED BY <1>6, <1>11, <2>2, <3>1
  <2>3. CASE i = M /\ m > 0
    <3>1. j = S /\ s > 0
      BY <1>4, <1>5, <1>17, <2>3
    <3> QED BY <1>6, <1>11, <2>3, <3>1
  <2>4. CASE i = S /\ s > 0
    <3>1. FALSE
      BY <1>4, <1>5, <1>17, <2>4
    <3> QED BY <3>1
  <2> QED BY <1>4, <2>1, <2>2, <2>3, <2>4
<1>18. ASSUME NEW i \in 1 .. len
       PROVE  /\ list[i].n < [d |-> U64, h |-> 24, m |-> 60, s |-> 60][list[i].unit]
              /\ list[i].n > 0
  BY <1>4, <1>6
<1> QED BY <1>2, <1>13, <1>14, <1>15, <1>16, <1>17, <1>18

(* The expiry on the page adds up, each unit at most once and none too     *)
(* large (components/functions.rs:90-118).                                *)
THEOREM ExpiriesExact ==
    ASSUME NEW seconds \in Nat, seconds \div 86400 < U64
    PROVE  ExpiryExact(seconds)
<1> DEFINE d == seconds \div 86400
           h == (seconds % 86400) \div 3600
           m == (seconds % 3600) \div 60
           s == seconds % 60
           list == Part(d, "d") \o Part(h, "h") \o Part(m, "m") \o Part(s, "s")
           shown == FormatExpiry(seconds)
<1>1. /\ d \in Nat /\ h \in Nat /\ h < 24 /\ m \in Nat /\ m < 60 /\ s \in Nat /\ s < 60
      /\ seconds = 86400 * d + 3600 * h + 60 * m + s
  BY ClockFacts
<1>2. shown = IF list = <<>> THEN <<[n |-> 0, unit |-> "s"]>> ELSE list
  BY SMT DEF FormatExpiry, Part
<1>3. d < U64
  OBVIOUS
<1> HIDE DEF d, h, m, s
<1>4. Listed(list, d, h, m, s)
  BY <1>1, PartsListed
<1>5. ExpiryExact(seconds) <=>
        /\ seconds = Worth(shown, "d") + Worth(shown, "h") + Worth(shown, "m") + Worth(shown, "s")
        /\ \A i, j \in DOMAIN shown :
                i < j => Seconds[shown[i].unit] > Seconds[shown[j].unit]
        /\ \A i \in DOMAIN shown :
                /\ shown[i].n < [d |-> U64, h |-> 24, m |-> 60, s |-> 60][shown[i].unit]
                /\ shown[i].n > 0 \/ seconds = 0
  BY SMT DEF ExpiryExact, Worth
<1> HIDE DEF list, shown
<1>6. CASE list = <<>>
  <2>1. d = 0 /\ h = 0 /\ m = 0 /\ s = 0
    <3>1. Parts(d) + Parts(h) + Parts(m) + Parts(s) = 0
      BY <1>4, <1>6 DEF Listed
    <3> QED BY <1>1, <3>1 DEF Parts
  <2>2. seconds = 0
    BY <1>1, <2>1
  <2> DEFINE r == [n |-> 0, unit |-> "s"]
  <2>3. shown = <<r>>
    BY <1>2, <1>6
  <2>4. DOMAIN shown = {1} /\ shown[1].n = 0 /\ shown[1].unit = "s"
    <3>1. DOMAIN <<r>> = {1} /\ <<r>>[1] = r
      <4> HIDE DEF r
      <4> QED OBVIOUS
    <3> QED BY <2>3, <3>1
  <2>5. Worth(shown, "d") = 0 /\ Worth(shown, "h") = 0 /\ Worth(shown, "m") = 0
    BY <2>4 DEF Worth
  <2>6. Worth(shown, "s") = 0
    <3>1. {i \in DOMAIN shown : shown[i].unit = "s"} = {1}
      BY <2>4
    <3>2. Worth(shown, "s") = shown[1].n * Seconds["s"]
      BY <3>1, WorthFacts
    <3> QED
      <4> DEFINE x == shown[1].n
                 y == Seconds["s"]
      <4>1. x = 0 /\ y = 1
        BY <2>4 DEF Seconds
      <4>2. Worth(shown, "s") = x * y
        BY <3>2
      <4> HIDE DEF x, y
      <4> QED BY <4>1, <4>2
  <2>7. U64 > 0 /\ U64 \in Nat
    BY U64Assumption
  <2> QED BY <1>5, <2>2, <2>4, <2>5, <2>6, <2>7
<1>7. CASE list # <<>>
  <2>1. shown = list
    BY <1>2, <1>7
  <2>2. /\ Worth(shown, "d") = 86400 * d /\ Worth(shown, "h") = 3600 * h
        /\ Worth(shown, "m") = 60 * m /\ Worth(shown, "s") = s
        /\ \A i, j \in DOMAIN shown : i < j => Seconds[shown[i].unit] > Seconds[shown[j].unit]
        /\ \A i \in DOMAIN shown :
                /\ shown[i].n < [d |-> U64, h |-> 24, m |-> 60, s |-> 60][shown[i].unit]
                /\ shown[i].n > 0
    BY <1>1, <1>3, <1>4, <2>1, ListedExactly
  <2>3. seconds = Worth(shown, "d") + Worth(shown, "h") + Worth(shown, "m") + Worth(shown, "s")
    BY <1>1, <2>2
  <2> QED BY <1>5, <2>2, <2>3
<1> QED BY <1>6, <1>7

-----------------------------------------------------------------------------
(***************************************************************************)
(* The payment request, and the page.                                       *)
(***************************************************************************)

(* The tagged fields of a request are found exactly if it is made of       *)
(* nothing but whole fields and its messages are text.                     *)
LEMMA FieldsExact ==
    ASSUME NEW text \in Texts
    PROVE  IF Whole(text) = {} THEN DecodeTaggedFields(text.words) = Invalid
           ELSE \A n \in Whole(text) :
                    DecodeTaggedFields(text.words) = Between(text.fields, 1, n)
<1> DEFINE words == text.words
           fields == text.fields
           m == Len(fields)
           from == FieldsFrom(words)
<1>1. Composed(text.stamp, fields, text.cut, words)
  BY TextsAssumption DEF Composed
<1>2. fields \in Seq(TaggedFields) /\ m \in Nat
  BY <1>1, PrefixFacts DEF Composed
<1>3. words \in Seq(Word) /\ Len(words) \in Nat
  BY <1>1, ComposedFacts
<1>4. FoundFrom(fields, words, 0)
  BY <1>1, FoundAll
<1>5. Whole(text) = Ends(fields, words, 0)
  <2>1. \A n \in 0 .. m :
            Compose(text.stamp, SubSeq(fields, 1, n), 0) = words <=> At(fields, n) = Len(words) + 1
    BY <1>1, WholeAt
  <2>2. 0 + 1 = 1
    OBVIOUS
  <2> HIDE DEF words, fields
  <2>3. Whole(text) = {n \in 0 .. m :
            /\ Compose(text.stamp, SubSeq(fields, 1, n), 0) = words
            /\ \A i \in 1 .. n : fields[i].tag = TagD => IsText(fields[i].data)}
    BY DEF Whole, fields, words
  <2> QED BY <2>1, <2>2, <2>3 DEF Ends
<1>6. At(fields, 0) = 8 /\ 0 + 1 = 1 /\ \A n \in 0 .. m : At(fields, n) \in Nat /\ At(fields, n) >= 8
  BY <1>2, AtFacts
<1> HIDE DEF words, fields
<1>7. CASE Len(words) < 7
  <2>1. DecodeTaggedFields(words) = Invalid
    BY <1>7 DEF DecodeTaggedFields
  <2>2. \A n \in 0 .. m : At(fields, n) # Len(words) + 1
    BY <1>3, <1>6, <1>7
  <2>3. \A n \in Ends(fields, words, 0) : n \in 0 .. m /\ At(fields, n) = Len(words) + 1
    BY DEF Ends
  <2>4. Whole(text) = {}
    BY <1>5, <2>2, <2>3
  <2> QED BY <2>1, <2>4 DEF words
<1>8. CASE ~(Len(words) < 7)
  <2>1. DecodeTaggedFields(words) = from[8]
    BY <1>8 DEF DecodeTaggedFields
  <2>2. At(fields, 0) <= Len(words) + 1
    BY <1>3, <1>6, <1>8
  <2>3. IF Ends(fields, words, 0) = {} THEN from[8] = Invalid
        ELSE \A n \in Ends(fields, words, 0) : from[8] = Between(fields, 1, n)
    BY <1>4, <1>6, <2>2 DEF FoundFrom
  <2> QED BY <1>5, <2>1, <2>3 DEF words, fields
<1> QED BY <1>7, <1>8

(* What they are, then.                                                    *)
LEMMA WholeFacts ==
    ASSUME NEW text \in Texts, NEW n \in Whole(text)
    PROVE  LET d == LastOf(text.fields, TagD, 1, n)
               x == LastOf(text.fields, TagX, 1, n)
               found == Between(text.fields, 1, n)
           IN  /\ found \in Found
               /\ found.description = IF d = 0 THEN None ELSE Octets(text.fields[d].data)
               /\ found.expiry = IF x = 0 THEN None ELSE Number(text.fields[x].data) % U64
               /\ d # 0 => Octets(text.fields[d].data) \in Strings
               /\ x # 0 => /\ Number(text.fields[x].data) % U64 \in Nat
                           /\ Number(text.fields[x].data) % U64 < U64
<1> DEFINE fields == text.fields
           m == Len(fields)
           d == LastOf(fields, TagD, 1, n)
           x == LastOf(fields, TagX, 1, n)
           found == Between(fields, 1, n)
<1>1. fields \in Seq(TaggedFields)
  BY TextsAssumption
<1>2. n \in 0 .. m /\ \A i \in 1 .. n : fields[i].tag = TagD => IsText(fields[i].data)
  BY DEF Whole
<1> HIDE DEF fields
<1>3. m \in Nat /\ n \in Nat /\ n <= m /\ \A i \in 1 .. m : fields[i] \in TaggedFields
  BY <1>1, <1>2, PrefixFacts
<1>4. /\ d \in {0} \cup (1 .. n) /\ (d # 0 => fields[d].tag = TagD)
      /\ x \in {0} \cup (1 .. n)
  <2>1. 1 \in Nat /\ 1 > 0
    OBVIOUS
  <2> QED BY <1>1, <1>3, <2>1, LastFacts
<1>5. found = [description |-> IF d = 0 THEN None ELSE Octets(fields[d].data),
               expiry      |-> IF x = 0 THEN None ELSE Number(fields[x].data) % U64]
  BY DEF Between, FoundIn
<1> HIDE DEF d, x, found
<1>6. d # 0 => Octets(fields[d].data) \in Strings /\ Octets(fields[d].data) \in Seq(Nat)
  <2> SUFFICES ASSUME d # 0
               PROVE  Octets(fields[d].data) \in Strings /\ Octets(fields[d].data) \in Seq(Nat)
    OBVIOUS
  <2>1. d \in 1 .. n /\ d \in 1 .. m
    BY <1>3, <1>4
  <2>2. IsText(fields[d].data)
    BY <1>2, <1>4, <2>1
  <2>3. fields[d] \in TaggedFields
    BY <1>3, <2>1
  <2>4. fields[d].data \in Seq(Word)
    BY <2>3, PieceFacts
  <2> QED BY <2>2, <2>4, MessageExact, OctetsOf
<1>7. x # 0 => Number(fields[x].data) % U64 \in Nat /\ Number(fields[x].data) % U64 < U64
  <2> SUFFICES ASSUME x # 0
               PROVE  Number(fields[x].data) % U64 \in Nat /\ Number(fields[x].data) % U64 < U64
    OBVIOUS
  <2>1. x \in 1 .. m
    BY <1>3, <1>4
  <2>2. fields[x] \in TaggedFields
    BY <1>3, <2>1
  <2>3. fields[x].data \in Seq(Word)
    BY <2>2, PieceFacts
  <2> QED BY <2>3, BigEndianExact
<1>8. found \in Found
  BY <1>5, <1>6, <1>7 DEF Found
<1>9. /\ found.description = IF d = 0 THEN None ELSE Octets(fields[d].data)
      /\ found.expiry = IF x = 0 THEN None ELSE Number(fields[x].data) % U64
  BY <1>5
<1> QED BY <1>6, <1>7, <1>8, <1>9 DEF found, d, x, fields

(* Whatever its timestamp and fields, and wherever it is cut short: what   *)
(* is decoded of a payment request is what it says, and it is refused only *)
(* if it is invalid or its amount too long for a u64                       *)
(* (components/functions.rs:52-78,223-272).                                *)
THEOREM DecodeExact ==
    ASSUME NEW text \in Texts
    PROVE  Exact(text, Decode(text)) /\ Decode(text) \in Decoded \cup {Invalid}
<1> DEFINE fields == DecodeTaggedFields(text.words)
           amount == ParseAmount(text.hrp)
           expiry == IF fields.expiry = None THEN 3600 ELSE fields.expiry
           decoded == [amount |-> amount, description |-> fields.description, expiry |-> expiry]
           bad == text.form # "bech32" \/ fields = Invalid \/ amount = Invalid
<1>1. Decode(text) = IF bad THEN Invalid ELSE decoded
  BY DEF Decode
<1>2. text.hrp \in Hrps
  BY TextsAssumption
<1>3. /\ amount = Invalid => Unpayable(text.hrp) \/ TooLong(text.hrp)
      /\ amount # Invalid => AmountExact(text.hrp, amount)
      /\ amount \in Nat \cup {None, Invalid}
  BY <1>2, AmountsExact, AmountType
<1>4. IF Whole(text) = {} THEN fields = Invalid
      ELSE \A n \in Whole(text) : fields = Between(text.fields, 1, n)
  BY FieldsExact
<1>5. CASE Whole(text) = {} \/ bad
  <2>1. Decode(text) = Invalid
    BY <1>1, <1>4, <1>5
  <2>2. fields = Invalid => Whole(text) = {}
    <3>1. ASSUME NEW n \in Whole(text) PROVE fields # Invalid
      <4>1. fields \in Found
        BY <1>4, WholeFacts
      <4> QED BY <4>1, InvalidAssumption
    <3> QED BY <3>1
  <2>3. \/ text.form # "bech32" \/ Whole(text) = {}
        \/ Unpayable(text.hrp) \/ TooLong(text.hrp)
    BY <1>3, <1>5, <2>2
  <2> QED BY <2>1, <2>3 DEF Exact
<1>6. CASE Whole(text) # {} /\ ~bad
  <2>1. PICK n \in Whole(text) : TRUE
    BY <1>6
  <2> DEFINE d == LastOf(text.fields, TagD, 1, n)
             x == LastOf(text.fields, TagX, 1, n)
             octets == Octets(text.fields[d].data)
             number == Number(text.fields[x].data) % U64
  <2>2. fields = Between(text.fields, 1, n)
    BY <1>4, <2>1
  <2>3. /\ fields.description = IF d = 0 THEN None ELSE octets
        /\ fields.expiry = IF x = 0 THEN None ELSE number
        /\ d # 0 => octets \in Strings
        /\ x # 0 => number \in Nat /\ number < U64
    BY <2>1, <2>2, WholeFacts
  <2> HIDE DEF d, x, octets, number, fields, amount
  <2>4. expiry = IF x = 0 THEN 3600 ELSE number
    <3>1. x # 0 => number # None
      BY <2>3, NoneAssumption
    <3> QED BY <2>3, <3>1
  <2>5. expiry \in Nat /\ expiry \div 86400 < U64
    <3>1. U64 \in Nat /\ U64 > 0 /\ 3600 \div 86400 = 0
      BY U64Assumption
    <3>2. \A e \in Nat : e \div 86400 <= e /\ e \div 86400 \in Nat
      OBVIOUS
    <3>3. CASE x = 0
      <4>1. expiry = 3600
        BY <2>4, <3>3
      <4> HIDE DEF expiry
      <4> QED BY <3>1, <4>1
    <3>4. CASE x # 0
      <4>1. expiry \in Nat /\ expiry < U64
        BY <2>3, <2>4, <3>4
      <4> HIDE DEF expiry
      <4> QED BY <3>1, <3>2, <4>1
    <3> QED BY <3>3, <3>4
  <2> HIDE DEF expiry
  <2>6. ExpiryExact(expiry)
    BY <2>5, ExpiriesExact
  <2>7. amount # Invalid /\ text.form = "bech32" /\ Decode(text) = decoded
    BY <1>1, <1>6
  <2>8. AmountExact(text.hrp, amount) /\ amount \in Nat \cup {None}
    BY <1>3, <2>7 DEF amount
  <2>9. decoded \in Decoded
    BY <2>3, <2>5, <2>8 DEF Decoded
  <2>10. /\ decoded.amount = amount /\ decoded.expiry = expiry
         /\ decoded.description = IF d = 0 THEN None ELSE octets
    BY <2>3
  <2> HIDE DEF decoded
  <2>11. decoded # Invalid
    BY <2>9, InvalidAssumption
  <2>12. \E k \in Whole(text) :
            LET e == LastOf(text.fields, TagD, 1, k)
                y == LastOf(text.fields, TagX, 1, k)
            IN  /\ decoded.description = IF e = 0 THEN None ELSE Octets(text.fields[e].data)
                /\ decoded.expiry = IF y = 0 THEN 3600 ELSE Number(text.fields[y].data) % U64
    <3>1. /\ decoded.description = IF d = 0 THEN None ELSE octets
          /\ decoded.expiry = IF x = 0 THEN 3600 ELSE number
      BY <2>4, <2>10
    <3> QED BY <2>1, <3>1 DEF d, x, octets, number
  <2>13. Exact(text, decoded)
    BY <2>6, <2>7, <2>8, <2>10, <2>11, <2>12, Zenon DEF Exact
  <2> QED BY <2>7, <2>9, <2>13
<1> QED BY <1>5, <1>6

(* The variables have their types.                                         *)
LEMMA TypeInit == Init => TypeOK
<1>1. 0 \in 0 .. MaxCalls
  BY MaxCallsAssumption
<1> SUFFICES ASSUME Init PROVE TypeOK
  OBVIOUS
<1>2. request \in Texts \cup {Empty} /\ preview \in Decoded \cup {Invalid, None}
  BY DEF Init
<1>3. paying \subseteq 1 .. MaxCalls /\ creating \subseteq 1 .. MaxCalls
  BY DEF Init
<1>4. sent \in 0 .. MaxCalls /\ made \in 0 .. MaxCalls /\ draft \in Amounts \cup {0}
  BY <1>1 DEF Init
<1>5. payLoading \in BOOLEAN /\ createLoading \in BOOLEAN /\ copied \in BOOLEAN
  BY DEF Init
<1>6. /\ result \in 1 .. MaxCalls \cup {None} /\ payError \in {None, "empty", "failed"}
      /\ invoice \in 1 .. MaxCalls \cup {None} /\ clipboard \in 1 .. MaxCalls \cup {None}
      /\ createError \in {None, "invalid", "failed"}
  BY DEF Init
<1> QED BY <1>2, <1>3, <1>4, <1>5, <1>6 DEF TypeOK

(* The send panel keeps them; the preview is decoded of a text that may be  *)
(* put into the box.                                                        *)
LEMMA TypeSend ==
    ASSUME TypeOK, \/ \E text \in Texts \cup {Empty} : Input(text)
                   \/ SubmitEmpty \/ Pay \/ PayAnswer
    PROVE  TypeOK'
<1>1. ASSUME NEW text \in Texts \cup {Empty}, Input(text) PROVE TypeOK'
  <2>1. request' = text /\ preview' = IF IsBlank(text) THEN None ELSE Decode(text)
    BY <1>1 DEF Input
  <2>2. preview' \in Decoded \cup {Invalid, None}
    <3>1. CASE IsBlank(text)
      BY <2>1, <3>1
    <3>2. CASE ~IsBlank(text)
      <4>1. text \in Texts
        BY <3>2 DEF IsBlank, Empty
      <4> QED BY <2>1, <3>2, <4>1, DecodeExact
    <3> QED BY <3>1, <3>2
  <2> QED BY <1>1, <2>1, <2>2 DEF Input, TypeOK, receiveVars
<1>2. CASE SubmitEmpty
  BY <1>2 DEF SubmitEmpty, TypeOK, receiveVars
<1>3. CASE Pay
  <2>1. sent' = sent + 1 /\ sent < MaxCalls /\ paying' = paying \cup {sent'}
    BY <1>3 DEF Pay
  <2>2. sent' \in 0 .. MaxCalls /\ sent' \in 1 .. MaxCalls
    BY <2>1, MaxCallsAssumption DEF TypeOK
  <2>3. paying' \subseteq 1 .. MaxCalls
    BY <2>1, <2>2 DEF TypeOK
  <2> QED BY <1>3, <2>2, <2>3 DEF Pay, ClearReceive, TypeOK
<1>4. ASSUME NEW n \in paying, PaySucceeds(n) \/ PayFails(n) PROVE TypeOK'
  <2>1. n \in 1 .. MaxCalls /\ paying' \subseteq 1 .. MaxCalls
    BY <1>4 DEF TypeOK, PaySucceeds, PayFails
  <2>2. CASE PaySucceeds(n)
    BY <2>1, <2>2 DEF PaySucceeds, TypeOK, receiveVars
  <2>3. CASE PayFails(n)
    BY <2>1, <2>3 DEF PayFails, TypeOK, receiveVars
  <2> QED BY <1>4, <2>2, <2>3
<1> QED BY <1>1, <1>2, <1>3, <1>4 DEF PayAnswer

(* The receive panel keeps them.                                            *)
LEMMA TypeReceive ==
    ASSUME TypeOK, \/ \E amount \in Amounts : Type(amount)
                   \/ CreateInvalid \/ Create \/ CreateAnswer \/ CopyInvoice
    PROVE  TypeOK'
<1>1. ASSUME NEW amount \in Amounts, Type(amount) PROVE TypeOK'
  BY <1>1 DEF Type, TypeOK, sendVars
<1>2. CASE CreateInvalid
  BY <1>2 DEF CreateInvalid, TypeOK, sendVars
<1>3. CASE Create
  <2>1. made' = made + 1 /\ made < MaxCalls /\ creating' = creating \cup {made'}
    BY <1>3 DEF Create
  <2>2. made' \in 0 .. MaxCalls /\ made' \in 1 .. MaxCalls
    BY <2>1, MaxCallsAssumption DEF TypeOK
  <2>3. creating' \subseteq 1 .. MaxCalls
    BY <2>1, <2>2 DEF TypeOK
  <2> QED BY <1>3, <2>2, <2>3 DEF Create, ClearSend, TypeOK
<1>4. ASSUME NEW n \in creating, CreateSucceeds(n) \/ CreateFails(n) PROVE TypeOK'
  <2>1. n \in 1 .. MaxCalls /\ creating' \subseteq 1 .. MaxCalls
    BY <1>4 DEF TypeOK, CreateSucceeds, CreateFails
  <2>2. CASE CreateSucceeds(n)
    BY <2>1, <2>2 DEF CreateSucceeds, TypeOK, sendVars
  <2>3. CASE CreateFails(n)
    BY <2>1, <2>3 DEF CreateFails, TypeOK, sendVars
  <2> QED BY <1>4, <2>2, <2>3
<1>5. CASE CopyInvoice
  BY <1>5 DEF CopyInvoice, TypeOK, sendVars
<1> QED BY <1>1, <1>2, <1>3, <1>4, <1>5 DEF CreateAnswer

(* Every variable has its type; above all, whatever is typed into the box, *)
(* what is decoded of it has (components/functions.rs:6-11).               *)
THEOREM TypeCorrect == Spec => []TypeOK
<1>1. TypeOK /\ [Next]_vars => TypeOK'
  <2> SUFFICES ASSUME TypeOK, [Next]_vars PROVE TypeOK'
    OBVIOUS
  <2>1. CASE Next
    BY <2>1, TypeSend, TypeReceive DEF Next
  <2>2. CASE UNCHANGED vars
    BY <2>2 DEF vars, sendVars, receiveVars, TypeOK
  <2> QED BY <2>1, <2>2
<1> QED BY <1>1, TypeInit, PTL DEF Spec

(* Under the box is what BOLT#11 says of the text in it, for any payment   *)
(* request; a text is called invalid only if it is, or its amount too long *)
(* for a u64; nothing is left of a text that is gone                       *)
(* (send_panel.rs:24-61,132-144).                                          *)
THEOREM PreviewsExact == Spec => []PreviewExact
<1>1. TypeOK /\ PreviewFollows => PreviewExact
  <2> SUFFICES ASSUME TypeOK, PreviewFollows PROVE PreviewExact
    OBVIOUS
  <2>1. CASE IsBlank(request)
    BY <2>1 DEF PreviewFollows, PreviewExact
  <2>2. CASE ~IsBlank(request)
    <3>1. request \in Texts /\ preview = Decode(request)
      BY <2>2 DEF PreviewFollows, TypeOK, IsBlank, Empty
    <3>2. Exact(request, preview) /\ preview \in Decoded \cup {Invalid}
      BY <3>1, DecodeExact
    <3>3. preview # None
      BY <3>2, NoneAssumption, InvalidAssumption
    <3> QED BY <2>2, <3>2, <3>3 DEF PreviewExact
  <2> QED BY <2>1, <2>2
<1> QED BY <1>1, TypeCorrect, PreviewOfRequest, PTL
=============================================================================
