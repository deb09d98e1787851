---------------------- MODULE ConvergenceLayer_proofs ----------------------
(***************************************************************************)
(* Proofs about ConvergenceLayer, for every queue size, every set of peers *)
(* and bundles and every retry limit.                                      *)
(***************************************************************************)
EXTENDS ConvergenceLayer, Lists_proofs, FiniteSetTheorems, SequenceTheorems, TLAPS

Locks == Seq([nb : Nodes \cup {None}, old : BOOLEAN])

(***************************************************************************)
(* Blocks and finite sets of them                                          *)
(***************************************************************************)
\* Every set of blocks is finite, and its size is a natural number.
LEMMA BlocksFinite ==
  ASSUME NEW F, F \subseteq Blocks
  PROVE  IsFiniteSet(F) /\ Cardinality(F) \in Nat
<1>1. IsFiniteSet(Blocks)
  BY SizeAssumption, FS_Interval DEF Blocks
<1>2. IsFiniteSet(F)
  BY <1>1, FS_Subset
<1> QED
  BY <1>2, FS_CardinalityType

\* memb_alloc returns a free block when there is one.
LEMMA NextFreeIsFree ==
  ASSUME NEW p, p.used \subseteq Blocks, ~Full(p)
  PROVE  NextFree(p) \in Blocks \ p.used
<1>1. Blocks \ p.used # {}
  BY DEF Full
<1>2. Blocks \ p.used \subseteq Nat
  BY SizeAssumption DEF Blocks
<1>3. \E t \in Blocks \ p.used : \A u \in Blocks \ p.used : t <= u
  BY <1>1, <1>2, Least
<1> QED
  BY <1>3 DEF NextFree

(***************************************************************************)
(* The operations on the pool preserve its type                            *)
(***************************************************************************)
LEMMA BlankIsTicket == Blank \in Ticket
  BY SizeAssumption DEF Blank, Ticket

LEMMA AllocType ==
  ASSUME NEW p, IsPool(p), ~Full(p), NEW tk \in Ticket, NEW high
  PROVE  IsPool(Alloc(p, tk, high))
<1>1. NextFree(p) \in Blocks
  BY NextFreeIsFree DEF IsPool
<1> QED
  BY <1>1 DEF IsPool, Alloc

LEMMA FreeAllType ==
  ASSUME NEW p, IsPool(p), NEW F, F \subseteq Blocks
  PROVE  IsPool(FreeAll(p, F))
<1>1. Cardinality(F) \in Nat
  BY BlocksFinite
<1>2. Cardinality({t \in F : Queued(p.ticket[t])}) \in Nat
  BY BlocksFinite
<1> QED
  BY <1>1, <1>2, BlankIsTicket DEF IsPool, FreeAll

LEMMA PutType ==
  ASSUME NEW p, IsPool(p), NEW t \in Blocks, NEW tk \in Ticket
  PROVE  IsPool(Put(p, t, tk))
  BY DEF IsPool, Put

(***************************************************************************)
(* The list holds the blocks in use, each of them once, and every          *)
(* operation on the pool keeps it so; a block that is freed again is not   *)
(* in the list any more.                                                   *)
(***************************************************************************)
Elements(s) == {s[i] : i \in DOMAIN s}
Distinct(s) == \A i, j \in DOMAIN s : s[i] = s[j] => i = j
Matched(p) == p.list \in Seq(Blocks) /\ Distinct(p.list) /\ Elements(p.list) = p.used
Good(p) == IsPool(p) /\ Matched(p)
Typed == TypeOK /\ Good(pool)

\* Where the elements of a sequence with one more are, which is at its end or in front.
LEMMA AppendPlaces ==
  ASSUME NEW S, NEW s \in Seq(S), NEW x \in S
  PROVE  LET q == Append(s, x)
             n == Len(s) + 1
         IN /\ q \in Seq(S) /\ n \in DOMAIN q /\ q[n] = x
            /\ \A i \in DOMAIN q : i \in Nat /\ (i = n \/ i \in DOMAIN s)
            /\ \A i \in DOMAIN s : i \in DOMAIN q /\ q[i] = s[i] /\ i < n
<1> DEFINE q == Append(s, x)
           n == Len(s) + 1
<1>1. /\ q \in Seq(S) /\ DOMAIN q = 1 .. n /\ DOMAIN s = 1 .. n - 1 /\ n \in Nat /\ n > 0
      /\ q[n] = x /\ \A i \in 1 .. n - 1 : q[i] = s[i]
  BY AppendProperties
<1> HIDE DEF q, n
<1>2. \A i \in DOMAIN q : i \in Nat /\ (i = n \/ i \in DOMAIN s)
  BY <1>1
<1>3. \A i \in DOMAIN s : i \in DOMAIN q /\ q[i] = s[i] /\ i < n
  BY <1>1
<1> QED
  BY <1>1, <1>2, <1>3 DEF q, n

LEMMA InFrontPlaces ==
  ASSUME NEW S, NEW s \in Seq(S), NEW x \in S
  PROVE  LET q == <<x>> \o s
         IN /\ q \in Seq(S) /\ 1 \in DOMAIN q /\ q[1] = x
            /\ \A i \in DOMAIN q : i \in Nat /\ (i = 1 \/ (i - 1 \in DOMAIN s /\ q[i] = s[i - 1]))
            /\ \A i \in DOMAIN s : i \in Nat /\ i + 1 \in DOMAIN q /\ q[i + 1] = s[i]
<1> DEFINE q == <<x>> \o s
           n == Len(s) + 1
<1>0. <<x>> \in Seq(S) /\ Len(<<x>>) = 1 /\ <<x>>[1] = x
  OBVIOUS
<1>1. /\ q \in Seq(S) /\ DOMAIN q = 1 .. n /\ DOMAIN s = 1 .. n - 1 /\ n \in Nat /\ n > 0
      /\ \A i \in 1 .. n : q[i] = IF i <= 1 THEN x ELSE s[i - 1]
  <2>1. /\ q \in Seq(S) /\ Len(q) = 1 + Len(s)
        /\ \A i \in 1 .. 1 + Len(s) : q[i] = IF i <= 1 THEN <<x>>[i] ELSE s[i - 1]
    BY <1>0, ConcatProperties
  <2> HIDE DEF q
  <2>2. Len(s) \in Nat /\ 1 + Len(s) = n /\ DOMAIN s = 1 .. Len(s) /\ DOMAIN q = 1 .. Len(q)
    BY <2>1
  <2>3. \A i \in 1 .. n : i <= 1 => i = 1
    BY <2>2
  <2> QED
    BY <1>0, <2>1, <2>2, <2>3
<1> HIDE DEF q, n
<1>2. 1 \in DOMAIN q /\ q[1] = x
  BY <1>1
<1>3. ASSUME NEW i \in DOMAIN q
      PROVE  i \in Nat /\ (i = 1 \/ (i - 1 \in DOMAIN s /\ q[i] = s[i - 1]))
  <2>1. i \in Nat /\ (i = 1 \/ (i \in 1 .. n /\ i - 1 \in DOMAIN s /\ ~(i <= 1)))
    BY <1>1
  <2> QED
    BY <1>1, <2>1
<1>4. ASSUME NEW i \in DOMAIN s  PROVE i \in Nat /\ i + 1 \in DOMAIN q /\ q[i + 1] = s[i]
  <2>1. i \in Nat /\ i + 1 \in 1 .. n /\ ~(i + 1 <= 1) /\ (i + 1) - 1 = i
    BY <1>1
  <2> QED
    BY <1>1, <2>1
<1> QED
  BY <1>1, <1>2, <1>3, <1>4 DEF q

LEMMA AppendDistinct ==
  ASSUME NEW S, NEW s \in Seq(S), NEW x \in S, x \notin Elements(s), Distinct(s)
  PROVE  LET q == Append(s, x)
         IN q \in Seq(S) /\ Distinct(q) /\ Elements(q) = Elements(s) \cup {x}
<1> DEFINE q == Append(s, x)
           n == Len(s) + 1
<1>1. /\ q \in Seq(S) /\ n \in DOMAIN q /\ q[n] = x
      /\ \A i \in DOMAIN q : i = n \/ i \in DOMAIN s
      /\ \A i \in DOMAIN s : i \in DOMAIN q /\ q[i] = s[i]
  BY AppendPlaces
<1> HIDE DEF q, n
<1>2. Distinct(q) /\ Elements(q) = Elements(s) \cup {x}
  BY <1>1 DEF Distinct, Elements
<1> QED
  BY <1>1, <1>2 DEF q

LEMMA InFrontDistinct ==
  ASSUME NEW S, NEW s \in Seq(S), NEW x \in S, x \notin Elements(s), Distinct(s)
  PROVE  LET q == <<x>> \o s
         IN q \in Seq(S) /\ Distinct(q) /\ Elements(q) = Elements(s) \cup {x}
<1> DEFINE q == <<x>> \o s
<1>1. /\ q \in Seq(S) /\ 1 \in DOMAIN q /\ q[1] = x
      /\ \A i \in DOMAIN q : i \in Nat /\ (i = 1 \/ (i - 1 \in DOMAIN s /\ q[i] = s[i - 1]))
      /\ \A i \in DOMAIN s : i + 1 \in DOMAIN q /\ q[i + 1] = s[i]
  BY InFrontPlaces
<1> HIDE DEF q
<1>2. Distinct(q)
  <2> SUFFICES ASSUME NEW i \in DOMAIN q, NEW j \in DOMAIN q, q[i] = q[j]  PROVE i = j
    BY DEF Distinct
  <2>1. i \in Nat /\ j \in Nat /\ x \notin Elements(s)
    BY <1>1
  <2>2. i - 1 \in DOMAIN s /\ j - 1 \in DOMAIN s /\ s[i - 1] = s[j - 1] => i - 1 = j - 1
    BY DEF Distinct
  <2> QED
    BY <1>1, <2>1, <2>2 DEF Elements
<1>3. Elements(q) = Elements(s) \cup {x}
  <2>1. ASSUME NEW i \in DOMAIN q  PROVE q[i] = x \/ q[i] \in Elements(s)
    BY <1>1 DEF Elements
  <2>2. ASSUME NEW i \in DOMAIN s  PROVE s[i] \in Elements(q)
    BY <1>1 DEF Elements
  <2>3. x \in Elements(q)
    BY <1>1 DEF Elements
  <2> QED
    BY <2>1, <2>2, <2>3 DEF Elements
<1> QED
  BY <1>1, <1>2, <1>3 DEF q

LEMMA AllocGood ==
  ASSUME NEW p, Good(p), ~Full(p), NEW tk \in Ticket, NEW high \in BOOLEAN
  PROVE  Good(Alloc(p, tk, high))
<1> DEFINE q == Alloc(p, tk, high)
           b == NextFree(p)
           s == p.list
<1>1. IsPool(q)
  BY AllocType DEF Good
<1>2. b \in Blocks \ p.used
  BY NextFreeIsFree DEF Good, IsPool
<1>3. q.used = p.used \cup {b} /\ q.list = IF high THEN <<b>> \o s ELSE Append(s, b)
  BY DEF Alloc
<1>4. s \in Seq(Blocks) /\ Distinct(s) /\ Elements(s) = p.used
  BY DEF Good, Matched
<1> HIDE DEF q, b, s
<1>5. q.list \in Seq(Blocks) /\ Distinct(q.list) /\ Elements(q.list) = Elements(s) \cup {b}
  BY <1>2, <1>3, <1>4, AppendDistinct, InFrontDistinct
<1> QED
  BY <1>1, <1>3, <1>4, <1>5 DEF q, Good, Matched

\* What is left of a list when the tickets of F are taken out, and where it was.
LeftFrom(s, F, r, h) ==
  /\ \A i \in DOMAIN r : h[i] \in DOMAIN s /\ r[i] = s[h[i]] /\ r[i] \notin F
  /\ \A i, j \in DOMAIN r : i < j => h[i] < h[j]
  /\ \A k \in DOMAIN s : s[k] \notin F => \E i \in DOMAIN r : h[i] = k

LEMMA ListLeft ==
  ASSUME NEW s \in Seq(Blocks), NEW F
  PROVE  ListWithout(s, F) \in Seq(Blocks) /\ \E h : LeftFrom(s, F, ListWithout(s, F), h)
<1> DEFINE K == {i \in DOMAIN s : s[i] \notin F}
           r == Select(s, K)
<1>1. r \in Seq(Blocks) /\ DOMAIN r = 1 .. Len(r) /\ ListWithout(s, F) = r
  BY SelectOrder DEF ListWithout
<1>2. PICK h : Order(s, K, h)
  BY SelectOrder
<1>3. /\ h \in [1 .. Len(r) -> K]
      /\ \A i, j \in 1 .. Len(r) : i < j => h[i] < h[j]
      /\ \A k \in K : \E i \in 1 .. Len(r) : h[i] = k
      /\ \A i \in 1 .. Len(r) : r[i] = s[h[i]]
  BY <1>2, Zenon DEF Order
<1> HIDE DEF r
<1>4. \A i \in DOMAIN r : h[i] \in DOMAIN s /\ r[i] = s[h[i]] /\ r[i] \notin F
  BY <1>1, <1>3
<1>5. \A k \in DOMAIN s : s[k] \notin F => \E i \in DOMAIN r : h[i] = k
  BY <1>1, <1>3
<1>6. LeftFrom(s, F, r, h)
  BY <1>1, <1>3, <1>4, <1>5 DEF LeftFrom
<1> QED
  BY <1>1, <1>6

LEMMA FreeAllGood ==
  ASSUME NEW p, Good(p), NEW F, F \subseteq Blocks
  PROVE  Good(FreeAll(p, F))
<1> DEFINE q == FreeAll(p, F)
           s == p.list
           r == ListWithout(s, F)
<1>1. IsPool(q) /\ q.used = p.used \ F /\ q.list = r
  BY FreeAllType DEF Good, FreeAll
<1>2. s \in Seq(Blocks) /\ Distinct(s) /\ Elements(s) = p.used
  BY DEF Good, Matched
<1> HIDE DEF q, s
<1>3. PICK h : LeftFrom(s, F, r, h)
  BY <1>2, ListLeft
<1>4. r \in Seq(Blocks)
  BY <1>2, ListLeft
<1> HIDE DEF r
<1>5. Distinct(r)
  <2> SUFFICES ASSUME NEW i \in DOMAIN r, NEW j \in DOMAIN r, r[i] = r[j]  PROVE i = j
    BY DEF Distinct
  <2>1. h[i] = h[j]
    BY <1>2, <1>3 DEF Distinct, LeftFrom
  <2>2. h[i] \in Nat /\ i \in Nat /\ j \in Nat
    BY <1>2, <1>3, <1>4 DEF LeftFrom
  <2> QED
    BY <1>3, <2>1, <2>2 DEF LeftFrom
<1>6. Elements(r) = Elements(s) \ F
  BY <1>3 DEF Elements, LeftFrom
<1> QED
  BY <1>1, <1>2, <1>4, <1>5, <1>6 DEF q, Good, Matched

LEMMA PutGood ==
  ASSUME NEW p, Good(p), NEW t \in Blocks, NEW tk \in Ticket
  PROVE  Good(Put(p, t, tk))
<1>1. IsPool(Put(p, t, tk))
  BY PutType DEF Good
<1>2. Put(p, t, tk).list = p.list /\ Put(p, t, tk).used = p.used
  BY DEF Put, Good, IsPool
<1> QED
  BY <1>1, <1>2 DEF Good, Matched

LEMMA RoutingSentType ==
  ASSUME NEW p, Good(p), NEW t \in Blocks, NEW status, NEW q \in RoutingSent(p, t, status)
  PROVE  Good(q)
<1>1. TicketsOf(p, p.ticket[t].bundle) \subseteq Blocks
  BY DEF TicketsOf, Good, IsPool
<1>2. Good(FreeAll(p, {t}))
  BY FreeAllGood
<1>3. Good(FreeAll(FreeAll(p, TicketsOf(p, p.ticket[t].bundle)), {t}))
  BY <1>1, FreeAllGood
<1> QED
  BY <1>2, <1>3 DEF RoutingSent

(***************************************************************************)
(* The locks                                                               *)
(***************************************************************************)
LEMMA SetBlockedType ==
  ASSUME NEW bl \in Locks, NEW n \in Nodes \cup {None}
  PROVE  SetBlocked(bl, n) \in Locks
<1>1. [nb |-> n, old |-> FALSE] \in [nb : Nodes \cup {None}, old : BOOLEAN]
  OBVIOUS
<1>2. Append(bl, [nb |-> n, old |-> FALSE]) \in Locks
  BY <1>1 DEF Locks
<1> QED
  BY <1>2 DEF SetBlocked

\* The lock that set_unblocked removes is the first of the neighbour.
LEMMA FirstLock ==
  ASSUME NEW bl \in Locks, NEW n,
         {i \in DOMAIN bl : bl[i].nb = n} # {}
  PROVE  LET mine == {i \in DOMAIN bl : bl[i].nb = n}
         IN (CHOOSE i \in mine : \A j \in mine : i <= j) \in 1 .. Len(bl)
<1> DEFINE mine == {i \in DOMAIN bl : bl[i].nb = n}
<1>1. mine \subseteq Nat /\ mine \subseteq 1 .. Len(bl)
  BY DEF Locks
<1>2. \E i \in mine : \A j \in mine : i <= j
  BY <1>1, Least
<1> QED
  BY <1>1, <1>2

LEMMA SetUnblockedType ==
  ASSUME NEW bl \in Locks, NEW n
  PROVE  SetUnblocked(bl, n) \in Locks
<1> DEFINE mine == {i \in DOMAIN bl : bl[i].nb = n}
<1>1. CASE mine = {}
  BY <1>1 DEF SetUnblocked
<1>2. CASE mine # {}
  <2>1. (CHOOSE i \in mine : \A j \in mine : i <= j) \in 1 .. Len(bl)
    BY <1>2, FirstLock
  <2>2. RemoveAt(bl, CHOOSE i \in mine : \A j \in mine : i <= j) \in Locks
    BY <2>1, RemoveAtType DEF Locks
  <2> QED
    BY <1>2, <2>2 DEF SetUnblocked
<1> QED
  BY <1>1, <1>2

(***************************************************************************)
(* The status callback and the transmission of a frame                     *)
(***************************************************************************)
LEMMA AckStatusType ==
  ASSUME NEW p, Good(p), NEW t \in Blocks, NEW o, NEW q \in AckStatus(p, t, o)
  PROVE  Good(q)
<1> DEFINE tk == p.ticket[t]
           tried == [tk EXCEPT !.flags = @ \ {"transit"}, !.tries = @ + 1,
                               !.failed = @ + (IF o = "nosend" THEN 1 ELSE 0),
                               !.due = (o = "nosend")]
<1>1. tk \in Ticket
  BY DEF Good, IsPool
<1>2. tried \in Ticket
  <2>1. tk.flags \ {"transit"} \in SUBSET Flag /\ (o = "nosend") \in BOOLEAN
    BY <1>1 DEF Ticket
  <2>2. tk.tries + 1 \in Nat /\ tk.failed + (IF o = "nosend" THEN 1 ELSE 0) \in Nat
    BY <1>1 DEF Ticket
  <2> QED
    BY <1>1, <2>1, <2>2 DEF Ticket
<1>3. q = FreeAll(p, {t}) \/ q = Put(p, t, tried)
  BY DEF AckStatus
<1> QED
  BY <1>2, <1>3, FreeAllGood, PutGood

LEMMA BundleStatusType ==
  ASSUME NEW p, Good(p), NEW t \in Blocks, NEW o, NEW q \in BundleStatus(p, t, o)
  PROVE  Good(q)
<1> DEFINE tk == [p.ticket[t] EXCEPT !.flags = @ \ {"transit"}]
           tried == [tk EXCEPT !.tries = @ + (IF o = "noack" THEN 1 ELSE 0),
                               !.failed = @ + (IF o = "nosend" THEN 1 ELSE 0)]
           retry == [tried EXCEPT !.flags = @ \cup {"active"}]
           given_up == [tried EXCEPT !.flags = @ \cup {"fail"}]
           acked == [tk EXCEPT !.flags = @ \cup {"active", "ackpend"}]
<1>1. p.ticket[t] \in Ticket
  BY DEF Good, IsPool
<1>2. tk \in Ticket
  BY <1>1 DEF Ticket
<1>3. tried \in Ticket /\ acked \in Ticket
  <2>1. /\ tk.tries + (IF o = "noack" THEN 1 ELSE 0) \in Nat
        /\ tk.failed + (IF o = "nosend" THEN 1 ELSE 0) \in Nat
    BY <1>2 DEF Ticket
  <2>2. tried \in Ticket
    BY <1>2, <2>1 DEF Ticket
  <2>3. acked \in Ticket
    BY <1>2 DEF Ticket, Flag
  <2> QED
    BY <2>2, <2>3
<1>4. retry \in Ticket /\ given_up \in Ticket
  BY <1>3 DEF Ticket, Flag
<1>5. \/ q \in {Put(p, t, acked), Put(p, t, retry)}
      \/ q \in RoutingSent(Put(p, t, tk), t, "error")
      \/ q \in RoutingSent(Put(p, t, given_up), t, "fail")
  BY DEF BundleStatus
<1>6. /\ Good(Put(p, t, tk)) /\ Good(Put(p, t, given_up))
      /\ Good(Put(p, t, acked)) /\ Good(Put(p, t, retry))
  BY <1>2, <1>3, <1>4, PutGood
<1> QED
  BY <1>5, <1>6, RoutingSentType

LEMMA StatusType ==
  ASSUME NEW p, Good(p), NEW bl \in Locks, NEW bo \in BOOLEAN, NEW t \in Blocks, NEW o,
         Status(p, bl, bo, t, o)
  PROVE  Good(pool') /\ blocked' \in Locks /\ backoff' \in BOOLEAN /\ sem' \in 0 .. 1
<1>1. Good(pool')
  BY AckStatusType, BundleStatusType DEF Status
<1>2. blocked' \in Locks
  BY SetUnblockedType DEF Status
<1> QED
  BY <1>1, <1>2 DEF Status

LEMMA TransmitType ==
  ASSUME Typed, NEW task \in Tasks, NEW p, Good(p), NEW bl \in Locks, NEW bo \in BOOLEAN,
         NEW t \in Blocks, NEW given \in 0 .. 1, Transmit(task, p, bl, bo, t, given)
  PROVE  /\ Good(pool') /\ blocked' \in Locks /\ backoff' \in BOOLEAN /\ sem' \in 0 .. 1
         /\ flight' \in [Tasks -> Blocks \cup {None}]
<1>1. CASE p.ticket[t].nb \in Udp
  BY <1>1 DEF Transmit, Typed, TypeOK, Good
<1>2. CASE p.ticket[t].nb \notin Udp
  <2>1. PICK o \in Outcomes : Status(p, bl, bo, t, o)
    BY <1>2 DEF Transmit
  <2>2. flight' = flight
    BY <1>2 DEF Transmit
  <2> QED
    BY <2>1, <2>2, StatusType DEF Typed, TypeOK, Good
<1> QED
  BY <1>1, <1>2

(***************************************************************************)
(* Incoming data                                                           *)
(***************************************************************************)
Replies == {"ack", "nack", "tempnack"}

LEMMA DispatchedType ==
  ASSUME NEW p, Good(p), NEW r \in Dispatched(p)
  PROVE  Good(r.pool) /\ r.reply \in Replies
<1>1. \A b \in Bundles : TicketsOf(p, b) \subseteq Blocks
  BY DEF TicketsOf, Good, IsPool
<1>2. r.pool = p \/ \E b \in Bundles : r.pool = FreeAll(p, TicketsOf(p, b))
  BY DEF Dispatched
<1>3. r.reply \in Replies
  BY DEF Dispatched, Replies
<1> QED
  BY <1>1, <1>2, <1>3, FreeAllGood

LEMMA FirstSegmentType ==
  ASSUME NEW p, Good(p), NEW n \in Nodes, NEW r \in FirstSegment(p, n)
  PROVE  Good(r.pool) /\ r.reply \in Replies
<1> DEFINE synced == FreeAll(p, Receiving(p, n))
           tk == [Blank EXCEPT !.flags = {"recv"}, !.nb = n]
<1>1. Good(synced)
  BY FreeAllGood DEF Receiving, Good, IsPool
<1>2. tk \in Ticket
  BY BlankIsTicket DEF Ticket, Flag
<1>3. \/ r = [pool |-> synced, reply |-> "tempnack"]
      \/ ~Full(synced) /\ r = [pool |-> Alloc(synced, tk, TRUE), reply |-> "ack"]
  BY Zenon DEF FirstSegment
<1>4. CASE r = [pool |-> synced, reply |-> "tempnack"]
  BY <1>1, <1>4 DEF Replies
<1>5. CASE ~Full(synced) /\ r = [pool |-> Alloc(synced, tk, TRUE), reply |-> "ack"]
  <2>1. Good(Alloc(synced, tk, TRUE))
    BY <1>1, <1>2, <1>5, AllocGood
  <2> QED
    BY <1>5, <2>1 DEF Replies
<1> QED
  BY <1>3, <1>4, <1>5

LEMMA NextSegmentType ==
  ASSUME NEW p, Good(p), NEW n \in Nodes, NEW last, NEW r \in NextSegment(p, n, last)
  PROVE  Good(r.pool) /\ r.reply \in Replies
<1> DEFINE mine == Receiving(p, n)
           tickets == [t \in Blocks |->
                         IF t \in mine THEN [p.ticket[t] EXCEPT !.due = FALSE] ELSE p.ticket[t]]
           touched == [p EXCEPT !.ticket = tickets]
<1>1. Good(FreeAll(p, mine))
  BY FreeAllGood DEF Receiving, Good, IsPool
<1>2. Good(touched)
  <2>1. \A t \in Blocks : p.ticket[t] \in Ticket /\ [p.ticket[t] EXCEPT !.due = FALSE] \in Ticket
    BY DEF Good, IsPool, Ticket
  <2>2. tickets \in [Blocks -> Ticket]
    BY <2>1
  <2> HIDE DEF tickets
  <2>3. IsPool(touched) /\ touched.list = p.list /\ touched.used = p.used
    BY <2>2 DEF Good, IsPool
  <2> QED
    BY <2>3 DEF Good, Matched
<1>3. CASE mine = {}
  BY <1>3 DEF NextSegment, Replies
<1>4. CASE mine # {}
  <2>1. \/ r = [pool |-> p, reply |-> "ack"]
        \/ r = [pool |-> FreeAll(p, mine), reply |-> "tempnack"]
        \/ r \in Dispatched(FreeAll(p, mine))
        \/ r = [pool |-> touched, reply |-> "ack"]
    BY <1>4, Zenon DEF NextSegment
  <2>2. CASE r \in Dispatched(FreeAll(p, mine))
    BY <1>1, <2>2, DispatchedType
  <2>3. CASE r = [pool |-> touched, reply |-> "ack"]
    BY <1>2, <2>3 DEF Replies
  <2>4. CASE \/ r = [pool |-> p, reply |-> "ack"]
             \/ r = [pool |-> FreeAll(p, mine), reply |-> "tempnack"]
    BY <1>1, <2>4 DEF Replies
  <2> QED
    BY <2>1, <2>2, <2>3, <2>4
<1> QED
  BY <1>3, <1>4

LEMMA ParsedType ==
  ASSUME NEW p, Good(p), NEW n \in Nodes, NEW kind, NEW r \in Parsed(p, n, kind)
  PROVE  Good(r.pool) /\ r.reply \in Replies
  BY DispatchedType, FirstSegmentType, NextSegmentType DEF Parsed

LEMMA DataFrameType ==
  ASSUME Typed, NEW n \in Nodes, NEW kind, DataFrame(n, kind)
  PROVE  Typed'
<1>1. PICK r \in Parsed(pool, n, kind) :
        IF Full(r.pool)
        THEN crashed' = TRUE /\ UNCHANGED <<pool, blocked, sem, backoff, flight>>
        ELSE LET tk == [Blank EXCEPT !.flags = {r.reply, "transit"}, !.nb = n]
             IN /\ Transmit("rx", Alloc(r.pool, tk, TRUE), blocked, backoff, NextFree(r.pool), sem)
                /\ UNCHANGED crashed
  BY DEF DataFrame
<1>2. clpc' = clpc
  BY DEF DataFrame
<1>3. Good(r.pool) /\ r.reply \in Replies
  BY ParsedType DEF Typed, TypeOK, Good
<1>4. CASE Full(r.pool)
  BY <1>1, <1>2, <1>4 DEF Typed, TypeOK, Good
<1>5. CASE ~Full(r.pool)
  <2> DEFINE tk == [Blank EXCEPT !.flags = {r.reply, "transit"}, !.nb = n]
  <2>2. tk \in Ticket
    BY <1>3, BlankIsTicket DEF Ticket, Flag, Replies
  <2>3. Good(Alloc(r.pool, tk, TRUE)) /\ NextFree(r.pool) \in Blocks
    BY <1>3, <1>5, <2>2, AllocGood, NextFreeIsFree DEF Good, IsPool
  <2>4. /\ Transmit("rx", Alloc(r.pool, tk, TRUE), blocked, backoff, NextFree(r.pool), sem)
        /\ crashed' = crashed
    BY <1>1, <1>5
  <2>5. "rx" \in Tasks /\ blocked \in Locks /\ backoff \in BOOLEAN /\ sem \in 0 .. 1
    BY DEF Typed, TypeOK, Good, Tasks, Locks
  <2>6. /\ Good(pool') /\ blocked' \in Locks /\ backoff' \in BOOLEAN /\ sem' \in 0 .. 1
        /\ flight' \in [Tasks -> Blocks \cup {None}]
    BY <2>3, <2>4, <2>5, TransmitType
  <2> QED
    BY <1>2, <2>4, <2>6 DEF Typed, TypeOK, Good, Locks
<1> QED
  BY <1>4, <1>5

(***************************************************************************)
(* The other actions, one lemma for each that does more than free tickets  *)
(***************************************************************************)
LEMMA UdpSentType ==
  ASSUME Typed, NEW task \in Tasks, UdpSent(task)
  PROVE  Typed'
<1> DEFINE t == flight[task]
           segment == task = "cl" /\ "multipart" \in pool.ticket[t].flags
           tk == [pool.ticket[t] EXCEPT !.sent = @ \/ segment]
<1>1. t \in Blocks
  BY DEF UdpSent, Typed, TypeOK, Good
<1>2. PICK o \in {"ok", "nosend"} : Status(Put(pool, t, tk), blocked, backoff, t, o)
  BY DEF UdpSent
<1>3. tk \in Ticket
  <2>1. pool.ticket[t] \in Ticket
    BY <1>1 DEF Typed, TypeOK, Good, IsPool
  <2>2. (pool.ticket[t].sent \/ segment) \in BOOLEAN
    OBVIOUS
  <2> QED
    BY <2>1, <2>2 DEF Ticket
<1>4. Good(Put(pool, t, tk)) /\ blocked \in Locks /\ backoff \in BOOLEAN
  BY <1>1, <1>3, PutGood DEF Typed, TypeOK, Good, Locks
<1>5. Good(pool') /\ blocked' \in Locks /\ backoff' \in BOOLEAN /\ sem' \in 0 .. 1
  <2> HIDE DEF t, tk
  <2> QED
    BY <1>1, <1>2, <1>4, StatusType
<1>6. flight' \in [Tasks -> Blocks \cup {None}]
  BY DEF UdpSent, Typed, TypeOK, Good
<1>7. UNCHANGED <<clpc, crashed>>
  BY DEF UdpSent
<1> QED
  BY <1>5, <1>6, <1>7 DEF Typed, TypeOK, Good, Locks

LEMMA CLResendAckType ==
  ASSUME Typed, NEW t \in pool.used, CLResendAck(t)
  PROVE  Typed'
<1> DEFINE tk == [pool.ticket[t] EXCEPT !.flags = @ \cup {"transit"}, !.due = FALSE]
<1>1. t \in Blocks /\ pool.ticket[t] \in Ticket
  BY DEF Typed, TypeOK, Good, IsPool
<1>2. Good(Put(pool, t, tk))
  <2>1. tk \in Ticket
    BY <1>1 DEF Ticket, Flag
  <2> QED
    BY <1>1, <2>1, PutGood DEF Typed, TypeOK, Good
<1>3. SemLeft \in 0 .. 1 /\ "cl" \in Tasks /\ blocked \in Locks
  BY DEF SemLeft, Typed, TypeOK, Good, Tasks, Locks
<1>4. Transmit("cl", Put(pool, t, tk), blocked, FALSE, t, SemLeft)
  BY DEF CLResendAck
<1>5. /\ Good(pool') /\ blocked' \in Locks /\ backoff' \in BOOLEAN /\ sem' \in 0 .. 1
      /\ flight' \in [Tasks -> Blocks \cup {None}]
  <2> HIDE DEF tk
  <2> QED
    BY <1>1, <1>2, <1>3, <1>4, TransmitType
<1> QED
  BY <1>5 DEF CLResendAck, Typed, TypeOK, Good, Locks

LEMMA CLSendBundleType ==
  ASSUME Typed, NEW t \in pool.used, NEW segments \in 1 .. MaxSegments, CLSendBundle(t, segments)
  PROVE  Typed'
<1> DEFINE tk == pool.ticket[t]
           first == [tk EXCEPT !.flags = @ \cup (IF segments > 1 THEN {"multipart"} ELSE {}),
                               !.left = segments, !.sent = FALSE]
           encoded == IF "multipart" \in tk.flags THEN tk ELSE first
           frame == [encoded EXCEPT !.flags = @ \cup {"transit"}, !.sent = @ \/ tk.nb \notin Udp]
<1>1. t \in Blocks /\ tk \in Ticket
  BY DEF Typed, TypeOK, Good, IsPool
<1>2. encoded \in Ticket
  <2>1. tk.flags \cup (IF segments > 1 THEN {"multipart"} ELSE {}) \in SUBSET Flag
    BY <1>1 DEF Ticket, Flag
  <2>2. segments \in 0 .. MaxSegments
    BY SizeAssumption
  <2> QED
    BY <1>1, <2>1, <2>2 DEF Ticket
<1>3. Good(Put(pool, t, frame))
  <2>1. encoded.flags \cup {"transit"} \in SUBSET Flag
    BY <1>2 DEF Ticket, Flag
  <2>2. (encoded.sent \/ tk.nb \notin Udp) \in BOOLEAN
    OBVIOUS
  <2>3. frame \in Ticket
    <3> HIDE DEF encoded
    <3> QED
      BY <1>2, <2>1, <2>2 DEF Ticket
  <2> QED
    BY <1>1, <2>3, PutGood DEF Typed, TypeOK, Good
<1>4. SemLeft \in 0 .. 1 /\ "cl" \in Tasks
  BY DEF SemLeft, Typed, TypeOK, Good, Tasks
<1>5. SetBlocked(blocked, tk.nb) \in Locks
  <2>1. tk.nb \in Nodes \cup {None}
    BY <1>1 DEF Ticket
  <2> QED
    BY <2>1, SetBlockedType DEF Typed, TypeOK, Good, Locks
<1>6. Transmit("cl", Put(pool, t, frame), SetBlocked(blocked, tk.nb), FALSE, t, SemLeft)
  BY DEF CLSendBundle
<1>7. /\ Good(pool') /\ blocked' \in Locks /\ backoff' \in BOOLEAN /\ sem' \in 0 .. 1
      /\ flight' \in [Tasks -> Blocks \cup {None}]
  <2> HIDE DEF frame
  <2> QED
    BY <1>1, <1>3, <1>4, <1>5, <1>6, TransmitType
<1> QED
  BY <1>7 DEF CLSendBundle, Typed, TypeOK, Good, Locks

LEMMA AckFrameType ==
  ASSUME Typed, NEW n \in Nodes, NEW type, NEW expected, AckFrame(n, type, expected)
  PROVE  Typed'
<1>1. Good(pool')
  <2>1. CASE UNCHANGED pool
    BY <2>1 DEF Typed, TypeOK, Good, IsPool
  <2>2. CASE pool' # pool
    <3>1. PICK t \in Awaiting(pool, n) : Credited(t, type, expected)
      BY <2>2 DEF AckFrame
    <3>2. t \in Blocks /\ pool.ticket[t] \in Ticket
      BY DEF Awaiting, Typed, TypeOK, Good, IsPool
    <3>3. CASE pool' = Put(pool, t, Advanced(pool.ticket[t])) /\ ~IsFinal(pool.ticket[t])
      <4>1. pool.ticket[t].left - (IF pool.ticket[t].sent THEN 1 ELSE 0) \in 0 .. MaxSegments
        BY <3>2, <3>3, SizeAssumption DEF IsFinal, Ticket
      <4>2. Advanced(pool.ticket[t]) \in Ticket
        BY <3>2, <4>1 DEF Advanced, Ticket
      <4> QED
        BY <3>2, <3>3, <4>2, PutGood DEF Typed, TypeOK, Good
    <3>4. CASE \E flag \in {"done", "fail"} : \E status : pool' \in Closed(t, flag, status)
      <4>0. PICK flag \in {"done", "fail"} : \E status : pool' \in Closed(t, flag, status)
        BY <3>4
      <4>1. PICK status : pool' \in Closed(t, flag, status)
        BY <4>0
      <4>2. [pool.ticket[t] EXCEPT !.flags = {flag}] \in Ticket
        BY <3>2 DEF Ticket, Flag
      <4>3. Good(Put(pool, t, [pool.ticket[t] EXCEPT !.flags = {flag}]))
        BY <3>2, <4>2, PutGood DEF Typed, TypeOK, Good
      <4> QED
        BY <3>2, <4>1, <4>3, RoutingSentType DEF Closed
    <3> QED
      BY <2>2, <3>1, <3>3, <3>4 DEF Credited
  <2> QED
    BY <2>1, <2>2
<1>2. blocked' \in Locks
  BY SetUnblockedType DEF AckFrame, Typed, TypeOK, Good, Locks
<1> QED
  BY <1>1, <1>2 DEF AckFrame, Typed, TypeOK, Good, Locks

LEMMA CountQueuedType ==
  ASSUME NEW p, IsPool(p)
  PROVE  LET q == [p EXCEPT !.queue = @ + 1]
         IN IsPool(q) /\ q.list = p.list /\ q.used = p.used
  BY DEF IsPool

LEMMA CountQueuedGood ==
  ASSUME NEW p, Good(p)
  PROVE  Good([p EXCEPT !.queue = @ + 1])
  BY CountQueuedType DEF Good, Matched

LEMMA AgedLockType ==
  ASSUME NEW bl \in Locks, NEW i \in DOMAIN bl
  PROVE  [bl EXCEPT ![i].old = TRUE] \in Locks
<1> DEFINE Lock == [nb : Nodes \cup {None}, old : BOOLEAN]
<1>0. bl \in Seq(Lock)
  BY DEF Locks
<1>1. bl[i] \in Lock
  <2> HIDE DEF Lock
  <2> QED
    BY <1>0
<1>2. [bl[i] EXCEPT !.old = TRUE] \in Lock
  BY <1>1
<1> HIDE DEF Lock
<1>3. [bl EXCEPT ![i] = [bl[i] EXCEPT !.old = TRUE]] \in Seq(Lock)
  BY <1>2, ExceptSeq DEF Locks, Lock
<1> QED
  BY <1>3 DEF Locks, Lock

\* The actions that free tickets, queue one, or only let time pass.
LEMMA SmallStepsType ==
  ASSUME Typed,
         \/ CLBackoff \/ CLNothingToSend \/ (\E t \in pool.used : CLDropBundle(t))
         \/ CheckTimeouts \/ SendDiscovery \/ Upper \/ Clock
  PROVE  Typed'
<1>1. /\ Good(pool) /\ pool.used \subseteq Blocks /\ blocked \in Locks
      /\ \A b : TicketsOf(pool, b) \subseteq Blocks
  BY DEF Typed, TypeOK, Good, IsPool, TicketsOf, Locks
<1>2. CASE CLBackoff \/ CLNothingToSend \/ SendDiscovery
  <2>1. sem' \in 0 .. 1 /\ clpc' \in {"wait", "backoff"}
    BY <1>2 DEF CLBackoff, CLNothingToSend, SendDiscovery, SemLeft, Typed, TypeOK, Good
  <2>3. backoff' = backoff \/ backoff' = FALSE
    BY <1>2 DEF CLBackoff, CLNothingToSend, SendDiscovery
  <2>2. pool' = pool /\ blocked' = blocked /\ flight' = flight /\ crashed' = crashed
    BY <1>2 DEF CLBackoff, CLNothingToSend, SendDiscovery
  <2> QED
    BY <2>1, <2>2, <2>3 DEF Typed, TypeOK, Good
<1>3. CASE \E t \in pool.used : CLDropBundle(t)
  <2>1. PICK t \in pool.used : CLDropBundle(t)
    BY <1>3
  <2>2. Good(FreeAll(pool, TicketsOf(pool, pool.ticket[t].bundle)))
    BY <1>1, FreeAllGood
  <2>3. Good(FreeAll(FreeAll(pool, TicketsOf(pool, pool.ticket[t].bundle)), {t}))
    BY <1>1, <2>2, FreeAllGood
  <2>4. Good(pool')
    BY <2>1, <2>2, <2>3 DEF CLDropBundle
  <2>5. /\ sem' \in 0 .. 1 /\ backoff' = FALSE /\ clpc' = "wait"
        /\ blocked' = blocked /\ flight' = flight /\ crashed' = crashed
    BY <2>1 DEF CLDropBundle, SemLeft, Typed, TypeOK, Good
  <2> QED
    BY <2>4, <2>5 DEF Typed, TypeOK, Good
<1>4. CASE CheckTimeouts
  <2>1. Good(pool')
    BY <1>1, <1>4, FreeAllGood DEF CheckTimeouts, Expired
  <2>2. blocked' \in Locks
    BY <1>1, <1>4, SetUnblockedType DEF CheckTimeouts
  <2> QED
    BY <1>4, <2>1, <2>2 DEF CheckTimeouts, Typed, TypeOK, Good, Locks
<1>5. CASE Upper
  <2>1. CASE \E n \in Nodes : NeighbourDown(n)
    <3>1. PICK n \in Nodes : NeighbourDown(n)
      BY <2>1
    <3>2. Good(pool')
      BY <1>1, <3>1, FreeAllGood DEF NeighbourDown
    <3>3. blocked' \in Locks
      BY <1>1, <3>1, SetUnblockedType DEF NeighbourDown
    <3> QED
      BY <3>1, <3>2, <3>3 DEF NeighbourDown, Typed, TypeOK, Good, Locks
  <2>2. CASE \E n \in Nodes, b \in Bundles : EnqueueBundle(n, b)
    <3>1. PICK n \in Nodes, b \in Bundles : EnqueueBundle(n, b)
      BY <2>2
    <3> DEFINE tk == [Blank EXCEPT !.flags = {"active"}, !.nb = n, !.bundle = b]
    <3>2. tk \in Ticket
      BY BlankIsTicket DEF Ticket, Flag
    <3>3. Good(Alloc(pool, tk, FALSE))
      BY <1>1, <3>1, <3>2, AllocGood DEF EnqueueBundle, SlotForBundle
    <3>4. pool' = [Alloc(pool, tk, FALSE) EXCEPT !.queue = @ + 1]
      BY <3>1 DEF EnqueueBundle
    <3>5. Good(pool')
      BY <3>3, <3>4, CountQueuedGood
    <3> QED
      BY <3>1, <3>5 DEF EnqueueBundle, Typed, TypeOK, Good
  <2>3. CASE \E b \in Bundles : DeleteBundle(b)
    BY <1>1, <2>3, FreeAllGood DEF DeleteBundle, Typed, TypeOK, Good
  <2> QED
    BY <1>5, <2>1, <2>2, <2>3 DEF Upper
<1>6. CASE \E t \in Blocks : Elapse(t)
  <2>1. PICK t \in Blocks : Elapse(t)
    BY <1>6
  <2>2. [pool.ticket[t] EXCEPT !.due = TRUE] \in Ticket
    BY <1>1 DEF Good, IsPool, Ticket
  <2> QED
    BY <1>1, <2>1, <2>2, PutGood DEF Elapse, Typed, TypeOK, Good
<1>7. CASE ElapseLock
  <2>1. PICK i \in DOMAIN blocked : blocked' = [blocked EXCEPT ![i].old = TRUE]
    BY <1>7 DEF ElapseLock
  <2>2. blocked' \in Locks
    BY <1>1, <2>1, AgedLockType
  <2> QED
    BY <1>1, <1>7, <2>2 DEF ElapseLock, Typed, TypeOK, Good, Locks, IsPool
<1> QED
  BY <1>2, <1>3, <1>4, <1>5, <1>6, <1>7 DEF Clock

LEMMA InitType == Init => Typed
<1> SUFFICES ASSUME Init PROVE Typed
  OBVIOUS
<1>1. Good(pool)
  <2>1. pool.list = <<>> /\ pool.used = {} /\ IsPool(pool)
    BY BlankIsTicket DEF Init, IsPool
  <2>2. pool.list \in Seq(Blocks) /\ DOMAIN pool.list = {}
    BY <2>1
  <2> QED
    BY <2>1, <2>2 DEF Good, Matched, Distinct, Elements
<1>2. blocked \in Seq([nb : Nodes \cup {None}, old : BOOLEAN])
  BY DEF Init
<1>3. flight \in [Tasks -> Blocks \cup {None}]
  BY DEF Init
<1>4. sem \in 0 .. 1 /\ clpc \in {"wait", "backoff"}
  BY DEF Init
<1> QED
  BY <1>1, <1>2, <1>3, <1>4 DEF Init, Typed, TypeOK, Good

LEMMA NextType == Typed /\ [Next]_vars => Typed'
<1> SUFFICES ASSUME Typed, [Next]_vars PROVE Typed'
  OBVIOUS
<1>1. CASE DataArrives
  BY <1>1, DataFrameType, NodeAssumption DEF DataArrives
<1>2. CASE AckArrives
  BY <1>2, AckFrameType DEF AckArrives
<1>3. CASE \E task \in Tasks : UdpSent(task)
  BY <1>3, UdpSentType
<1>4. CASE \E t \in pool.used : CLResendAck(t)
  BY <1>4, CLResendAckType
<1>5. CASE \E t \in pool.used, segments \in 1 .. MaxSegments : CLSendBundle(t, segments)
  BY <1>5, CLSendBundleType
<1>6. CASE UNCHANGED vars
  BY <1>6 DEF vars, Typed, TypeOK, Good, IsPool
<1> QED
  BY <1>1, <1>2, <1>3, <1>4, <1>5, <1>6, SmallStepsType DEF Next, CLTask

LEMMA TypedAlways == Spec => []Typed
  BY InitType, NextType, PTL DEF Spec

(***************************************************************************)
(* Type correctness: however the tasks interleave, whatever the links      *)
(* report and whichever failing paths are taken, the state keeps its type; *)
(* so no field, counter of segments left or reference to a block leaves    *)
(* its range.                                                              *)
(***************************************************************************)
THEOREM TypeCorrect == Spec => []TypeOK
<1>1. Typed => TypeOK
  BY DEF Typed
<1> QED
  BY TypedAlways, <1>1, PTL

\* The list of tickets holds the blocks in use, each of them once, for every number
\* of tasks, peers and bundles, with callbacks that free a ticket other tasks still
\* refer to, and with every failing path, although those free a ticket twice
\* (convergence_layer_dgram_free_transmit_ticket).
THEOREM ListCorrect == Spec => []ListMatches
<1>1. Typed => ListMatches
  <2> SUFFICES ASSUME Typed  PROVE ListMatches
    OBVIOUS
  <2>1. Distinct(pool.list) /\ Elements(pool.list) = pool.used
    BY DEF Typed, Good, Matched
  <2> QED
    BY <2>1 DEF ListMatches, Distinct, Elements, IsInjective, Range
<1> QED
  BY TypedAlways, <1>1, PTL

(***************************************************************************)
(* The counters and the reserve, where no ticket is freed twice: a node    *)
(* with radio peers only, whose routing does not delete a bundle in its    *)
(* callback and whose storage reads every bundle back.                     *)
(*                                                                         *)
(* A ticket that awaits an acknowledgement is queued, so crediting it      *)
(* takes it off the queue; and no step but EnqueueBundle gives a bundle a  *)
(* ticket.                                                                 *)
(***************************************************************************)
FreedOnce == Udp = {} /\ Faults \subseteq {"unsendable"} /\ "fatal" \notin Outcomes

QueuedIn(p) == {t \in p.used : Queued(p.ticket[t])}
BundlesIn(p) == {t \in p.used : p.ticket[t].bundle # None}
Counted(p) == p.slots = Cardinality(p.used) /\ p.queue = Cardinality(QueuedIn(p))
AwaitedQueued(p) == \A t \in p.used : "ackpend" \in p.ticket[t].flags => "active" \in p.ticket[t].flags
Sound(p) == IsPool(p) /\ Counted(p) /\ AwaitedQueued(p)
Keeps(p, q) == Sound(q) /\ BundlesIn(q) \subseteq BundlesIn(p)

LEMMA SoundIsFinite ==
  ASSUME NEW p, Sound(p)
  PROVE  IsFiniteSet(p.used) /\ IsFiniteSet(QueuedIn(p)) /\ p.used \subseteq Blocks
  BY BlocksFinite DEF Sound, IsPool, QueuedIn

\* Freeing allocated tickets keeps the counters right.
LEMMA FreeAllKeeps ==
  ASSUME NEW p, Sound(p), NEW F, F \subseteq p.used
  PROVE  Keeps(p, FreeAll(p, F))
<1> DEFINE q == FreeAll(p, F)
           QF == {t \in F : Queued(p.ticket[t])}
<1>1. IsPool(q)
  BY FreeAllType, SoundIsFinite DEF Sound
<1>2. q.used = p.used \ F /\ \A t \in q.used : q.ticket[t] = p.ticket[t]
  BY SoundIsFinite DEF FreeAll
<1>3. q.slots = Cardinality(q.used)
  <2>1. Cardinality(p.used \ F) = Cardinality(p.used) - Cardinality(p.used \cap F)
    BY SoundIsFinite, FS_Difference
  <2>2. p.used \cap F = F
    OBVIOUS
  <2> QED
    BY <1>2, <2>1, <2>2 DEF FreeAll, Sound, Counted
<1>4. q.queue = Cardinality(QueuedIn(q))
  <2>1. QueuedIn(q) = QueuedIn(p) \ QF /\ QueuedIn(p) \cap QF = QF
    BY <1>2 DEF QueuedIn
  <2>2. Cardinality(QueuedIn(p) \ QF) = Cardinality(QueuedIn(p)) - Cardinality(QueuedIn(p) \cap QF)
    BY SoundIsFinite, FS_Difference
  <2>3. q.queue = p.queue - Cardinality(QF)
    BY DEF FreeAll
  <2> QED
    BY <2>1, <2>2, <2>3 DEF Sound, Counted
<1>5. AwaitedQueued(q)
  BY <1>2 DEF Sound, AwaitedQueued
<1>6. BundlesIn(q) \subseteq BundlesIn(p)
  BY <1>2 DEF BundlesIn
<1> QED
  BY <1>1, <1>3, <1>4, <1>5, <1>6 DEF Keeps, Sound, Counted

\* Updating an allocated ticket keeps them right unless it enters or leaves the queue.
LEMMA PutKeeps ==
  ASSUME NEW p, Sound(p), NEW t \in p.used, NEW tk \in Ticket,
         Queued(tk) <=> Queued(p.ticket[t]), "ackpend" \in tk.flags => "active" \in tk.flags,
         tk.bundle = p.ticket[t].bundle
  PROVE  Keeps(p, Put(p, t, tk))
<1> DEFINE q == Put(p, t, tk)
<1>1. IsPool(q)
  BY PutType, SoundIsFinite DEF Sound
<1>2. /\ q.used = p.used /\ q.slots = p.slots /\ q.queue = p.queue
      /\ q.ticket = [p.ticket EXCEPT ![t] = tk]
  BY DEF Put, Sound, IsPool
<1>3. \A u \in p.used : q.ticket[u] = IF u = t THEN tk ELSE p.ticket[u]
  BY <1>2 DEF Sound, IsPool
<1>4. QueuedIn(q) = QueuedIn(p) /\ BundlesIn(q) = BundlesIn(p)
  BY <1>2, <1>3 DEF QueuedIn, BundlesIn
<1>5. AwaitedQueued(q)
  BY <1>2, <1>3 DEF AwaitedQueued, Sound
<1> QED
  BY <1>1, <1>2, <1>4, <1>5 DEF Keeps, Sound, Counted

\* A new ticket that is not queued, for an acknowledgement or a reception.
LEMMA AllocKeeps ==
  ASSUME NEW p, Sound(p), ~Full(p), NEW tk \in Ticket, NEW high,
         ~Queued(tk), "ackpend" \notin tk.flags, tk.bundle = None
  PROVE  Keeps(p, Alloc(p, tk, high)) /\ NextFree(p) \in Alloc(p, tk, high).used
<1> DEFINE q == Alloc(p, tk, high)
           b == NextFree(p)
<1>1. IsPool(q)
  BY AllocType DEF Sound
<1>2. b \in Blocks \ p.used
  BY NextFreeIsFree DEF Sound, IsPool
<1>3. /\ q.used = p.used \cup {b} /\ q.slots = p.slots + 1 /\ q.queue = p.queue
      /\ q.ticket = [p.ticket EXCEPT ![b] = tk]
  BY DEF Alloc
<1>4. \A t \in q.used : q.ticket[t] = IF t = b THEN tk ELSE p.ticket[t]
  BY <1>2, <1>3 DEF Sound, IsPool
<1>5. q.slots = Cardinality(q.used)
  BY <1>2, <1>3, SoundIsFinite, FS_AddElement DEF Sound, Counted
<1>6. QueuedIn(q) = QueuedIn(p) /\ BundlesIn(q) = BundlesIn(p)
  BY <1>2, <1>3, <1>4 DEF QueuedIn, BundlesIn
<1>7. AwaitedQueued(q)
  BY <1>3, <1>4 DEF Sound, AwaitedQueued
<1> QED
  BY <1>1, <1>3, <1>5, <1>6, <1>7 DEF Keeps, Sound, Counted

LEMMA KeepsTransitive ==
  ASSUME NEW p, NEW q, NEW r, Keeps(p, q), Keeps(q, r)
  PROVE  Keeps(p, r)
  BY DEF Keeps

\* Routing frees the ticket it is told about, and nothing else.
LEMMA RoutingSentKeeps ==
  ASSUME FreedOnce, NEW p, Sound(p), NEW t \in p.used, NEW status, status # "error",
         NEW q \in RoutingSent(p, t, status)
  PROVE  Keeps(p, q)
<1>1. q = FreeAll(p, {t})
  BY DEF RoutingSent, FreedOnce
<1> QED
  BY <1>1, FreeAllKeeps

LEMMA AckStatusKeeps ==
  ASSUME NEW p, Sound(p), NEW t \in p.used, IsAck(p.ticket[t]), NEW o, NEW q \in AckStatus(p, t, o)
  PROVE  Keeps(p, q)
<1> DEFINE tk == p.ticket[t]
           tried == [tk EXCEPT !.flags = @ \ {"transit"}, !.tries = @ + 1,
                               !.failed = @ + (IF o = "nosend" THEN 1 ELSE 0),
                               !.due = (o = "nosend")]
<1>1. tk \in Ticket
  BY SoundIsFinite DEF Sound, IsPool
<1>2. tried \in Ticket
  <2>1. tk.flags \ {"transit"} \in SUBSET Flag /\ (o = "nosend") \in BOOLEAN
    BY <1>1 DEF Ticket
  <2>2. tk.tries + 1 \in Nat /\ tk.failed + (IF o = "nosend" THEN 1 ELSE 0) \in Nat
    BY <1>1 DEF Ticket
  <2> QED
    BY <1>1, <2>1, <2>2 DEF Ticket
<1>3. tried.flags = tk.flags \ {"transit"} /\ tried.bundle = tk.bundle
  BY <1>1 DEF Ticket
<1>4. Queued(tried) <=> Queued(tk)
  BY <1>3 DEF Queued
<1>5. "ackpend" \in tried.flags => "active" \in tried.flags
  BY <1>3 DEF Sound, AwaitedQueued
<1>6. Keeps(p, Put(p, t, tried))
  <2> HIDE DEF tried
  <2> QED
    BY <1>2, <1>3, <1>4, <1>5, PutKeeps
<1>7. q = FreeAll(p, {t}) \/ q = Put(p, t, tried)
  BY DEF AckStatus
<1> QED
  BY <1>6, <1>7, FreeAllKeeps

\* A bundle whose frame is reported was active before it was sent, and stays queued.
LEMMA BundleStatusKeeps ==
  ASSUME FreedOnce, NEW p, Sound(p), NEW t \in p.used, "active" \in p.ticket[t].flags,
         NEW o \in Outcomes, NEW q \in BundleStatus(p, t, o)
  PROVE  Keeps(p, q)
<1> DEFINE tk == [p.ticket[t] EXCEPT !.flags = @ \ {"transit"}]
           tried == [tk EXCEPT !.tries = @ + (IF o = "noack" THEN 1 ELSE 0),
                               !.failed = @ + (IF o = "nosend" THEN 1 ELSE 0)]
           retry == [tried EXCEPT !.flags = @ \cup {"active"}]
           given_up == [tried EXCEPT !.flags = @ \cup {"fail"}]
           acked == [tk EXCEPT !.flags = @ \cup {"active", "ackpend"}]
<1>1. p.ticket[t] \in Ticket
  BY SoundIsFinite DEF Sound, IsPool
<1>2. tk \in Ticket
  BY <1>1 DEF Ticket
<1>3. tried \in Ticket /\ acked \in Ticket
  <2>1. /\ tk.tries + (IF o = "noack" THEN 1 ELSE 0) \in Nat
        /\ tk.failed + (IF o = "nosend" THEN 1 ELSE 0) \in Nat
    BY <1>2 DEF Ticket
  <2>2. tried \in Ticket
    BY <1>2, <2>1 DEF Ticket
  <2>3. acked \in Ticket
    BY <1>2 DEF Ticket, Flag
  <2> QED
    BY <2>2, <2>3
<1>4. retry \in Ticket /\ given_up \in Ticket
  BY <1>3 DEF Ticket, Flag
<1>5. /\ tk.flags = p.ticket[t].flags \ {"transit"} /\ tk.bundle = p.ticket[t].bundle
      /\ tried.flags = tk.flags /\ tried.bundle = tk.bundle
      /\ retry.flags = tk.flags \cup {"active"} /\ retry.bundle = tk.bundle
      /\ given_up.flags = tk.flags \cup {"fail"} /\ given_up.bundle = tk.bundle
      /\ acked.flags = tk.flags \cup {"active", "ackpend"} /\ acked.bundle = tk.bundle
  BY <1>1, <1>2, <1>3 DEF Ticket
<1>6. o # "fatal"
  BY DEF FreedOnce
<1>7. \/ q \in {Put(p, t, acked), Put(p, t, retry)}
      \/ q \in RoutingSent(Put(p, t, given_up), t, "fail")
  BY <1>6 DEF BundleStatus
<1> HIDE DEF tk, tried, retry, given_up, acked
<1>8. Queued(retry) /\ Queued(acked) /\ Queued(given_up) /\ Queued(p.ticket[t])
  BY <1>5 DEF Queued
<1>9. Keeps(p, Put(p, t, acked)) /\ Keeps(p, Put(p, t, retry)) /\ Keeps(p, Put(p, t, given_up))
  BY <1>3, <1>4, <1>5, <1>8, PutKeeps
<1>10. CASE q \in RoutingSent(Put(p, t, given_up), t, "fail")
  <2>1. t \in Put(p, t, given_up).used
    BY DEF Put, Sound, IsPool
  <2>2. Keeps(Put(p, t, given_up), q)
    BY <1>9, <1>10, <2>1, RoutingSentKeeps DEF Keeps
  <2> QED
    BY <1>9, <2>2, KeepsTransitive
<1> QED
  BY <1>7, <1>9, <1>10

\* Over the radio a frame is sent and reported in one step.
LEMMA TransmitKeeps ==
  ASSUME FreedOnce, NEW task, NEW p, Sound(p), NEW bl, NEW bo, NEW t \in p.used, NEW given,
         IsAck(p.ticket[t]) \/ "active" \in p.ticket[t].flags, Transmit(task, p, bl, bo, t, given)
  PROVE  Keeps(p, pool') /\ flight' = flight
<1>1. PICK o \in Outcomes : Status(p, bl, bo, t, o)
  BY DEF Transmit, FreedOnce
<1>2. flight' = flight
  BY DEF Transmit, FreedOnce
<1>3. CASE IsAck(p.ticket[t])
  BY <1>1, <1>2, <1>3, AckStatusKeeps DEF Status
<1>4. CASE ~IsAck(p.ticket[t])
  BY <1>1, <1>2, <1>4, BundleStatusKeeps DEF Status
<1> QED
  BY <1>3, <1>4

LEMMA SoundKept ==
  ASSUME NEW p, Sound(p)
  PROVE  Keeps(p, p)
  BY DEF Keeps

LEMMA DispatchedKeeps ==
  ASSUME NEW p, Sound(p), NEW r \in Dispatched(p)
  PROVE  Keeps(p, r.pool)
<1>1. \A b \in Bundles : TicketsOf(p, b) \subseteq p.used
  BY DEF TicketsOf
<1>2. r.pool = p \/ \E b \in Bundles : r.pool = FreeAll(p, TicketsOf(p, b))
  BY DEF Dispatched
<1> QED
  BY <1>1, <1>2, FreeAllKeeps, SoundKept

LEMMA FirstSegmentKeeps ==
  ASSUME NEW p, Sound(p), NEW n \in Nodes, NEW r \in FirstSegment(p, n)
  PROVE  Keeps(p, r.pool)
<1> DEFINE synced == FreeAll(p, Receiving(p, n))
           tk == [Blank EXCEPT !.flags = {"recv"}, !.nb = n]
<1>1. Keeps(p, synced)
  BY FreeAllKeeps DEF Receiving
<1>2. tk \in Ticket
  BY BlankIsTicket DEF Ticket, Flag
<1>3. ~Queued(tk) /\ "ackpend" \notin tk.flags /\ tk.bundle = None
  BY DEF Blank, Queued
<1>4. \/ r = [pool |-> synced, reply |-> "tempnack"]
      \/ ~Full(synced) /\ r = [pool |-> Alloc(synced, tk, TRUE), reply |-> "ack"]
  BY Zenon DEF FirstSegment
<1>5. CASE r = [pool |-> synced, reply |-> "tempnack"]
  BY <1>1, <1>5
<1>6. CASE ~Full(synced) /\ r = [pool |-> Alloc(synced, tk, TRUE), reply |-> "ack"]
  <2>1. Keeps(synced, Alloc(synced, tk, TRUE))
    <3> HIDE DEF synced, tk
    <3> QED
      BY <1>1, <1>2, <1>3, <1>6, AllocKeeps DEF Keeps
  <2> QED
    BY <1>1, <1>6, <2>1, KeepsTransitive
<1> QED
  BY <1>4, <1>5, <1>6

LEMMA NextSegmentKeeps ==
  ASSUME NEW p, Sound(p), NEW n \in Nodes, NEW last, NEW r \in NextSegment(p, n, last)
  PROVE  Keeps(p, r.pool)
<1> DEFINE mine == Receiving(p, n)
           tickets == [t \in Blocks |->
                         IF t \in mine THEN [p.ticket[t] EXCEPT !.due = FALSE] ELSE p.ticket[t]]
           touched == [p EXCEPT !.ticket = tickets]
<1>1. Keeps(p, FreeAll(p, mine))
  BY FreeAllKeeps DEF Receiving
<1>2. Keeps(p, touched)
  <2>1. \A t \in Blocks : p.ticket[t] \in Ticket /\ [p.ticket[t] EXCEPT !.due = FALSE] \in Ticket
    BY DEF Sound, IsPool, Ticket
  <2>2. tickets \in [Blocks -> Ticket]
    BY <2>1
  <2>3. \A t \in p.used : /\ tickets[t].flags = p.ticket[t].flags
                          /\ tickets[t].bundle = p.ticket[t].bundle
    BY SoundIsFinite, <2>1 DEF Ticket
  <2> HIDE DEF tickets
  <2>4. IsPool(touched)
    BY <2>2 DEF Sound, IsPool
  <2>5. /\ touched.used = p.used /\ touched.ticket = tickets
        /\ touched.slots = p.slots /\ touched.queue = p.queue
    BY DEF Sound, IsPool
  <2> HIDE DEF touched
  <2>6. QueuedIn(touched) = QueuedIn(p) /\ BundlesIn(touched) = BundlesIn(p)
    BY <2>3, <2>5 DEF QueuedIn, BundlesIn, Queued
  <2>7. AwaitedQueued(touched)
    BY <2>3, <2>5 DEF AwaitedQueued, Sound
  <2> QED
    BY <2>4, <2>5, <2>6, <2>7 DEF Keeps, Sound, Counted
<1>3. CASE mine = {}
  BY <1>3, SoundKept DEF NextSegment
<1>4. CASE mine # {}
  <2>1. \/ r = [pool |-> p, reply |-> "ack"]
        \/ r = [pool |-> FreeAll(p, mine), reply |-> "tempnack"]
        \/ r \in Dispatched(FreeAll(p, mine))
        \/ r = [pool |-> touched, reply |-> "ack"]
    BY <1>4, Zenon DEF NextSegment
  <2> HIDE DEF touched, mine
  <2>2. CASE r \in Dispatched(FreeAll(p, mine))
    BY <1>1, <2>2, DispatchedKeeps, KeepsTransitive DEF Keeps
  <2> QED
    BY <1>1, <1>2, <2>1, <2>2, SoundKept
<1> QED
  BY <1>3, <1>4

LEMMA DataFrameKeeps ==
  ASSUME FreedOnce, Good(pool), Sound(pool), NEW n \in Nodes, NEW kind, DataFrame(n, kind)
  PROVE  Keeps(pool, pool') /\ flight' = flight
<1>1. PICK r \in Parsed(pool, n, kind) :
        IF Full(r.pool)
        THEN crashed' = TRUE /\ UNCHANGED <<pool, blocked, sem, backoff, flight>>
        ELSE LET tk == [Blank EXCEPT !.flags = {r.reply, "transit"}, !.nb = n]
             IN /\ Transmit("rx", Alloc(r.pool, tk, TRUE), blocked, backoff, NextFree(r.pool), sem)
                /\ UNCHANGED crashed
  BY DEF DataFrame
<1>2. Keeps(pool, r.pool) /\ r.reply \in Replies
  BY DispatchedKeeps, FirstSegmentKeeps, NextSegmentKeeps, ParsedType DEF Parsed, Sound
<1>3. CASE Full(r.pool)
  BY <1>1, <1>3, SoundKept
<1>4. CASE ~Full(r.pool)
  <2> DEFINE tk == [Blank EXCEPT !.flags = {r.reply, "transit"}, !.nb = n]
             t == NextFree(r.pool)
             q == Alloc(r.pool, tk, TRUE)
  <2>1. tk \in Ticket
    BY <1>2, BlankIsTicket DEF Ticket, Flag, Replies
  <2>2. /\ ~Queued(tk) /\ "ackpend" \notin tk.flags /\ tk.bundle = None
        /\ IsAck(tk)
    BY <1>2 DEF Blank, Queued, IsAck, Replies
  <2>3. Keeps(r.pool, q) /\ t \in q.used
    <3> HIDE DEF tk
    <3> QED
      BY <1>2, <1>4, <2>1, <2>2, AllocKeeps DEF Keeps
  <2>4. q.ticket[t] = tk
    <3>1. t \in Blocks
      BY <1>2, <1>4, NextFreeIsFree DEF Keeps, Sound, IsPool
    <3> HIDE DEF tk
    <3> QED
      BY <3>1, <1>2 DEF Alloc, Keeps, Sound, IsPool
  <2>5. Transmit("rx", q, blocked, backoff, t, sem)
    BY <1>1, <1>4
  <2>6. Keeps(q, pool') /\ flight' = flight
    <3> HIDE DEF q, t, tk
    <3> QED
      BY <2>2, <2>3, <2>4, <2>5, TransmitKeeps DEF Keeps
  <2>7. Keeps(pool, q)
    BY <1>2, <2>3, KeepsTransitive
  <2> QED
    BY <2>6, <2>7, KeepsTransitive
<1> QED
  BY <1>3, <1>4

LEMMA CLResendAckKeeps ==
  ASSUME FreedOnce, Sound(pool), NEW t \in pool.used, CLResendAck(t)
  PROVE  Keeps(pool, pool') /\ flight' = flight
<1> DEFINE tk == [pool.ticket[t] EXCEPT !.flags = @ \cup {"transit"}, !.due = FALSE]
           q == Put(pool, t, tk)
<1>1. pool.ticket[t] \in Ticket /\ t \in Blocks
  BY SoundIsFinite DEF Sound, IsPool
<1>2. tk \in Ticket
  BY <1>1 DEF Ticket, Flag
<1>3. tk.flags = pool.ticket[t].flags \cup {"transit"} /\ tk.bundle = pool.ticket[t].bundle
  BY <1>1 DEF Ticket
<1>4. Transmit("cl", q, blocked, FALSE, t, SemLeft)
  BY DEF CLResendAck
<1>5. IsAck(pool.ticket[t])
  BY DEF CLResendAck, AckDue, IsAck
<1> HIDE DEF tk
<1>6. Queued(tk) <=> Queued(pool.ticket[t])
  BY <1>3 DEF Queued
<1>7. "ackpend" \in tk.flags => "active" \in tk.flags
  BY <1>3 DEF Sound, AwaitedQueued
<1>8. Keeps(pool, q)
  BY <1>2, <1>3, <1>6, <1>7, PutKeeps
<1>9. t \in q.used /\ q.ticket[t] = tk
  BY <1>1 DEF Put, Sound, IsPool
<1>10. IsAck(tk)
  BY <1>3, <1>5 DEF IsAck
<1> HIDE DEF q
<1>11. Keeps(q, pool') /\ flight' = flight
  BY <1>4, <1>8, <1>9, <1>10, TransmitKeeps DEF Keeps
<1> QED
  BY <1>8, <1>11, KeepsTransitive

LEMMA CLSendBundleKeeps ==
  ASSUME FreedOnce, TypeOK, Sound(pool), NEW t \in pool.used, NEW segments \in 1 .. MaxSegments,
         CLSendBundle(t, segments)
  PROVE  Keeps(pool, pool') /\ flight' = flight
<1> DEFINE tk == pool.ticket[t]
           first == [tk EXCEPT !.flags = @ \cup (IF segments > 1 THEN {"multipart"} ELSE {}),
                               !.left = segments, !.sent = FALSE]
           encoded == IF "multipart" \in tk.flags THEN tk ELSE first
           frame == [encoded EXCEPT !.flags = @ \cup {"transit"}, !.sent = @ \/ tk.nb \notin Udp]
           q == Put(pool, t, frame)
<1>1. t \in Blocks /\ tk \in Ticket /\ "active" \in tk.flags
  BY DEF TypeOK, IsPool, CLSendBundle, BundleDue
<1>2. encoded \in Ticket /\ encoded.bundle = tk.bundle /\ tk.flags \subseteq encoded.flags
  <2>1. tk.flags \cup (IF segments > 1 THEN {"multipart"} ELSE {}) \in SUBSET Flag
    BY <1>1 DEF Ticket, Flag
  <2>2. segments \in 0 .. MaxSegments
    BY SizeAssumption
  <2> QED
    BY <1>1, <2>1, <2>2 DEF Ticket
<1>3. /\ frame \in Ticket /\ frame.bundle = tk.bundle
      /\ frame.flags = encoded.flags \cup {"transit"}
  <2>1. encoded.flags \cup {"transit"} \in SUBSET Flag
    BY <1>2 DEF Ticket, Flag
  <2>2. (encoded.sent \/ tk.nb \notin Udp) \in BOOLEAN
    OBVIOUS
  <2>3. frame \in Ticket
    <3> HIDE DEF encoded
    <3> QED
      BY <1>2, <2>1, <2>2 DEF Ticket
  <2>4. frame.bundle = tk.bundle /\ frame.flags = encoded.flags \cup {"transit"}
    <3> HIDE DEF encoded
    <3> QED
      BY <1>2 DEF Ticket
  <2> QED
    BY <2>3, <2>4
<1>4. Transmit("cl", q, SetBlocked(blocked, tk.nb), FALSE, t, SemLeft)
  BY DEF CLSendBundle
<1>5. "active" \in frame.flags /\ Queued(frame) /\ Queued(tk)
  BY <1>1, <1>2, <1>3 DEF Queued
<1> HIDE DEF frame, encoded, first
<1>6. Keeps(pool, q)
  BY <1>3, <1>5, PutKeeps
<1>7. t \in q.used /\ q.ticket[t] = frame
  BY <1>1 DEF Put, TypeOK, IsPool
<1> HIDE DEF q
<1>8. Keeps(q, pool') /\ flight' = flight
  BY <1>4, <1>5, <1>6, <1>7, TransmitKeeps DEF Keeps
<1> QED
  BY <1>6, <1>8, KeepsTransitive

\* An acknowledgement closes a ticket that is still queued, or advances it.
LEMMA AckFrameKeeps ==
  ASSUME FreedOnce, TypeOK, Sound(pool), NEW n \in Nodes, NEW type, NEW expected,
         AckFrame(n, type, expected)
  PROVE  Keeps(pool, pool') /\ flight' = flight
<1>0. flight' = flight
  BY DEF AckFrame
<1>1. CASE UNCHANGED pool
  BY <1>0, <1>1, SoundKept
<1>2. CASE pool' # pool
  <2>1. PICK t \in Awaiting(pool, n) : Credited(t, type, expected)
    BY <1>2 DEF AckFrame
  <2>2. t \in pool.used /\ t \in Blocks /\ pool.ticket[t] \in Ticket /\ Queued(pool.ticket[t])
    BY DEF Awaiting, TypeOK, IsPool, Sound, AwaitedQueued, Queued
  <2>3. CASE pool' = Put(pool, t, Advanced(pool.ticket[t])) /\ ~IsFinal(pool.ticket[t])
    <3>1. pool.ticket[t].left - (IF pool.ticket[t].sent THEN 1 ELSE 0) \in 0 .. MaxSegments
      BY <2>2, <2>3, SizeAssumption DEF IsFinal, Ticket
    <3>2. /\ Advanced(pool.ticket[t]) \in Ticket
          /\ Advanced(pool.ticket[t]).flags = pool.ticket[t].flags
          /\ Advanced(pool.ticket[t]).bundle = pool.ticket[t].bundle
      BY <2>2, <3>1 DEF Advanced, Ticket
    <3>3. "ackpend" \in pool.ticket[t].flags => "active" \in pool.ticket[t].flags
      BY <2>2 DEF Sound, AwaitedQueued
    <3>4. Queued(Advanced(pool.ticket[t]))
      BY <2>2, <3>2 DEF Queued
    <3> QED
      BY <1>0, <2>2, <2>3, <3>2, <3>3, <3>4, PutKeeps
  <2>4. CASE \E flag \in {"done", "fail"} : \E status :
               status # "error" /\ pool' \in Closed(t, flag, status)
    <3>0. PICK flag \in {"done", "fail"} : \E status :
                 status # "error" /\ pool' \in Closed(t, flag, status)
      BY <2>4
    <3>1. PICK status : status # "error" /\ pool' \in Closed(t, flag, status)
      BY <3>0
    <3> DEFINE tk == [pool.ticket[t] EXCEPT !.flags = {flag}]
    <3>2. /\ tk \in Ticket /\ tk.flags = {flag} /\ tk.bundle = pool.ticket[t].bundle
      BY <2>2 DEF Ticket, Flag
    <3> HIDE DEF tk
    <3>3. Queued(tk) /\ "ackpend" \notin tk.flags
      BY <3>2 DEF Queued
    <3>4. Keeps(pool, Put(pool, t, tk)) /\ t \in Put(pool, t, tk).used
      BY <2>2, <3>2, <3>3, PutKeeps DEF Put, TypeOK, IsPool
    <3>5. pool' \in RoutingSent(Put(pool, t, tk), t, status)
      BY <3>1 DEF Closed, tk
    <3>6. Keeps(Put(pool, t, tk), pool')
      BY <3>1, <3>4, <3>5, RoutingSentKeeps DEF Keeps
    <3> QED
      BY <1>0, <3>4, <3>6, KeepsTransitive
  <2> QED
    BY <1>2, <2>1, <2>3, <2>4 DEF Credited
<1> QED
  BY <1>1, <1>2

\* The other actions, but for EnqueueBundle.
LEMMA SmallStepsKeep ==
  ASSUME FreedOnce, TypeOK, Sound(pool),
         \/ CLBackoff \/ CLNothingToSend \/ (\E t \in pool.used : CLDropBundle(t))
         \/ CheckTimeouts \/ SendDiscovery \/ Clock
         \/ (\E n \in Nodes : NeighbourDown(n)) \/ (\E b \in Bundles : DeleteBundle(b))
  PROVE  Keeps(pool, pool') /\ flight' = flight
<1>1. \A b : TicketsOf(pool, b) \subseteq pool.used
  BY DEF TicketsOf
<1>2. CASE CLBackoff \/ CLNothingToSend \/ SendDiscovery \/ ElapseLock
  BY <1>2, SoundKept DEF CLBackoff, CLNothingToSend, SendDiscovery, ElapseLock
<1>3. CASE \E t \in pool.used : CLDropBundle(t)
  BY <1>1, <1>3, FreeAllKeeps DEF CLDropBundle, FreedOnce
<1>4. CASE CheckTimeouts
  BY <1>4, FreeAllKeeps DEF CheckTimeouts, Expired
<1>5. CASE \E n \in Nodes : NeighbourDown(n)
  BY <1>5, FreeAllKeeps DEF NeighbourDown
<1>6. CASE \E b \in Bundles : DeleteBundle(b)
  BY <1>1, <1>6, FreeAllKeeps DEF DeleteBundle
<1>7. CASE \E t \in Blocks : Elapse(t)
  <2>1. PICK t \in Blocks : Elapse(t)
    BY <1>7
  <2> DEFINE tk == [pool.ticket[t] EXCEPT !.due = TRUE]
  <2>2. t \in pool.used /\ pool' = Put(pool, t, tk) /\ flight' = flight
    BY <2>1 DEF Elapse
  <2>3. pool.ticket[t] \in Ticket
    BY DEF TypeOK, IsPool
  <2>4. tk \in Ticket /\ tk.flags = pool.ticket[t].flags /\ tk.bundle = pool.ticket[t].bundle
    BY <2>3 DEF Ticket
  <2> HIDE DEF tk
  <2>5. "ackpend" \in tk.flags => "active" \in tk.flags
    BY <2>2, <2>4 DEF Sound, AwaitedQueued
  <2> QED
    BY <2>2, <2>4, <2>5, PutKeeps DEF Queued
<1> QED
  BY <1>2, <1>3, <1>4, <1>5, <1>6, <1>7 DEF Clock

\* A bundle is admitted only while more than QUEUE_FREE blocks are left, by the
\* counter; as that is right, the blocks bundles take stay below the reserve.
LEMMA EnqueueBundleKeeps ==
  ASSUME Sound(pool), NEW n \in Nodes, NEW b \in Bundles, EnqueueBundle(n, b)
  PROVE  Sound(pool') /\ ReserveKept' /\ flight' = flight
<1> DEFINE tk == [Blank EXCEPT !.flags = {"active"}, !.nb = n, !.bundle = b]
           p == Alloc(pool, tk, FALSE)
           q == [p EXCEPT !.queue = @ + 1]
           u == NextFree(pool)
<1>1. pool' = q /\ flight' = flight /\ ~Full(pool) /\ QUEUE - pool.slots > QUEUE_FREE
  BY DEF EnqueueBundle, SlotForBundle
<1>2. tk \in Ticket /\ tk.flags = {"active"}
  BY BlankIsTicket DEF Ticket, Flag
<1> HIDE DEF tk
<1>3. IsPool(p) /\ u \in Blocks \ pool.used
  BY <1>1, <1>2, AllocType, NextFreeIsFree DEF Sound, IsPool
<1>4. /\ p.used = pool.used \cup {u} /\ p.slots = pool.slots + 1 /\ p.queue = pool.queue
      /\ p.ticket = [pool.ticket EXCEPT ![u] = tk]
  BY DEF Alloc
<1> HIDE DEF p
<1>5. IsPool(q)
  BY <1>3, CountQueuedType
<1>6. /\ q.used = pool.used \cup {u} /\ q.slots = pool.slots + 1 /\ q.queue = pool.queue + 1
      /\ q.ticket = [pool.ticket EXCEPT ![u] = tk]
  BY <1>3, <1>4 DEF IsPool
<1> HIDE DEF q
<1>7. \A t \in q.used : q.ticket[t] = IF t = u THEN tk ELSE pool.ticket[t]
  BY <1>3, <1>6 DEF Sound, IsPool
<1>8. /\ QueuedIn(q) = QueuedIn(pool) \cup {u} /\ u \notin QueuedIn(pool)
      /\ BundlesIn(q) \subseteq q.used
  BY <1>2, <1>3, <1>6, <1>7 DEF QueuedIn, BundlesIn, Queued
<1>9. q.slots = Cardinality(q.used)
  <2>1. Cardinality(pool.used \cup {u}) = Cardinality(pool.used) + 1
    BY <1>3, SoundIsFinite, FS_AddElement
  <2> QED
    BY <1>6, <2>1 DEF Sound, Counted
<1>10. q.queue = Cardinality(QueuedIn(q))
  <2>1. Cardinality(QueuedIn(pool) \cup {u}) = Cardinality(QueuedIn(pool)) + 1
    BY <1>8, SoundIsFinite, FS_AddElement
  <2> QED
    BY <1>6, <1>8, <2>1 DEF Sound, Counted
<1>11. AwaitedQueued(q)
  BY <1>2, <1>6, <1>7 DEF Sound, AwaitedQueued
<1>12. Cardinality(BundlesIn(q)) <= QUEUE - QUEUE_FREE
  <2>1. IsFiniteSet(q.used) /\ Cardinality(q.used) \in Nat
    BY <1>5, BlocksFinite DEF IsPool
  <2>2. Cardinality(BundlesIn(q)) <= Cardinality(q.used) /\ Cardinality(BundlesIn(q)) \in Nat
    BY <1>8, <2>1, FS_Subset, FS_CardinalityType
  <2>3. q.slots <= QUEUE - QUEUE_FREE
    <3>1. pool.slots \in Int
      BY DEF Sound, IsPool
    <3> QED
      BY <1>1, <1>6, <3>1, SizeAssumption
  <2> QED
    BY <1>9, <2>1, <2>2, <2>3, SizeAssumption
<1> QED
  BY <1>1, <1>5, <1>9, <1>10, <1>11, <1>12 DEF Sound, Counted, ReserveKept, BundleTickets, BundlesIn

LEMMA FewerBundlesKeep ==
  ASSUME ReserveKept, Sound(pool), Keeps(pool, pool')
  PROVE  ReserveKept'
<1>1. IsFiniteSet(BundlesIn(pool)) /\ BundlesIn(pool) = BundleTickets
  BY BlocksFinite DEF Sound, IsPool, BundlesIn, BundleTickets
<1>2. /\ BundlesIn(pool') \subseteq BundlesIn(pool)
      /\ BundlesIn(pool') = BundleTickets'
  BY DEF Keeps, BundlesIn, BundleTickets
<1>3. /\ Cardinality(BundlesIn(pool')) <= Cardinality(BundlesIn(pool))
      /\ Cardinality(BundlesIn(pool')) \in Nat /\ Cardinality(BundlesIn(pool)) \in Nat
  BY <1>1, <1>2, FS_Subset, FS_CardinalityType
<1> QED
  BY <1>1, <1>2, <1>3, SizeAssumption DEF ReserveKept

\* The inductive invariant: without UDP peers no datagram is ever in flight.
SoundNode == Typed /\ Sound(pool) /\ ReserveKept /\ NoFlight

LEMMA SoundNodeKept ==
  ASSUME FreedOnce, SoundNode, [Next]_vars
  PROVE  Sound(pool') /\ ReserveKept' /\ NoFlight'
<1>1. TypeOK /\ Good(pool) /\ Sound(pool) /\ ReserveKept /\ NoFlight
  BY DEF SoundNode, Typed
<1>2. CASE Keeps(pool, pool') /\ flight' = flight
  BY <1>1, <1>2, FewerBundlesKeep DEF Keeps, NoFlight
<1>3. CASE DataArrives
  BY <1>1, <1>2, <1>3, DataFrameKeeps, NodeAssumption DEF DataArrives
<1>4. CASE AckArrives
  BY <1>1, <1>2, <1>4, AckFrameKeeps DEF AckArrives
<1>5. CASE \E t \in pool.used : CLResendAck(t)
  BY <1>1, <1>2, <1>5, CLResendAckKeeps
<1>6. CASE \E t \in pool.used, segments \in 1 .. MaxSegments : CLSendBundle(t, segments)
  BY <1>1, <1>2, <1>6, CLSendBundleKeeps
<1>7. CASE \E n \in Nodes, b \in Bundles : EnqueueBundle(n, b)
  BY <1>1, <1>7, EnqueueBundleKeeps DEF NoFlight
<1>8. CASE UNCHANGED vars
  BY <1>1, <1>2, <1>8, SoundKept DEF vars
<1>9. CASE \E task \in Tasks : UdpSent(task)
  BY <1>1, <1>9 DEF UdpSent, NoFlight
<1> QED
  BY <1>1, <1>2, <1>3, <1>4, <1>5, <1>6, <1>7, <1>8, <1>9, SmallStepsKeep DEF Next, CLTask, Upper

LEMMA SoundNodeInductive ==
  ASSUME FreedOnce
  PROVE  Spec => []SoundNode
<1>1. Init => SoundNode
  <2> SUFFICES ASSUME Init PROVE SoundNode
    OBVIOUS
  <2>1. Typed
    BY InitType
  <2>2. pool.used = {} /\ pool.slots = 0 /\ pool.queue = 0 /\ IsPool(pool)
    BY <2>1 DEF Init, Typed, TypeOK
  <2>3. QueuedIn(pool) = {} /\ BundleTickets = {} /\ AwaitedQueued(pool)
    BY <2>2 DEF QueuedIn, BundleTickets, AwaitedQueued
  <2>4. Sound(pool) /\ ReserveKept
    BY <2>2, <2>3, FS_EmptySet, SizeAssumption DEF Sound, Counted, ReserveKept
  <2>5. NoFlight
    BY DEF Init, NoFlight
  <2> QED
    BY <2>1, <2>4, <2>5 DEF SoundNode
<1>2. SoundNode /\ [Next]_vars => SoundNode'
  <2> SUFFICES ASSUME SoundNode, [Next]_vars PROVE SoundNode'
    OBVIOUS
  <2>1. Typed'
    BY NextType DEF SoundNode
  <2> QED
    BY <2>1, SoundNodeKept DEF SoundNode
<1> QED
  BY <1>1, <1>2, PTL DEF Spec

\* The two counters that every path adjusts by hand agree with the tickets, for every
\* queue size and any number of peers, bundles and retries, as long as no path frees
\* a ticket twice.
THEOREM CountersCorrect ==
  ASSUME FreedOnce
  PROVE  Spec => []CountersAgree
<1>1. Spec => []SoundNode
  BY SoundNodeInductive
<1>2. SoundNode => CountersAgree
  BY DEF SoundNode, Sound, Counted, CountersAgree, QueuedIn
<1> QED
  BY <1>1, <1>2, PTL

\* And then the blocks kept for acknowledgements and reception are never taken by
\* bundles: the admission test reads a counter that is right.
THEOREM ReserveCorrect ==
  ASSUME FreedOnce
  PROVE  Spec => []ReserveKept
<1>1. Spec => []SoundNode
  BY SoundNodeInductive
<1>2. SoundNode => ReserveKept
  BY DEF SoundNode
<1> QED
  BY <1>1, <1>2, PTL

(***************************************************************************)
(* The locks.  The CL task locks a neighbour only for a bundle it found    *)
(* not blocked, in the same step; every other step takes locks away or     *)
(* lets them age.                                                          *)
(***************************************************************************)
Single(bl) == \A i, j \in DOMAIN bl : bl[i].nb = bl[j].nb => i = j

LEMMA SetBlockedSingle ==
  ASSUME NEW bl \in Locks, Single(bl), NEW n, \A i \in DOMAIN bl : bl[i].nb # n
  PROVE  Single(SetBlocked(bl, n))
<1> DEFINE new == Append(bl, [nb |-> n, old |-> FALSE])
<1>1. /\ DOMAIN new = 1 .. Len(bl) + 1 /\ DOMAIN bl = 1 .. Len(bl) /\ Len(bl) \in Nat
      /\ new[Len(bl) + 1].nb = n /\ \A i \in DOMAIN bl : new[i] = bl[i]
  BY DEF Locks
<1> HIDE DEF new
<1>2. Single(new)
  BY <1>1 DEF Single
<1> QED
  BY <1>2 DEF SetBlocked, new

LEMMA SetUnblockedSingle ==
  ASSUME NEW bl \in Locks, Single(bl), NEW n
  PROVE  Single(SetUnblocked(bl, n))
<1> DEFINE mine == {i \in DOMAIN bl : bl[i].nb = n}
           k == CHOOSE i \in mine : \A j \in mine : i <= j
           new == RemoveAt(bl, k)
<1>1. CASE mine = {}
  BY <1>1 DEF SetUnblocked
<1>2. CASE mine # {}
  <2>1. k \in 1 .. Len(bl)
    BY <1>2, FirstLock
  <2> HIDE DEF k
  <2>2. /\ DOMAIN bl = 1 .. Len(bl) /\ Len(bl) \in Nat /\ DOMAIN new = 1 .. Len(bl) - 1
        /\ \A i \in DOMAIN new : new[i] = bl[IF i < k THEN i ELSE i + 1]
    BY <2>1, RemoveAtElements DEF Locks
  <2> HIDE DEF new
  <2>3. Single(new)
    <3> SUFFICES ASSUME NEW i \in DOMAIN new, NEW j \in DOMAIN new, new[i].nb = new[j].nb
                 PROVE  i = j
      BY DEF Single
    <3> DEFINE a == IF i < k THEN i ELSE i + 1
               b == IF j < k THEN j ELSE j + 1
    <3>1. a \in DOMAIN bl /\ b \in DOMAIN bl /\ new[i] = bl[a] /\ new[j] = bl[b]
      BY <2>1, <2>2
    <3>2. a = b
      BY <3>1 DEF Single
    <3> QED
      BY <2>1, <2>2, <3>2
  <2> QED
    BY <1>2, <2>3 DEF SetUnblocked, new, k
<1> QED
  BY <1>1, <1>2

\* Whatever is reported of a frame, a lock is taken away or none is touched.
LEMMA TransmitSingle ==
  ASSUME NEW task, NEW p, NEW bl \in Locks, Single(bl), NEW bo, NEW t, NEW given,
         Transmit(task, p, bl, bo, t, given)
  PROVE  Single(blocked')
<1>1. CASE blocked' = bl
  BY <1>1
<1>2. CASE \E n : blocked' = SetUnblocked(bl, n)
  BY <1>2, SetUnblockedSingle
<1> QED
  BY <1>1, <1>2 DEF Transmit, Status

LEMMA LockedOnceKept ==
  ASSUME TypeOK, LockedOnce, [Next]_vars
  PROVE  LockedOnce'
<1>1. blocked \in Locks /\ Single(blocked)
  BY DEF TypeOK, Locks, LockedOnce, Single
<1>2. SUFFICES Single(blocked')
  BY DEF Single, LockedOnce
<1>3. CASE blocked' = blocked
  BY <1>1, <1>3
<1>4. CASE \E n : blocked' = SetUnblocked(blocked, n)
  BY <1>1, <1>4, SetUnblockedSingle
<1>5. CASE \E t \in pool.used, segments \in 1 .. MaxSegments : CLSendBundle(t, segments)
  <2>1. PICK t \in pool.used, segments \in 1 .. MaxSegments : CLSendBundle(t, segments)
    BY <1>5
  <2> DEFINE n == pool.ticket[t].nb
  <2>2. n \in Nodes \cup {None} /\ \A i \in DOMAIN blocked : blocked[i].nb # n
    BY <2>1 DEF CLSendBundle, BundleDue, IsBlocked, TypeOK, IsPool, Ticket
  <2>3. SetBlocked(blocked, n) \in Locks /\ Single(SetBlocked(blocked, n))
    BY <1>1, <2>2, SetBlockedType, SetBlockedSingle
  <2>4. \E p : Transmit("cl", p, SetBlocked(blocked, n), FALSE, t, SemLeft)
    BY <2>1 DEF CLSendBundle
  <2> HIDE DEF n
  <2> QED
    BY <2>3, <2>4, TransmitSingle
<1>6. CASE \E t \in pool.used : CLResendAck(t)
  BY <1>1, <1>6, TransmitSingle DEF CLResendAck
<1>7. CASE DataArrives
  <2>1. PICK n \in Sources, kind \in Kinds : DataFrame(n, kind)
    BY <1>7 DEF DataArrives
  <2>2. \/ blocked' = blocked
        \/ \E p, t : Transmit("rx", p, blocked, backoff, t, sem)
    BY <2>1, Zenon DEF DataFrame
  <2> QED
    BY <1>1, <1>3, <2>2, TransmitSingle
<1>8. CASE \E task \in Tasks : UdpSent(task)
  <2>1. PICK p, t, o : Status(p, blocked, backoff, t, o)
    BY <1>8, Zenon DEF UdpSent
  <2> QED
    BY <1>3, <1>4, <2>1 DEF Status
<1>9. CASE ElapseLock
  <2>1. PICK k \in DOMAIN blocked : blocked' = [blocked EXCEPT ![k].old = TRUE]
    BY <1>9 DEF ElapseLock
  <2>2. /\ DOMAIN blocked' = DOMAIN blocked
        /\ \A i \in DOMAIN blocked : blocked'[i].nb = blocked[i].nb
    BY <1>1, <2>1 DEF Locks
  <2> QED
    BY <1>1, <2>2 DEF Single
<1>10. CASE AckArrives \/ CheckTimeouts \/ (\E n \in Nodes : NeighbourDown(n))
  BY <1>3, <1>4, <1>10 DEF AckArrives, AckFrame, CheckTimeouts, NeighbourDown
<1>11. CASE \/ CLBackoff \/ CLNothingToSend \/ (\E t \in pool.used : CLDropBundle(t)) \/ SendDiscovery
            \/ (\E t \in Blocks : Elapse(t)) \/ UNCHANGED vars
            \/ (\E n \in Nodes, b \in Bundles : EnqueueBundle(n, b)) \/ (\E b \in Bundles : DeleteBundle(b))
  BY <1>3, <1>11 DEF CLBackoff, CLNothingToSend, CLDropBundle, SendDiscovery, Elapse, vars,
                     EnqueueBundle, DeleteBundle
<1> QED
  BY <1>5, <1>6, <1>7, <1>8, <1>9, <1>10, <1>11 DEF Next, CLTask, Upper, Clock

\* No neighbour is ever locked twice, over the radio or over UDP, with tasks that
\* interleave while a datagram is sent, and with every failing path: one
\* acknowledgement, failure or timeout always releases the neighbour.
THEOREM LocksCorrect == Spec => []LockedOnce
<1>1. Init => LockedOnce
  BY DEF Init, LockedOnce
<1>2. TypeOK /\ LockedOnce /\ [Next]_vars => LockedOnce'
  BY LockedOnceKept
<1> QED
  BY <1>1, <1>2, TypeCorrect, PTL DEF Spec
=============================================================================
