------------------------- MODULE OneAwaited_proofs -------------------------
(***************************************************************************)
(* A neighbour on the radio owes one acknowledgement at a time: the proof  *)
(* of OneAwaited, for every queue size, every set of peers and bundles,    *)
(* every retry limit and every MAC outcome.                                *)
(***************************************************************************)
EXTENDS ConvergenceLayer_proofs

Active(tk) == "active" \in tk.flags
Owed(tk) == "ackpend" \in tk.flags
Moving(tk) == "transit" \in tk.flags

\* Every peer is on the radio, and the pass sends the first due ticket or none: over
\* UDP a report comes late, for a ticket that may have been freed meanwhile, and a
\* bundle that cannot be encoded lets the pass send a later one of the same neighbour.
InOrder == Udp = {} /\ "unsendable" \notin Faults

(***************************************************************************)
(* The tickets of a neighbour are served in the order of the list: one     *)
(* that waits for its acknowledgement has none in front of it that is      *)
(* still to be sent.  Between two steps no frame is with the MAC; x is the *)
(* ticket whose frame is, within one.                                      *)
(***************************************************************************)
InTurn(p) ==
  \A i, j \in DOMAIN p.list :
    LET t == p.ticket[p.list[i]]
        u == p.ticket[p.list[j]]
    IN i < j /\ t.nb = u.nb /\ Active(t) => ~Owed(u)
Idle(p, x) == \A t \in p.used : t # x => ~Moving(p.ticket[t])
Ordered(p, x) == Good(p) /\ AwaitedQueued(p) /\ Idle(p, x) /\ InTurn(p)
FirstActive(p, t) ==
  \A i, j \in DOMAIN p.list :
    LET u == p.ticket[p.list[i]]
    IN i < j /\ p.list[j] = t /\ u.nb = p.ticket[t].nb => ~Active(u)

\* What a pool that is Ordered gives to the proofs below.
LEMMA OrderedParts ==
  ASSUME NEW p, NEW x, Ordered(p, x)
  PROVE  /\ p.used \subseteq Blocks /\ None \notin p.used
         /\ \A t \in p.used : t \in Blocks /\ p.ticket[t] \in Ticket
         /\ p.list \in Seq(Blocks) /\ Distinct(p.list)
         /\ \A i \in DOMAIN p.list : i \in Nat /\ p.list[i] \in p.used
         /\ \A t \in p.used : \E i \in DOMAIN p.list : p.list[i] = t
<1>1. /\ IsPool(p) /\ p.list \in Seq(Blocks) /\ Distinct(p.list) /\ Elements(p.list) = p.used
  BY DEF Ordered, Good, Matched
<1>2. p.used \subseteq Blocks /\ p.ticket \in [Blocks -> Ticket]
  BY <1>1 DEF IsPool
<1>3. \A i \in DOMAIN p.list : i \in Nat /\ p.list[i] \in p.used
  BY <1>1 DEF Elements
<1>4. \A t \in p.used : \E i \in DOMAIN p.list : p.list[i] = t
  BY <1>1 DEF Elements
<1>5. None \notin p.used
  BY <1>2, NodeAssumption DEF Blocks
<1> QED
  BY <1>1, <1>2, <1>3, <1>4, <1>5

LEMMA OrderedIsOne ==
  ASSUME NEW x, Ordered(pool, x)
  PROVE  OneAwaited
<1> SUFFICES ASSUME NEW n \in Nodes  PROVE Cardinality(Awaiting(pool, n)) <= 1
  BY DEF OneAwaited
<1>1. ASSUME NEW t \in Awaiting(pool, n), NEW u \in Awaiting(pool, n)  PROVE t = u
  <2>1. PICK i \in DOMAIN pool.list : pool.list[i] = t
    BY OrderedParts DEF Awaiting
  <2>2. PICK j \in DOMAIN pool.list : pool.list[j] = u
    BY OrderedParts DEF Awaiting
  <2>3. /\ Active(pool.ticket[t]) /\ Owed(pool.ticket[t]) /\ pool.ticket[t].nb = n
        /\ Active(pool.ticket[u]) /\ Owed(pool.ticket[u]) /\ pool.ticket[u].nb = n
    BY DEF Awaiting, Active, Owed, Ordered, AwaitedQueued
  <2>4. ~(i < j) /\ ~(j < i)
    BY <2>1, <2>2, <2>3 DEF Ordered, InTurn
  <2>5. i \in Nat /\ j \in Nat
    BY OrderedParts
  <2> QED
    BY <2>1, <2>2, <2>4, <2>5
<1>2. CASE Awaiting(pool, n) = {}
  BY <1>2, FS_EmptySet
<1>3. CASE Awaiting(pool, n) # {}
  <2>1. PICK t : t \in Awaiting(pool, n)
    BY <1>3
  <2>2. Awaiting(pool, n) = {t}
    BY <1>1, <2>1
  <2> QED
    BY <2>2, FS_Singleton
<1> QED
  BY <1>2, <1>3

(***************************************************************************)
(* The operations on the pool                                              *)
(***************************************************************************)
\* A pool with the same tickets in the same order.
LEMMA SameOrdered ==
  ASSUME NEW p, NEW x, Ordered(p, x), NEW q, Good(q), q.used = p.used, q.list = p.list,
         \A t \in p.used : /\ q.ticket[t].flags = p.ticket[t].flags
                           /\ q.ticket[t].nb = p.ticket[t].nb
  PROVE  Ordered(q, x)
<1>1. AwaitedQueued(q) /\ Idle(q, x)
  BY DEF Ordered, AwaitedQueued, Idle, Moving
<1>2. InTurn(q)
  <2> SUFFICES ASSUME NEW i \in DOMAIN q.list, NEW j \in DOMAIN q.list, i < j,
                      q.ticket[q.list[i]].nb = q.ticket[q.list[j]].nb,
                      Active(q.ticket[q.list[i]]), Owed(q.ticket[q.list[j]])
               PROVE  FALSE
    BY DEF InTurn
  <2>1. p.list[i] \in p.used /\ p.list[j] \in p.used
    BY OrderedParts
  <2> QED
    BY <2>1 DEF Ordered, InTurn, Active, Owed
<1> QED
  BY <1>1, <1>2 DEF Ordered

LEMMA PutOrdered ==
  ASSUME NEW p, NEW x, Ordered(p, x), NEW t \in p.used, NEW tk \in Ticket, NEW y,
         tk.nb = p.ticket[t].nb, Active(tk) => Active(p.ticket[t]), Owed(tk) => Active(tk),
         Owed(tk) => Owed(p.ticket[t]) \/ FirstActive(p, t),
         Moving(tk) => y = t, x \in {t, y, None}
  PROVE  Ordered(Put(p, t, tk), y)
<1> DEFINE q == Put(p, t, tk)
<1>1. t \in Blocks /\ Good(q)
  BY OrderedParts, PutGood DEF Ordered
<1>2. /\ q.used = p.used /\ q.list = p.list /\ q.ticket[t] = tk
      /\ \A u \in p.used : u # t => q.ticket[u] = p.ticket[u]
  BY <1>1, OrderedParts DEF Put, Ordered, Good, IsPool
<1> HIDE DEF q
<1>3. AwaitedQueued(q)
  BY <1>2 DEF Ordered, AwaitedQueued, Active, Owed
<1>4. Idle(q, y)
  <2>1. \A u \in p.used : u # t => u # x \/ u = y
    BY OrderedParts
  <2>2. \A u \in p.used : u # x => ~Moving(p.ticket[u])
    BY DEF Ordered, Idle
  <2> QED
    BY <1>2, <2>1, <2>2 DEF Idle
<1>5. InTurn(q)
  <2> SUFFICES ASSUME NEW i \in DOMAIN q.list, NEW j \in DOMAIN q.list, i < j,
                      q.ticket[q.list[i]].nb = q.ticket[q.list[j]].nb,
                      Active(q.ticket[q.list[i]]), Owed(q.ticket[q.list[j]])
               PROVE  FALSE
    BY DEF InTurn
  <2>1. /\ i \in DOMAIN p.list /\ j \in DOMAIN p.list
        /\ p.list[i] \in p.used /\ p.list[j] \in p.used
    BY <1>2, OrderedParts
  <2>2. /\ p.ticket[p.list[i]].nb = p.ticket[p.list[j]].nb
        /\ Active(p.ticket[p.list[i]])
    BY <1>2, <2>1
  <2>3. ~Owed(p.ticket[p.list[j]])
    BY <2>1, <2>2 DEF Ordered, InTurn
  <2>4. p.list[j] = t /\ FirstActive(p, t)
    BY <1>2, <2>1, <2>3
  <2> QED
    BY <2>1, <2>2, <2>4 DEF FirstActive
<1> QED
  BY <1>1, <1>3, <1>4, <1>5 DEF Ordered, q

LEMMA FreeAllOrdered ==
  ASSUME NEW p, NEW x, Ordered(p, x), NEW F, F \subseteq Blocks, NEW y, x = y \/ x \in F
  PROVE  Ordered(FreeAll(p, F), y)
<1> DEFINE q == FreeAll(p, F)
<1>1. /\ Good(q) /\ q.used = p.used \ F /\ q.list = ListWithout(p.list, F)
      /\ \A u \in p.used \ F : q.ticket[u] = p.ticket[u]
  BY FreeAllGood, OrderedParts DEF Ordered, FreeAll
<1> HIDE DEF q
<1>2. AwaitedQueued(q) /\ Idle(q, y)
  BY <1>1 DEF Ordered, AwaitedQueued, Idle
<1>3. InTurn(q)
  <2>1. PICK h : LeftFrom(p.list, F, q.list, h)
    BY <1>1, OrderedParts, ListLeft
  <2> SUFFICES ASSUME NEW i \in DOMAIN q.list, NEW j \in DOMAIN q.list, i < j,
                      q.ticket[q.list[i]].nb = q.ticket[q.list[j]].nb,
                      Active(q.ticket[q.list[i]]), Owed(q.ticket[q.list[j]])
               PROVE  FALSE
    BY DEF InTurn
  <2>2. /\ h[i] \in DOMAIN p.list /\ q.list[i] = p.list[h[i]] /\ q.list[i] \notin F
        /\ h[j] \in DOMAIN p.list /\ q.list[j] = p.list[h[j]] /\ q.list[j] \notin F
        /\ h[i] < h[j]
    BY <2>1 DEF LeftFrom
  <2>3. q.list[i] \in p.used \ F /\ q.list[j] \in p.used \ F
    BY <2>2, OrderedParts
  <2> QED
    BY <1>1, <2>2, <2>3 DEF Ordered, InTurn
<1> QED
  BY <1>1, <1>2, <1>3 DEF Ordered, q

\* A ticket for a bundle joins at the end, any other one in front.
LEMMA AllocOrdered ==
  ASSUME NEW p, Ordered(p, None), ~Full(p), NEW tk \in Ticket, NEW high \in BOOLEAN,
         ~Owed(tk), high => ~Active(tk), NEW y, Moving(tk) => y = NextFree(p)
  PROVE  Ordered(Alloc(p, tk, high), y)
<1> DEFINE q == Alloc(p, tk, high)
           b == NextFree(p)
           s == p.list
<1>1. Good(q) /\ b \in Blocks \ p.used /\ p.ticket \in [Blocks -> Ticket]
  BY AllocGood, NextFreeIsFree, OrderedParts DEF Ordered, Good, IsPool
<1>2. /\ q.used = p.used \cup {b} /\ q.list = (IF high THEN <<b>> \o s ELSE Append(s, b))
      /\ q.ticket = [p.ticket EXCEPT ![b] = tk]
  BY DEF Alloc
<1>3. q.ticket[b] = tk /\ \A u \in p.used : q.ticket[u] = p.ticket[u]
  BY <1>1, <1>2
<1>4. s \in Seq(Blocks) /\ \A i \in DOMAIN s : i \in Nat /\ s[i] \in p.used
  BY OrderedParts
<1>5. \A i, j \in DOMAIN s :
        i < j /\ p.ticket[s[i]].nb = p.ticket[s[j]].nb /\ Active(p.ticket[s[i]]) => ~Owed(p.ticket[s[j]])
  BY DEF Ordered, InTurn
<1> HIDE DEF q, b, s
<1>6. AwaitedQueued(q)
  BY <1>2, <1>3 DEF Ordered, AwaitedQueued, Owed
<1>7. Idle(q, y)
  <2>1. \A u \in p.used : ~Moving(p.ticket[u])
    BY OrderedParts DEF Ordered, Idle
  <2>2. Moving(tk) => y = b
    BY DEF b
  <2> QED
    BY <1>2, <1>3, <2>1, <2>2 DEF Idle
<1>8. InTurn(q)
  <2> SUFFICES ASSUME NEW i \in DOMAIN q.list, NEW j \in DOMAIN q.list, i < j,
                      q.ticket[q.list[i]].nb = q.ticket[q.list[j]].nb,
                      Active(q.ticket[q.list[i]]), Owed(q.ticket[q.list[j]])
               PROVE  FALSE
    BY DEF InTurn
  <2>1. q.list[j] # b /\ (high => q.list[i] # b)
    BY <1>3
  <2>2. CASE high
    <3>1. /\ q.list[1] = b /\ i \in Nat /\ j \in Nat
          /\ i = 1 \/ (i - 1 \in DOMAIN s /\ q.list[i] = s[i - 1])
          /\ j = 1 \/ (j - 1 \in DOMAIN s /\ q.list[j] = s[j - 1])
      BY <1>1, <1>2, <1>4, <2>2, InFrontPlaces
    <3>2. /\ i - 1 \in DOMAIN s /\ q.list[i] = s[i - 1]
          /\ j - 1 \in DOMAIN s /\ q.list[j] = s[j - 1] /\ i - 1 < j - 1
      BY <2>1, <2>2, <3>1
    <3> HIDE DEF InTurn
    <3> QED
      BY <1>3, <1>4, <1>5, <3>2
  <2>3. CASE ~high
    <3> DEFINE n == Len(s) + 1
    <3>1. /\ q.list[n] = b
          /\ \A k \in DOMAIN q.list : k \in Nat /\ (k = n \/ k \in DOMAIN s)
          /\ \A k \in DOMAIN s : q.list[k] = s[k] /\ k < n
      BY <1>1, <1>2, <1>4, <2>3, AppendPlaces
    <3> HIDE DEF n
    <3>2. j \in DOMAIN s
      BY <2>1, <3>1
    <3>3. n \in Nat
      BY <1>4 DEF n
    <3>4. i \in DOMAIN s
      <4>1. i # n
        BY <1>4, <3>1, <3>2, <3>3
      <4> QED
        BY <3>1, <4>1
    <3> QED
      BY <1>3, <1>4, <1>5, <3>1, <3>2, <3>4
  <2> QED
    BY <2>2, <2>3
<1> QED
  BY <1>1, <1>6, <1>7, <1>8 DEF Ordered, q

(***************************************************************************)
(* The callbacks                                                           *)
(***************************************************************************)
LEMMA RoutingSentOrdered ==
  ASSUME NEW p, NEW t \in p.used, NEW x \in {t, None}, Ordered(p, x), NEW status,
         NEW q \in RoutingSent(p, t, status)
  PROVE  Ordered(q, None)
<1> DEFINE deleted == FreeAll(p, TicketsOf(p, p.ticket[t].bundle))
<1>1. TicketsOf(p, p.ticket[t].bundle) \subseteq Blocks /\ {t} \subseteq Blocks
  BY OrderedParts DEF TicketsOf
<1>2. Ordered(FreeAll(p, {t}), None)
  BY <1>1, FreeAllOrdered
<1>3. Ordered(deleted, x)
  BY <1>1, FreeAllOrdered
<1>4. Ordered(FreeAll(deleted, {t}), None)
  <2> HIDE DEF deleted
  <2> QED
    BY <1>1, <1>3, FreeAllOrdered
<1> QED
  BY <1>2, <1>4 DEF RoutingSent

LEMMA AckStatusOrdered ==
  ASSUME NEW p, NEW t \in p.used, Ordered(p, t), NEW o, NEW q \in AckStatus(p, t, o)
  PROVE  Ordered(q, None)
<1> DEFINE tk == p.ticket[t]
           tried == [tk EXCEPT !.flags = @ \ {"transit"}, !.tries = @ + 1,
                               !.failed = @ + (IF o = "nosend" THEN 1 ELSE 0),
                               !.due = (o = "nosend")]
<1>1. tk \in Ticket /\ {t} \subseteq Blocks
  BY OrderedParts
<1>2. tried \in Ticket /\ tried.nb = tk.nb /\ tried.flags = tk.flags \ {"transit"}
  <2>1. tk.flags \ {"transit"} \in SUBSET Flag /\ (o = "nosend") \in BOOLEAN
    BY <1>1 DEF Ticket
  <2>2. tk.tries + 1 \in Nat /\ tk.failed + (IF o = "nosend" THEN 1 ELSE 0) \in Nat
    BY <1>1 DEF Ticket
  <2> QED
    BY <1>1, <2>1, <2>2 DEF Ticket
<1>3. q = FreeAll(p, {t}) \/ q = Put(p, t, tried)
  BY DEF AckStatus
<1> HIDE DEF tried
<1>4. /\ Active(tried) => Active(tk)
      /\ Owed(tried) => Owed(tk)
      /\ Owed(tk) => Active(tk)
      /\ ~Moving(tried)
  BY <1>2 DEF Active, Owed, Moving, Ordered, AwaitedQueued
<1>5. Owed(tried) => Active(tried)
  BY <1>2, <1>4 DEF Active, Owed
<1>6. Ordered(Put(p, t, tried), None)
  BY <1>2, <1>4, <1>5, PutOrdered
<1>7. Ordered(FreeAll(p, {t}), None)
  BY <1>1, FreeAllOrdered
<1> QED
  BY <1>3, <1>6, <1>7

\* A bundle that has been sent becomes the one that is owed an acknowledgement.
LEMMA BundleStatusOrdered ==
  ASSUME NEW p, NEW t \in p.used, Ordered(p, t), Active(p.ticket[t]), FirstActive(p, t),
         NEW o, NEW q \in BundleStatus(p, t, o)
  PROVE  Ordered(q, None)
<1> DEFINE old == p.ticket[t]
           tk == [old EXCEPT !.flags = @ \ {"transit"}]
           tried == [tk EXCEPT !.tries = @ + (IF o = "noack" THEN 1 ELSE 0),
                               !.failed = @ + (IF o = "nosend" THEN 1 ELSE 0)]
           retry == [tried EXCEPT !.flags = @ \cup {"active"}]
           given_up == [tried EXCEPT !.flags = @ \cup {"fail"}]
           acked == [tk EXCEPT !.flags = @ \cup {"active", "ackpend"}]
<1>1. old \in Ticket
  BY OrderedParts
<1>2. tk \in Ticket /\ tk.nb = old.nb /\ tk.flags = old.flags \ {"transit"}
  BY <1>1 DEF Ticket
<1>3. tried \in Ticket /\ tried.nb = tk.nb /\ tried.flags = tk.flags
  <2>1. /\ tk.tries + (IF o = "noack" THEN 1 ELSE 0) \in Nat
        /\ tk.failed + (IF o = "nosend" THEN 1 ELSE 0) \in Nat
    BY <1>2 DEF Ticket
  <2> HIDE DEF tk
  <2> QED
    BY <1>2, <2>1 DEF Ticket
<1>4. /\ retry \in Ticket /\ retry.nb = old.nb
      /\ retry.flags = (old.flags \ {"transit"}) \cup {"active"}
  <2> HIDE DEF tried, tk
  <2> QED
    BY <1>2, <1>3 DEF Ticket, Flag
<1>5. /\ given_up \in Ticket /\ given_up.nb = old.nb
      /\ given_up.flags = (old.flags \ {"transit"}) \cup {"fail"}
  <2> HIDE DEF tried, tk
  <2> QED
    BY <1>2, <1>3 DEF Ticket, Flag
<1>6. /\ acked \in Ticket /\ acked.nb = old.nb
      /\ acked.flags = (old.flags \ {"transit"}) \cup {"active", "ackpend"}
  <2> HIDE DEF tk
  <2> QED
    BY <1>2 DEF Ticket, Flag
<1>7. \/ q \in {Put(p, t, acked), Put(p, t, retry)}
      \/ q \in RoutingSent(Put(p, t, tk), t, "error")
      \/ q \in RoutingSent(Put(p, t, given_up), t, "fail")
  BY DEF BundleStatus
<1> HIDE DEF old, tk, tried, retry, given_up, acked
<1>8. Active(old) /\ FirstActive(p, t)
  BY DEF old
<1>9. Ordered(Put(p, t, acked), None) /\ Ordered(Put(p, t, retry), None)
  <2>1. Active(acked) /\ ~Moving(acked) /\ Active(retry) /\ ~Moving(retry)
    BY <1>4, <1>6 DEF Active, Moving
  <2> QED
    BY <1>4, <1>6, <1>8, <2>1, PutOrdered DEF old
<1>10. Ordered(Put(p, t, tk), None) /\ Ordered(Put(p, t, given_up), None)
  <2>1. Active(tk) /\ ~Moving(tk) /\ Active(given_up) /\ ~Moving(given_up)
    BY <1>2, <1>5, <1>8 DEF Active, Moving
  <2> QED
    BY <1>2, <1>5, <1>8, <2>1, PutOrdered DEF old
<1>11. t \in Put(p, t, tk).used /\ t \in Put(p, t, given_up).used
  BY DEF Put, Ordered, Good, IsPool
<1> QED
  BY <1>7, <1>9, <1>10, <1>11, RoutingSentOrdered

\* Over the radio a frame is sent and reported in one step.
LEMMA TransmitOrdered ==
  ASSUME InOrder, NEW task, NEW p, NEW t \in p.used, Ordered(p, t), NEW bl, NEW bo, NEW given,
         IsAck(p.ticket[t]) \/ (Active(p.ticket[t]) /\ FirstActive(p, t)),
         Transmit(task, p, bl, bo, t, given)
  PROVE  Ordered(pool', None) /\ flight' = flight
<1>1. PICK o \in Outcomes : Status(p, bl, bo, t, o)
  BY DEF Transmit, InOrder
<1>2. flight' = flight
  BY DEF Transmit, InOrder
<1>3. CASE IsAck(p.ticket[t])
  BY <1>1, <1>2, <1>3, AckStatusOrdered DEF Status
<1>4. CASE ~IsAck(p.ticket[t])
  BY <1>1, <1>2, <1>4, BundleStatusOrdered DEF Status
<1> QED
  BY <1>3, <1>4

(***************************************************************************)
(* Incoming data                                                           *)
(***************************************************************************)
LEMMA DispatchedOrdered ==
  ASSUME NEW p, Ordered(p, None), NEW r \in Dispatched(p)
  PROVE  Ordered(r.pool, None)
<1>1. \A b \in Bundles : TicketsOf(p, b) \subseteq Blocks
  BY OrderedParts DEF TicketsOf
<1>2. r.pool = p \/ \E b \in Bundles : r.pool = FreeAll(p, TicketsOf(p, b))
  BY DEF Dispatched
<1> QED
  BY <1>1, <1>2, FreeAllOrdered

LEMMA FirstSegmentOrdered ==
  ASSUME NEW p, Ordered(p, None), NEW n \in Nodes, NEW r \in FirstSegment(p, n)
  PROVE  Ordered(r.pool, None)
<1> DEFINE synced == FreeAll(p, Receiving(p, n))
           tk == [Blank EXCEPT !.flags = {"recv"}, !.nb = n]
<1>1. Ordered(synced, None)
  BY OrderedParts, FreeAllOrdered DEF Receiving
<1>2. tk \in Ticket /\ tk.flags = {"recv"}
  BY BlankIsTicket DEF Ticket, Flag
<1>3. \/ r = [pool |-> synced, reply |-> "tempnack"]
      \/ ~Full(synced) /\ r = [pool |-> Alloc(synced, tk, TRUE), reply |-> "ack"]
  BY Zenon DEF FirstSegment
<1>4. CASE r = [pool |-> synced, reply |-> "tempnack"]
  BY <1>1, <1>4
<1>5. CASE ~Full(synced) /\ r = [pool |-> Alloc(synced, tk, TRUE), reply |-> "ack"]
  <2> HIDE DEF synced, tk
  <2>1. ~Owed(tk) /\ ~Active(tk) /\ ~Moving(tk)
    BY <1>2 DEF Owed, Active, Moving
  <2>2. Ordered(Alloc(synced, tk, TRUE), None)
    BY <1>1, <1>2, <1>5, <2>1, AllocOrdered
  <2> QED
    BY <1>5, <2>2
<1> QED
  BY <1>3, <1>4, <1>5

LEMMA NextSegmentOrdered ==
  ASSUME NEW p, Ordered(p, None), NEW n \in Nodes, NEW last, NEW r \in NextSegment(p, n, last)
  PROVE  Ordered(r.pool, None)
<1> DEFINE mine == Receiving(p, n)
           tickets == [t \in Blocks |->
                         IF t \in mine THEN [p.ticket[t] EXCEPT !.due = FALSE] ELSE p.ticket[t]]
           touched == [p EXCEPT !.ticket = tickets]
<1>1. Ordered(FreeAll(p, mine), None)
  BY OrderedParts, FreeAllOrdered DEF Receiving
<1>2. Ordered(touched, None)
  <2>0. Good(p)
    BY DEF Ordered
  <2>1. \A t \in Blocks : p.ticket[t] \in Ticket /\ [p.ticket[t] EXCEPT !.due = FALSE] \in Ticket
    BY <2>0 DEF Good, IsPool, Ticket
  <2>2. tickets \in [Blocks -> Ticket]
    BY <2>1
  <2>3. \A t \in p.used : tickets[t].flags = p.ticket[t].flags /\ tickets[t].nb = p.ticket[t].nb
    BY <2>1, OrderedParts DEF Ticket
  <2> HIDE DEF tickets
  <2>4. /\ IsPool(touched) /\ touched.list = p.list /\ touched.used = p.used
        /\ touched.ticket = tickets
    BY <2>0, <2>2 DEF Good, IsPool
  <2>5. Good(touched)
    BY <2>0, <2>4 DEF Good, Matched
  <2> HIDE DEF touched
  <2> QED
    BY <2>3, <2>4, <2>5, SameOrdered
<1>3. CASE mine = {}
  BY <1>3 DEF NextSegment
<1>4. CASE mine # {}
  <2>1. \/ r = [pool |-> p, reply |-> "ack"]
        \/ r = [pool |-> FreeAll(p, mine), reply |-> "tempnack"]
        \/ r \in Dispatched(FreeAll(p, mine))
        \/ r = [pool |-> touched, reply |-> "ack"]
    BY <1>4, Zenon DEF NextSegment
  <2> HIDE DEF touched, mine
  <2>2. CASE r \in Dispatched(FreeAll(p, mine))
    BY <1>1, <2>2, DispatchedOrdered
  <2> QED
    BY <1>1, <1>2, <2>1, <2>2
<1> QED
  BY <1>3, <1>4

LEMMA DataFrameOrdered ==
  ASSUME InOrder, Ordered(pool, None), NEW n \in Nodes, NEW kind, DataFrame(n, kind)
  PROVE  Ordered(pool', None) /\ flight' = flight
<1>1. PICK r \in Parsed(pool, n, kind) :
        IF Full(r.pool)
        THEN crashed' = TRUE /\ UNCHANGED <<pool, blocked, sem, backoff, flight>>
        ELSE LET tk == [Blank EXCEPT !.flags = {r.reply, "transit"}, !.nb = n]
             IN /\ Transmit("rx", Alloc(r.pool, tk, TRUE), blocked, backoff, NextFree(r.pool), sem)
                /\ UNCHANGED crashed
  BY DEF DataFrame
<1>2. Ordered(r.pool, None) /\ r.reply \in Replies
  BY DispatchedOrdered, FirstSegmentOrdered, NextSegmentOrdered, ParsedType DEF Parsed, Ordered
<1>3. CASE Full(r.pool)
  BY <1>1, <1>3
<1>4. CASE ~Full(r.pool)
  <2> DEFINE tk == [Blank EXCEPT !.flags = {r.reply, "transit"}, !.nb = n]
             t == NextFree(r.pool)
             q == Alloc(r.pool, tk, TRUE)
  <2>1. tk \in Ticket /\ tk.flags = {r.reply, "transit"}
    BY <1>2, BlankIsTicket DEF Ticket, Flag, Replies, Blank
  <2>2. ~Active(tk) /\ ~Owed(tk) /\ IsAck(tk)
    BY <1>2, <2>1 DEF Active, Owed, IsAck, Replies
  <2>3. Transmit("rx", q, blocked, backoff, t, sem)
    BY <1>1, <1>4
  <2> HIDE DEF tk
  <2>4. Ordered(q, t)
    BY <1>2, <1>4, <2>1, <2>2, AllocOrdered
  <2>5. t \in q.used /\ q.ticket[t] = tk
    <3>1. t \in Blocks
      BY <1>2, <1>4, NextFreeIsFree, OrderedParts
    <3> QED
      BY <3>1, <1>2 DEF Alloc, Ordered, Good, IsPool
  <2> HIDE DEF q, t
  <2> QED
    BY <2>2, <2>3, <2>4, <2>5, TransmitOrdered
<1> QED
  BY <1>3, <1>4

(***************************************************************************)
(* The actions                                                             *)
(***************************************************************************)
LEMMA CLResendAckOrdered ==
  ASSUME InOrder, Ordered(pool, None), NEW t \in pool.used, CLResendAck(t)
  PROVE  Ordered(pool', None) /\ flight' = flight
<1> DEFINE old == pool.ticket[t]
           tk == [old EXCEPT !.flags = @ \cup {"transit"}, !.due = FALSE]
           q == Put(pool, t, tk)
<1>1. old \in Ticket /\ t \in Blocks
  BY OrderedParts
<1>2. tk \in Ticket /\ tk.nb = old.nb /\ tk.flags = old.flags \cup {"transit"}
  BY <1>1 DEF Ticket, Flag
<1>3. Transmit("cl", q, blocked, FALSE, t, SemLeft) /\ IsAck(old)
  BY DEF CLResendAck, AckDue, IsAck
<1> HIDE DEF tk
<1>4. /\ Active(tk) => Active(old)
      /\ Owed(tk) => Active(tk) /\ Owed(old)
      /\ IsAck(tk)
  <2>1. Owed(old) => Active(old)
    BY DEF Ordered, AwaitedQueued, Owed, Active
  <2> QED
    BY <1>2, <1>3, <2>1 DEF Active, Owed, IsAck
<1>5. Ordered(q, t)
  <2> HIDE DEF old
  <2> QED
    BY <1>2, <1>4, PutOrdered DEF old
<1>6. t \in q.used /\ q.ticket[t] = tk
  BY <1>1 DEF Put, Ordered, Good, IsPool
<1> HIDE DEF q
<1> QED
  BY <1>3, <1>4, <1>5, <1>6, TransmitOrdered

\* The bundle sent is the first one of its neighbour that is still to be sent: an
\* earlier one would be due as well, for a lock holds for both or for neither.
LEMMA ChosenIsFirst ==
  ASSUME InOrder, Ordered(pool, None), NEW t \in pool.used, Chosen(t), BundleDue(t)
  PROVE  FirstActive(pool, t)
<1>1. PICK k \in DOMAIN pool.list : /\ pool.list[k] = t
                                    /\ \A i \in 1 .. k - 1 : pool.list[i] \notin Due
  <2>1. Skippable = {}
    BY DEF Skippable, InOrder
  <2>2. PICK skipped \in SUBSET Skippable : IsFirst(pool, t, Due \ skipped)
    BY DEF Chosen
  <2>3. skipped = {}
    BY <2>1
  <2> QED
    BY <2>2, <2>3 DEF IsFirst
<1> SUFFICES ASSUME NEW i \in DOMAIN pool.list, NEW j \in DOMAIN pool.list, i < j, pool.list[j] = t,
                    pool.ticket[pool.list[i]].nb = pool.ticket[t].nb,
                    Active(pool.ticket[pool.list[i]])
             PROVE  FALSE
  BY DEF FirstActive
<1>2. j = k
  BY <1>1, OrderedParts DEF Distinct
<1>3. i \in 1 .. k - 1
  <2>1. pool.list \in Seq(Blocks)
    BY OrderedParts
  <2>2. i \in 1 .. Len(pool.list) /\ k \in 1 .. Len(pool.list) /\ Len(pool.list) \in Nat
    BY <2>1
  <2> QED
    BY <1>2, <2>2
<1>4. pool.list[i] \in Due
  <2>1. pool.list[i] \in pool.used /\ pool.list[i] # None
    BY OrderedParts
  <2>2. ~Moving(pool.ticket[pool.list[i]])
    BY <2>1 DEF Ordered, Idle
  <2> QED
    BY <2>1, <2>2 DEF Due, BundleDue, Active, Moving
<1> QED
  BY <1>1, <1>3, <1>4

LEMMA CLSendBundleOrdered ==
  ASSUME InOrder, Ordered(pool, None), NEW t \in pool.used, NEW segments \in 1 .. MaxSegments,
         CLSendBundle(t, segments)
  PROVE  Ordered(pool', None) /\ flight' = flight
<1> DEFINE tk == pool.ticket[t]
           first == [tk EXCEPT !.flags = @ \cup (IF segments > 1 THEN {"multipart"} ELSE {}),
                               !.left = segments, !.sent = FALSE]
           encoded == IF "multipart" \in tk.flags THEN tk ELSE first
           frame == [encoded EXCEPT !.flags = @ \cup {"transit"}, !.sent = @ \/ tk.nb \notin Udp]
           q == Put(pool, t, frame)
<1>1. t \in Blocks /\ tk \in Ticket /\ Active(tk) /\ (Owed(tk) => Active(tk))
  BY OrderedParts DEF CLSendBundle, BundleDue, Active
<1>2. /\ encoded \in Ticket /\ encoded.nb = tk.nb
      /\ \A f \in Flag \ {"multipart"} : f \in encoded.flags <=> f \in tk.flags
  <2>1. tk.flags \cup (IF segments > 1 THEN {"multipart"} ELSE {}) \in SUBSET Flag
    BY <1>1 DEF Ticket, Flag
  <2>2. segments \in 0 .. MaxSegments
    BY SizeAssumption
  <2>3. first \in Ticket /\ first.nb = tk.nb
    BY <1>1, <2>1, <2>2 DEF Ticket
  <2>4. first.flags = tk.flags \cup (IF segments > 1 THEN {"multipart"} ELSE {})
    BY <1>1 DEF Ticket
  <2> HIDE DEF first
  <2> QED
    BY <1>1, <2>3, <2>4
<1> HIDE DEF first, encoded
<1>3. /\ frame \in Ticket /\ frame.nb = tk.nb
      /\ frame.flags = encoded.flags \cup {"transit"}
  <2>1. encoded.flags \cup {"transit"} \in SUBSET Flag
    BY <1>2 DEF Ticket, Flag
  <2>2. (encoded.sent \/ tk.nb \notin Udp) \in BOOLEAN
    OBVIOUS
  <2>3. frame \in Ticket
    BY <1>2, <2>1, <2>2 DEF Ticket
  <2>4. frame.nb = encoded.nb /\ frame.flags = encoded.flags \cup {"transit"}
    BY <1>2 DEF Ticket
  <2> QED
    BY <1>2, <2>3, <2>4
<1>4. Transmit("cl", q, SetBlocked(blocked, tk.nb), FALSE, t, SemLeft)
  BY DEF CLSendBundle, encoded, first
<1>5. FirstActive(pool, t)
  BY ChosenIsFirst DEF CLSendBundle
<1> HIDE DEF frame
<1>6. Active(frame)
  BY <1>1, <1>2, <1>3 DEF Active, Flag
<1>7. Ordered(q, t)
  <2>1. frame \in Ticket /\ frame.nb = pool.ticket[t].nb /\ Active(pool.ticket[t])
    BY <1>1, <1>3
  <2> QED
    BY <1>5, <1>6, <2>1, PutOrdered
<1>8. t \in q.used /\ q.ticket[t] = frame /\ q.list = pool.list
  BY <1>1 DEF Put, Ordered, Good, IsPool
<1>9. FirstActive(q, t)
  <2>1. \A u \in pool.used : u # t => q.ticket[u] = pool.ticket[u]
    BY OrderedParts DEF Put, Ordered, Good, IsPool
  <2>2. frame.nb = pool.ticket[t].nb
    BY <1>3
  <2>3. /\ \A i \in DOMAIN pool.list : i \in Nat /\ pool.list[i] \in pool.used
        /\ Distinct(pool.list)
    BY OrderedParts
  <2> HIDE DEF q, tk
  <2> SUFFICES ASSUME NEW i \in DOMAIN q.list, NEW j \in DOMAIN q.list, i < j, q.list[j] = t,
                      q.ticket[q.list[i]].nb = q.ticket[t].nb, Active(q.ticket[q.list[i]])
               PROVE  FALSE
    BY DEF FirstActive
  <2>4. q.list[i] # t
    BY <1>8, <2>3 DEF Distinct
  <2>5. q.ticket[q.list[i]] = pool.ticket[pool.list[i]]
    BY <1>8, <2>1, <2>3, <2>4
  <2> QED
    BY <1>5, <1>8, <2>2, <2>5 DEF FirstActive
<1> HIDE DEF q, tk
<1> QED
  BY <1>4, <1>6, <1>7, <1>8, <1>9, TransmitOrdered

\* An acknowledgement frees the ticket it is credited to, or advances it.
LEMMA AckFrameOrdered ==
  ASSUME Ordered(pool, None), NEW n \in Nodes, NEW type, NEW expected, AckFrame(n, type, expected)
  PROVE  Ordered(pool', None) /\ flight' = flight
<1>0. flight' = flight
  BY DEF AckFrame
<1>1. CASE UNCHANGED pool
  BY <1>0, <1>1
<1>2. CASE pool' # pool
  <2>1. PICK t \in Awaiting(pool, n) : Credited(t, type, expected)
    BY <1>2 DEF AckFrame
  <2> DEFINE old == pool.ticket[t]
  <2>2. t \in pool.used /\ t \in Blocks /\ old \in Ticket /\ Owed(old) /\ Active(old)
    BY OrderedParts DEF Awaiting, Owed, Active, Ordered, AwaitedQueued
  <2>3. CASE pool' = Put(pool, t, Advanced(old)) /\ ~IsFinal(old)
    <3>1. old.left - (IF old.sent THEN 1 ELSE 0) \in 0 .. MaxSegments
      BY <2>2, <2>3, SizeAssumption DEF IsFinal, Ticket
    <3>2. /\ Advanced(old) \in Ticket /\ Advanced(old).flags = old.flags
          /\ Advanced(old).nb = old.nb
      BY <2>2, <3>1 DEF Advanced, Ticket
    <3>3. Active(Advanced(old)) /\ ~Moving(Advanced(old))
      BY <2>2, <3>2, OrderedParts DEF Active, Moving, Ordered, Idle
    <3> QED
      BY <1>0, <2>2, <2>3, <3>2, <3>3, PutOrdered
  <2>4. CASE \E flag \in {"done", "fail"} : \E status : pool' \in Closed(t, flag, status)
    <3>1. PICK flag \in {"done", "fail"} : \E status : pool' \in Closed(t, flag, status)
      BY <2>4
    <3>2. PICK status : pool' \in Closed(t, flag, status)
      BY <3>1
    <3> DEFINE tk == [old EXCEPT !.flags = {flag}]
    <3>3. tk \in Ticket /\ tk.flags = {flag} /\ tk.nb = old.nb
      BY <2>2 DEF Ticket, Flag
    <3>4. pool' \in RoutingSent(Put(pool, t, tk), t, status)
      BY <3>2 DEF Closed
    <3> HIDE DEF tk
    <3>5. ~Active(tk) /\ ~Owed(tk) /\ ~Moving(tk)
      BY <3>3 DEF Active, Owed, Moving
    <3>6. Ordered(Put(pool, t, tk), None) /\ t \in Put(pool, t, tk).used
      <4>1. Ordered(Put(pool, t, tk), None)
        BY <2>2, <3>3, <3>5, PutOrdered
      <4> QED
        BY <2>2, <4>1 DEF Put, Ordered, Good, IsPool
    <3> QED
      BY <1>0, <3>4, <3>6, RoutingSentOrdered
  <2> QED
    BY <1>2, <2>1, <2>3, <2>4 DEF Credited
<1> QED
  BY <1>1, <1>2

LEMMA EnqueueBundleOrdered ==
  ASSUME Ordered(pool, None), NEW n \in Nodes, NEW b \in Bundles, EnqueueBundle(n, b)
  PROVE  Ordered(pool', None) /\ flight' = flight
<1> DEFINE tk == [Blank EXCEPT !.flags = {"active"}, !.nb = n, !.bundle = b]
           p == Alloc(pool, tk, FALSE)
           q == [p EXCEPT !.queue = @ + 1]
<1>1. pool' = q /\ flight' = flight /\ ~Full(pool)
  BY DEF EnqueueBundle, SlotForBundle
<1>2. tk \in Ticket /\ tk.flags = {"active"}
  BY BlankIsTicket DEF Ticket, Flag
<1> HIDE DEF tk
<1>3. ~Owed(tk) /\ ~Moving(tk)
  BY <1>2 DEF Owed, Moving
<1>4. Ordered(p, None)
  BY <1>1, <1>2, <1>3, AllocOrdered
<1> HIDE DEF p
<1>5. Good(q)
  BY <1>4, CountQueuedGood DEF Ordered
<1>6. q.used = p.used /\ q.list = p.list /\ q.ticket = p.ticket
  BY <1>4 DEF Ordered, Good, IsPool
<1> HIDE DEF q
<1>7. Ordered(q, None)
  BY <1>4, <1>5, <1>6, SameOrdered
<1> QED
  BY <1>1, <1>7

\* The other actions.
LEMMA SmallStepsOrdered ==
  ASSUME Ordered(pool, None),
         \/ CLBackoff \/ CLNothingToSend \/ (\E t \in pool.used : CLDropBundle(t))
         \/ CheckTimeouts \/ SendDiscovery \/ Clock
         \/ (\E n \in Nodes : NeighbourDown(n)) \/ (\E b \in Bundles : DeleteBundle(b))
  PROVE  Ordered(pool', None) /\ flight' = flight
<1>1. /\ \A b : TicketsOf(pool, b) \subseteq Blocks
      /\ Expired(pool) \subseteq Blocks /\ pool.used \subseteq Blocks
  BY OrderedParts DEF TicketsOf, Expired
<1>2. CASE CLBackoff \/ CLNothingToSend \/ SendDiscovery \/ ElapseLock
  BY <1>2 DEF CLBackoff, CLNothingToSend, SendDiscovery, ElapseLock
<1>3. CASE \E t \in pool.used : CLDropBundle(t)
  <2>1. PICK t \in pool.used : CLDropBundle(t)
    BY <1>3
  <2> DEFINE p == FreeAll(pool, TicketsOf(pool, pool.ticket[t].bundle))
  <2>2. Ordered(p, None) /\ {t} \subseteq Blocks
    BY <1>1, FreeAllOrdered
  <2>3. flight' = flight /\ pool' \in {p, FreeAll(p, {t})}
    BY <2>1 DEF CLDropBundle
  <2> HIDE DEF p
  <2> QED
    BY <2>2, <2>3, FreeAllOrdered
<1>4. CASE CheckTimeouts
  BY <1>1, <1>4, FreeAllOrdered DEF CheckTimeouts
<1>5. CASE \E n \in Nodes : NeighbourDown(n)
  BY <1>1, <1>5, FreeAllOrdered DEF NeighbourDown
<1>6. CASE \E b \in Bundles : DeleteBundle(b)
  BY <1>1, <1>6, FreeAllOrdered DEF DeleteBundle
<1>7. CASE \E t \in Blocks : Elapse(t)
  <2>1. PICK t \in Blocks : Elapse(t)
    BY <1>7
  <2> DEFINE old == pool.ticket[t]
             tk == [old EXCEPT !.due = TRUE]
  <2>2. t \in pool.used /\ pool' = Put(pool, t, tk) /\ flight' = flight
    BY <2>1 DEF Elapse
  <2>3. old \in Ticket
    BY <2>2, OrderedParts
  <2>4. tk \in Ticket /\ tk.flags = old.flags /\ tk.nb = old.nb
    BY <2>3 DEF Ticket
  <2> HIDE DEF tk
  <2>5. /\ Active(tk) <=> Active(old)
        /\ Owed(tk) <=> Owed(old)
        /\ Owed(tk) => Active(tk)
        /\ ~Moving(tk)
    BY <2>2, <2>4, OrderedParts DEF Active, Owed, Moving, Ordered, AwaitedQueued, Idle
  <2>6. Ordered(Put(pool, t, tk), None)
    BY <2>2, <2>4, <2>5, PutOrdered
  <2> QED
    BY <2>2, <2>6
<1> QED
  BY <1>2, <1>3, <1>4, <1>5, <1>6, <1>7 DEF Clock

-----------------------------------------------------------------------------
Turns == Ordered(pool, None) /\ NoFlight

LEMMA InitTurns == Init => Turns
<1> SUFFICES ASSUME Init  PROVE Turns
  OBVIOUS
<1>1. Good(pool)
  BY InitType DEF Typed
<1>2. pool.used = {} /\ pool.list = <<>> /\ \A task \in Tasks : flight[task] = None
  BY DEF Init
<1>3. DOMAIN pool.list = {}
  BY <1>2
<1> QED
  BY <1>1, <1>2, <1>3 DEF Turns, NoFlight, Ordered, AwaitedQueued, Idle, InTurn

LEMMA NextTurns ==
  ASSUME InOrder, Turns, [Next]_vars
  PROVE  Turns'
<1>0. Ordered(pool, None) /\ \A task \in Tasks : flight[task] = None
  BY DEF Turns, NoFlight
<1> SUFFICES Ordered(pool', None) /\ flight' = flight
  BY <1>0 DEF Turns, NoFlight, Ordered, Good, IsPool, Matched, Distinct, Elements, AwaitedQueued,
              Idle, InTurn, Active, Owed, Moving
<1>1. CASE DataArrives
  BY <1>0, <1>1, DataFrameOrdered, NodeAssumption DEF DataArrives
<1>2. CASE AckArrives
  BY <1>0, <1>2, AckFrameOrdered DEF AckArrives
<1>3. CASE \E task \in Tasks : UdpSent(task)
  BY <1>0, <1>3, Zenon DEF UdpSent
<1>4. CASE \E t \in pool.used : CLResendAck(t)
  BY <1>0, <1>4, CLResendAckOrdered
<1>5. CASE \E t \in pool.used, segments \in 1 .. MaxSegments : CLSendBundle(t, segments)
  BY <1>0, <1>5, CLSendBundleOrdered
<1>6. CASE \E n \in Nodes, b \in Bundles : EnqueueBundle(n, b)
  BY <1>0, <1>6, EnqueueBundleOrdered
<1>7. CASE UNCHANGED vars
  BY <1>0, <1>7 DEF vars
<1> QED
  BY <1>0, <1>1, <1>2, <1>3, <1>4, <1>5, <1>6, <1>7, SmallStepsOrdered DEF Next, CLTask, Upper

(***************************************************************************)
(* A peer on the radio owes one acknowledgement at a time, although locks  *)
(* time out, frames are retried and bundles join the list in between: the  *)
(* acknowledgement that arrives is credited to the bundle it was sent for  *)
(* (convergence_layer_dgram_parse_ackframe takes the first ticket that     *)
(* awaits one).                                                            *)
(***************************************************************************)
THEOREM AcknowledgedInTurn ==
  ASSUME InOrder
  PROVE  Spec => []OneAwaited
<1>1. Turns => OneAwaited
  BY OrderedIsOne DEF Turns
<1>2. Turns /\ [Next]_vars => Turns'
  BY NextTurns
<1> QED
  BY InitTurns, <1>1, <1>2, PTL DEF Spec
=============================================================================
