------------------------- MODULE BundleFlow_proofs -------------------------
(***************************************************************************)
(* Proofs about BundleFlow, for every set of bundles and peers and every   *)
(* size of the store, the queues and the entries.                          *)
(***************************************************************************)
EXTENDS BundleFlow, TLAPS

(***************************************************************************)
(* The inductive invariant, of one record.  In the middle of a handler,    *)
(* X are bundles whose count holds one reference more, and Y are bundles   *)
(* whose entry and ticket may disagree.                                    *)
(***************************************************************************)
Counted(s, X) ==
  \A b \in Bundles :
    s.ref[b] = One(b \in s.stored) + One(s.ticket[b].reads) + One(Held(s, b)) + One(b \in X)
Ticketing(s, Y) ==
  \A b \in Bundles :
    /\ s.ticket[b].to = None => ~s.ticket[b].reads
    /\ s.ticket[b].to # None => b \in s.routed
    /\ s.flags[b] # {} => b \in s.routed
    /\ b \notin Y => (s.ticket[b].to # None <=> "transit" \in s.flags[b])
Locking(s) ==
  /\ s.routed \subseteq s.stored /\ s.locked \subseteq s.routed
  /\ \A b \in s.locked : "local" \in s.flags[b] => "delivery" \in s.flags[b]
Holding(s) ==
  \A b \in Bundles :
    /\ b \in s.stored => s.app[b] \in {"none", "inbox", "done", "lost"}
    /\ b \in s.stored /\ s.app[b] # "none" => b \in s.locked
    /\ b \notin s.stored /\ s.app[b] # "none" =>
         Header[b].src = Self /\ s.app[b] \in {"new", "sending", "lost"}
NodeInv(s, X, Y) ==
  IsNode(s) /\ Counted(s, X) /\ Ticketing(s, Y) /\ Locking(s) /\ Holding(s)

USE NameAssumption, SizeAssumption

(***************************************************************************)
(* What the elementary operations do to it                                 *)
(***************************************************************************)
LEMMA NoTicketType == NoTicket \in Ticket
  BY DEF NoTicket, Ticket

LEMMA IncInv ==
  ASSUME NEW s, NEW X, NEW Y, NEW b \in Bundles, NodeInv(s, X, Y), b \notin X
  PROVE  NodeInv(Inc(s, b), X \cup {b}, Y)
<1> DEFINE t == Inc(s, b)
<1>0. s.ref \in [Bundles -> Nat] /\ [s.ref EXCEPT ![b] = @ + 1] \in [Bundles -> Nat]
  BY DEF NodeInv, IsNode
<1>1. IsNode(t)
  BY <1>0 DEF NodeInv, IsNode, Inc
<1>2. Counted(t, X \cup {b})
  <2>1. t.ref = [s.ref EXCEPT ![b] = @ + 1]
    BY DEF NodeInv, IsNode, Inc
  <2>2. t.stored = s.stored /\ t.ticket = s.ticket /\ t.app = s.app
    BY DEF NodeInv, IsNode, Inc
  <2> HIDE DEF t
  <2>3. Counted(s, X)
    BY DEF NodeInv
  <2> QED
    BY <1>0, <2>1, <2>2, <2>3 DEF Counted, Held, One
<1>3. Ticketing(t, Y) /\ Locking(t) /\ Holding(t)
  BY DEF NodeInv, IsNode, Inc, Ticketing, Locking, Holding
<1> QED
  BY <1>1, <1>2, <1>3 DEF NodeInv

LEMMA DecInv ==
  ASSUME NEW s, NEW X, NEW Y, NEW b \in Bundles, NodeInv(s, X, Y), b \in X
  PROVE  NodeInv(Dec(s, b), X \ {b}, Y)
<1> DEFINE t == Dec(s, b)
<1>0. s.ref \in [Bundles -> Nat] /\ [s.ref EXCEPT ![b] = Lower(@)] \in [Bundles -> Nat]
  BY DEF NodeInv, IsNode, Lower
<1>1. IsNode(t)
  BY <1>0 DEF NodeInv, IsNode, Dec
<1>2. Counted(t, X \ {b})
  <2>1. t.ref = [s.ref EXCEPT ![b] = Lower(@)]
    BY DEF NodeInv, IsNode, Dec
  <2>2. t.stored = s.stored /\ t.ticket = s.ticket /\ t.app = s.app
    BY DEF NodeInv, IsNode, Dec
  <2> HIDE DEF t
  <2>3. Counted(s, X)
    BY DEF NodeInv
  <2> QED
    BY <1>0, <2>1, <2>2, <2>3 DEF Counted, Held, One, Lower
<1>3. Ticketing(t, Y) /\ Locking(t) /\ Holding(t)
  BY DEF NodeInv, IsNode, Dec, Ticketing, Locking, Holding
<1> QED
  BY <1>1, <1>2, <1>3 DEF NodeInv

\* New flags for an entry, whose ticket is not looked at.
LEMMA FlagsInv ==
  ASSUME NEW s, NEW X, NEW Y, NEW b \in Bundles, NodeInv(s, X, Y),
         NEW F \in SUBSET Flag, F # {} => b \in s.routed,
         b \in s.locked /\ "local" \in F => "delivery" \in F
  PROVE  NodeInv(PutFlags(s, b, F), X, Y \cup {b})
<1> DEFINE t == PutFlags(s, b, F)
<1>1. IsNode(t)
  BY DEF NodeInv, IsNode, PutFlags
<1>2. Counted(t, X)
  BY DEF NodeInv, IsNode, PutFlags, Counted, Held, One
<1>3. Ticketing(t, Y \cup {b}) /\ Locking(t) /\ Holding(t)
  BY DEF NodeInv, IsNode, PutFlags, Ticketing, Locking, Holding
<1> QED
  BY <1>1, <1>2, <1>3 DEF NodeInv

\* Another ticket for a bundle, that refers to it if and only if the old one did.
LEMMA TicketInv ==
  ASSUME NEW s, NEW X, NEW Y, NEW b \in Bundles, NodeInv(s, X, Y), NEW tk \in Ticket,
         tk.reads = s.ticket[b].reads, tk.to = None => ~tk.reads, tk.to # None => b \in s.routed
  PROVE  NodeInv(PutTicket(s, b, tk), X, Y \cup {b})
<1> DEFINE t == PutTicket(s, b, tk)
<1>1. IsNode(t)
  BY DEF NodeInv, IsNode, PutTicket
<1>2. Counted(t, X)
  BY DEF NodeInv, IsNode, PutTicket, Counted, Held, One
<1>3. Ticketing(t, Y \cup {b}) /\ Locking(t) /\ Holding(t)
  BY DEF NodeInv, IsNode, PutTicket, Ticketing, Locking, Holding
<1> QED
  BY <1>1, <1>2, <1>3 DEF NodeInv

\* What agrees needs no exemption.
LEMMA SettleInv ==
  ASSUME NEW s, NEW X, NEW Y, NEW b \in Bundles, NodeInv(s, X, Y),
         s.ticket[b].to # None <=> "transit" \in s.flags[b]
  PROVE  NodeInv(s, X, Y \ {b})
  BY DEF NodeInv, Ticketing

\* The reference of a ticket is counted as one more in between.
LEMMA ReadsInv ==
  ASSUME NEW s, NEW X, NEW Y, NEW b \in Bundles, NodeInv(s, X, Y), NEW tk \in Ticket,
         tk.to = None => ~tk.reads, tk.to # None => b \in s.routed
  PROVE  /\ s.ticket[b].reads /\ ~tk.reads /\ b \notin X
              => NodeInv(PutTicket(s, b, tk), X \cup {b}, Y \cup {b})
         /\ ~s.ticket[b].reads /\ tk.reads /\ b \in X
              => NodeInv(PutTicket(s, b, tk), X \ {b}, Y \cup {b})
<1> DEFINE t == PutTicket(s, b, tk)
<1>1. IsNode(t)
  BY DEF NodeInv, IsNode, PutTicket
<1>2. /\ s.ticket[b].reads /\ ~tk.reads /\ b \notin X => Counted(t, X \cup {b})
      /\ ~s.ticket[b].reads /\ tk.reads /\ b \in X => Counted(t, X \ {b})
  <2>1. /\ t.ref = s.ref /\ t.app = s.app /\ t.stored = s.stored
        /\ t.ticket[b] = tk /\ \A c \in Bundles \ {b} : t.ticket[c] = s.ticket[c]
    BY DEF NodeInv, IsNode, PutTicket
  <2>2. Counted(s, X) /\ s.ref \in [Bundles -> Nat]
    BY DEF NodeInv, IsNode
  <2> HIDE DEF t
  <2>3. ASSUME s.ticket[b].reads, ~tk.reads, b \notin X  PROVE Counted(t, X \cup {b})
    BY <2>1, <2>2, <2>3 DEF Counted, Held, One
  <2>4. ASSUME ~s.ticket[b].reads, tk.reads, b \in X  PROVE Counted(t, X \ {b})
    BY <2>1, <2>2, <2>4 DEF Counted, Held, One
  <2> QED
    BY <2>3, <2>4
<1>3. Ticketing(t, Y \cup {b}) /\ Locking(t) /\ Holding(t)
  BY DEF NodeInv, IsNode, PutTicket, Ticketing, Locking, Holding
<1> QED
  BY <1>1, <1>2, <1>3 DEF NodeInv

\* convergence_layer_dgram_free_transmit_ticket gives back what the ticket held.
LEMMA FreeTicketInv ==
  ASSUME NEW s, NEW X, NEW Y, NEW b \in Bundles, NodeInv(s, X, Y), b \notin X
  PROVE  /\ NodeInv(FreeTicket(s, b), X, Y \cup {b})
         /\ FreeTicket(s, b).ticket[b] = NoTicket
<1> DEFINE freed == PutTicket(s, b, NoTicket)
<1>a. NoTicket.to = None /\ ~NoTicket.reads /\ NoTicket \in Ticket
  BY DEF NoTicket, Ticket
<1>b. s.ticket[b] \in Ticket /\ freed.ticket[b] = NoTicket
  BY DEF NodeInv, IsNode, PutTicket
<1>c. Dec(freed, b).ticket = freed.ticket
  BY DEF NodeInv, IsNode, PutTicket, Dec
<1>1. /\ NoTicket.to = None /\ ~NoTicket.reads /\ NoTicket \in Ticket /\ s.ticket[b] \in Ticket
      /\ freed.ticket[b] = NoTicket /\ Dec(freed, b).ticket = freed.ticket
  BY <1>a, <1>b, <1>c
<1>2. CASE s.ticket[b].reads
  <2>1. NodeInv(freed, X \cup {b}, Y \cup {b})
    BY <1>1, <1>2, ReadsInv
  <2>2. NodeInv(Dec(freed, b), (X \cup {b}) \ {b}, Y \cup {b})
    BY <2>1, DecInv
  <2>3. (X \cup {b}) \ {b} = X
    OBVIOUS
  <2> QED
    BY <1>1, <1>2, <2>2, <2>3 DEF FreeTicket
<1>3. CASE ~s.ticket[b].reads
  <2>1. NodeInv(freed, X, Y \cup {b})
    BY <1>1, <1>3, TicketInv DEF Ticket
  <2> QED
    BY <1>1, <1>3, <2>1 DEF FreeTicket
<1> QED
  BY <1>2, <1>3

\* Routing forgets a bundle that has no ticket and is not locked.
LEMMA UnrouteInv ==
  ASSUME NEW s, NEW X, NEW Y, NEW b \in Bundles, NodeInv(s, X, Y),
         b \notin s.locked, s.ticket[b] = NoTicket
  PROVE  NodeInv(Unroute(s, b), X, Y \ {b})
<1> DEFINE t == Unroute(s, b)
<1>0. << >> \in Seq(Nodes) /\ Len(<< >>) = 0 /\ NoTicket.to = None
  BY DEF NoTicket
<1> DEFINE u == PutFlags(s, b, {})
<1>a. IsNode(u) /\ u.routed = s.routed /\ u.sentTo = s.sentTo
  BY DEF NodeInv, IsNode, PutFlags
<1>b. IsNode([u EXCEPT !.routed = u.routed \ {b}, !.sentTo = [u.sentTo EXCEPT ![b] = << >>]])
  <2> HIDE DEF u
  <2>1. u.sentTo \in [Bundles -> Seq(Nodes)] /\ [u.sentTo EXCEPT ![b] = << >>] \in [Bundles -> Seq(Nodes)]
    BY <1>0, <1>a DEF IsNode
  <2>2. \A c \in Bundles : Len([u.sentTo EXCEPT ![b] = << >>][c]) <= NeiMem
    BY <1>0, <1>a, <2>1 DEF IsNode
  <2> QED
    BY <1>a, <2>1, <2>2 DEF IsNode
<1>1. IsNode(t)
  BY <1>a, <1>b DEF Unroute
<1>2. Counted(t, X)
  BY DEF NodeInv, IsNode, Unroute, PutFlags, Counted, Held, One
<1>3. Ticketing(t, Y \ {b}) /\ Locking(t) /\ Holding(t)
  BY <1>0 DEF NodeInv, IsNode, Unroute, PutFlags, Ticketing, Locking, Holding
<1> QED
  BY <1>1, <1>2, <1>3 DEF NodeInv

\* The storage gives up a bundle routing has forgotten, and its reference.
LEMMA UnstoreInv ==
  ASSUME NEW s, NEW X, NEW Y, NEW b \in Bundles, NodeInv(s, X, Y),
         b \in s.stored, b \notin s.routed
  PROVE  NodeInv([Dec(s, b) EXCEPT !.stored = @ \ {b}], X, Y)
<1> DEFINE u == Dec(s, b)
           t == [u EXCEPT !.stored = @ \ {b}]
<1>0. s.ref \in [Bundles -> Nat] /\ [s.ref EXCEPT ![b] = Lower(@)] \in [Bundles -> Nat]
  BY DEF NodeInv, IsNode, Lower
<1>n. s.app[b] = "none" /\ ~s.ticket[b].reads
  BY DEF NodeInv, Holding, Locking, Ticketing
<1>a. IsNode(u)
  BY <1>0 DEF NodeInv, IsNode, Dec
<1>1. IsNode(t)
  <2> HIDE DEF u
  <2>1. u.stored \ {b} \in SUBSET Bundles
    BY <1>a DEF IsNode
  <2> QED
    BY <1>a, <2>1 DEF IsNode
<1>f. /\ t.ref = [s.ref EXCEPT ![b] = Lower(@)] /\ t.app = s.app /\ t.stored = s.stored \ {b}
      /\ t.ticket = s.ticket /\ t.flags = s.flags /\ t.routed = s.routed /\ t.locked = s.locked
  BY DEF NodeInv, IsNode, Dec
<1> HIDE DEF t, u
<1>2. Counted(t, X)
  BY <1>0, <1>n, <1>f DEF NodeInv, Lower, Counted, Held, One
<1>3. Ticketing(t, Y)
  BY <1>f DEF NodeInv, Ticketing
<1>4. Locking(t) /\ Holding(t)
  <2>1. Locking(t)
    BY <1>f DEF NodeInv, Locking
  <2>2. Holding(t)
    BY <1>f, <1>n DEF NodeInv, Holding
  <2> QED
    BY <2>1, <2>2
<1> QED
  BY <1>1, <1>2, <1>3, <1>4 DEF NodeInv, t, u

LEMMA WeakenInv ==
  ASSUME NEW s, NEW X, NEW Y, NEW Z, NodeInv(s, X, Y), Y \subseteq Z
  PROVE  NodeInv(s, X, Z)
  BY DEF NodeInv, Ticketing

\* What the operations leave alone.
LEMMA FreeTicketFrame ==
  ASSUME NEW s, IsNode(s), NEW b \in Bundles
  PROVE  LET t == FreeTicket(s, b)
         IN /\ t.stored = s.stored /\ t.routed = s.routed /\ t.locked = s.locked
            /\ t.app = s.app /\ t.flags = s.flags /\ t.sentTo = s.sentTo
            /\ t.answered = s.answered
  BY DEF IsNode, FreeTicket, PutTicket, Dec

LEMMA ForgetInv ==
  ASSUME NEW s, NEW X, NEW Y, NodeInv(s, X, Y), NEW b, b \in s.stored, b \notin s.locked, b \notin X
  PROVE  LET t == Forget(s, b)
         IN /\ NodeInv(t, X, Y)
            /\ t.stored = s.stored \ {b} /\ t.routed = s.routed \ {b}
            /\ t.locked = s.locked /\ t.app = s.app /\ t.answered = s.answered
            /\ \A c \in Bundles : t.flags[c] = IF c = b THEN {} ELSE s.flags[c]
            /\ \A c \in Bundles : c # b => t.sentTo[c] = s.sentTo[c]
            /\ t.ticket[b] = NoTicket
<1> DEFINE f == FreeTicket(s, b)
           u == Unroute(f, b)
           t == [Dec(u, b) EXCEPT !.stored = @ \ {b}]
<1>0. b \in Bundles /\ IsNode(s)
  BY DEF NodeInv, IsNode
<1>1. /\ NodeInv(f, X, Y \cup {b}) /\ f.ticket[b] = NoTicket
  BY <1>0, FreeTicketInv
<1>2. /\ f.stored = s.stored /\ f.routed = s.routed /\ f.locked = s.locked
      /\ f.app = s.app /\ f.flags = s.flags /\ f.sentTo = s.sentTo /\ f.answered = s.answered
  BY <1>0, FreeTicketFrame
<1> HIDE DEF f
<1>3. NodeInv(u, X, (Y \cup {b}) \ {b})
  BY <1>0, <1>1, <1>2, UnrouteInv
<1>4. /\ u.stored = f.stored /\ u.routed = f.routed \ {b} /\ u.locked = f.locked
      /\ u.app = f.app /\ u.answered = f.answered
      /\ \A c \in Bundles : u.flags[c] = IF c = b THEN {} ELSE f.flags[c]
      /\ \A c \in Bundles : c # b => u.sentTo[c] = f.sentTo[c]
      /\ u.ticket = f.ticket
  BY <1>1 DEF NodeInv, IsNode, Unroute, PutFlags
<1> HIDE DEF u
<1>5. NodeInv(t, X, (Y \cup {b}) \ {b})
  BY <1>0, <1>2, <1>3, <1>4, UnstoreInv
<1>6. NodeInv(t, X, Y)
  BY <1>5, WeakenInv
<1>7. /\ t.stored = u.stored \ {b} /\ t.routed = u.routed /\ t.locked = u.locked
      /\ t.app = u.app /\ t.answered = u.answered /\ t.flags = u.flags /\ t.sentTo = u.sentTo
      /\ t.ticket = u.ticket
  BY <1>3 DEF NodeInv, IsNode, Dec
<1>8. t = Forget(s, b)
  BY DEF Forget, f, u
<1> HIDE DEF t
<1> QED
  BY <1>1, <1>2, <1>4, <1>6, <1>7, <1>8

\* storage_mmem_delete_bundle, whatever calls it.
LEMMA DeleteInv ==
  ASSUME NEW s, NEW X, NEW Y, NodeInv(s, X, Y), NEW b, b \notin X
  PROVE  LET t == Delete(s, b)
         IN /\ NodeInv(t, X, Y) /\ t.app = s.app /\ t.answered = s.answered /\ t.locked = s.locked
            /\ t.stored \in {s.stored, s.stored \ {b}} /\ t.routed \subseteq s.routed
            /\ s.locked \subseteq t.stored
            /\ b \in Bundles /\ "transit" \notin s.flags[b] => "transit" \notin t.flags[b]
            /\ t.ticket[b] \in {s.ticket[b], NoTicket}
<1>0. s.locked \subseteq s.stored /\ s.flags \in [Bundles -> SUBSET Flag]
  BY DEF NodeInv, Locking, IsNode
<1>1. CASE b \in s.stored \ s.locked
  <2> DEFINE t == Forget(s, b)
  <2>1. /\ NodeInv(t, X, Y) /\ t.stored = s.stored \ {b} /\ t.routed = s.routed \ {b}
        /\ t.locked = s.locked /\ t.app = s.app /\ t.answered = s.answered
        /\ \A c \in Bundles : t.flags[c] = IF c = b THEN {} ELSE s.flags[c]
        /\ t.ticket[b] = NoTicket
    BY <1>1, ForgetInv
  <2>2. t = Delete(s, b)
    BY <1>1 DEF Delete
  <2> HIDE DEF t
  <2> QED
    BY <1>0, <1>1, <2>1, <2>2
<1>2. CASE b \notin s.stored \ s.locked
  BY <1>0, <1>2 DEF Delete
<1> QED
  BY <1>1, <1>2

LEMMA CheckKeepInv ==
  ASSUME NEW s, NEW X, NEW Y, NodeInv(s, X, Y), NEW b, b \notin X
  PROVE  LET t == CheckKeep(s, b)
         IN /\ NodeInv(t, X, Y) /\ t.app = s.app /\ t.answered = s.answered /\ t.locked = s.locked
            /\ t.stored \in {s.stored, s.stored \ {b}} /\ t.routed \subseteq s.routed
            /\ s.locked \subseteq t.stored
            /\ b \in Bundles /\ "transit" \notin s.flags[b] => "transit" \notin t.flags[b]
            /\ t.ticket[b] \in {s.ticket[b], NoTicket}
<1>1. s.locked \subseteq s.stored
  BY DEF NodeInv, Locking
<1> QED
  BY <1>1, DeleteInv DEF CheckKeep

\* convergence_layer_dgram_free_transmit_ticket of a bundle that is not in transit.
LEMMA FreedInv ==
  ASSUME NEW s, NEW X, NEW b \in Bundles, NodeInv(s, X, {b}), b \notin X,
         "transit" \notin s.flags[b]
  PROVE  LET t == FreeTicket(s, b)
         IN NodeInv(t, X, {}) /\ t.app = s.app /\ t.stored = s.stored /\ t.locked = s.locked
<1> DEFINE t == FreeTicket(s, b)
<1>1. /\ NodeInv(t, X, {b} \cup {b}) /\ t.ticket[b] = NoTicket
  BY FreeTicketInv
<1>2. t.app = s.app /\ t.stored = s.stored /\ t.locked = s.locked /\ t.flags = s.flags
  BY FreeTicketFrame DEF NodeInv
<1>3. NodeInv(t, X, ({b} \cup {b}) \ {b})
  <2> HIDE DEF t
  <2> QED
    BY SMTT(30), <1>1, <1>2, SettleInv DEF NoTicket
<1>4. ({b} \cup {b}) \ {b} = {}
  OBVIOUS
<1> QED
  BY <1>2, <1>3, <1>4

(***************************************************************************)
(* Storage                                                                 *)
(***************************************************************************)
Smaller(t, s) == t.app = s.app /\ t.stored \subseteq s.stored /\ t.locked = s.locked

LEMMA PrunedInv ==
  ASSUME NEW s, NEW X, NodeInv(s, X, {}), X \cap s.stored = {}, NEW t \in Pruned(s)
  PROVE  NodeInv(t, X, {}) /\ Smaller(t, s)
<1>1. CASE Overdue(s) = {}
  BY <1>1 DEF Pruned, Smaller
<1>2. CASE Overdue(s) # {}
  <2>1. PICK b \in Overdue(s) : t = Delete(s, b)
    BY <1>2 DEF Pruned
  <2>2. b \notin X
    BY DEF Overdue
  <2> QED
    BY <2>1, <2>2, DeleteInv DEF Smaller
<1> QED
  BY <1>1, <1>2

\* Room is made at the expense of other bundles only.
LEMMA MadeRoomInv ==
  ASSUME NEW s, NEW X, NodeInv(s, X, {}), X \cap s.stored = {}, NEW b, NEW r \in MadeRoom(s, b)
  PROVE  NodeInv(r.node, X, {}) /\ Smaller(r.node, s)
<1>1. PICK p \in Pruned(s) :
        r \in IF Cardinality(p.stored) < StoreSize THEN {Room(p, TRUE)}
              ELSE {Room(p, FALSE)} \cup {Room(Delete(p, v), TRUE) : v \in Victims(p, b)}
  BY DEF MadeRoom
<1>2. NodeInv(p, X, {}) /\ Smaller(p, s)
  BY PrunedInv
<1>3. CASE r \in {Room(p, TRUE), Room(p, FALSE)}
  BY <1>2, <1>3 DEF Room
<1>4. CASE r \in {Room(Delete(p, v), TRUE) : v \in Victims(p, b)}
  <2>1. PICK v \in Victims(p, b) : r = Room(Delete(p, v), TRUE)
    BY <1>4
  <2>2. v \notin X /\ r.node = Delete(p, v)
    BY <1>2, <2>1 DEF Victims, Smaller, Room
  <2> QED
    BY <1>2, <2>2, DeleteInv DEF Smaller
<1> QED
  BY <1>1, <1>3, <1>4

\* What is stored has one reference, that of the storage, although its slot may have
\* had another one before.
LEMMA StoredInv ==
  ASSUME NEW s, NEW X, NEW b \in Bundles, NodeInv(s, X, {}), X \subseteq {b},
         b \notin s.stored, s.app[b] = "none"
  PROVE  NodeInv(Stored(s, b), {}, {}) /\ Stored(s, b).app = s.app
<1> DEFINE t == Stored(s, b)
<1>0. /\ << >> \in Seq(Answerers) /\ s.stored \cup {b} \in SUBSET Bundles
      /\ s.ref \in [Bundles -> Nat] /\ [s.ref EXCEPT ![b] = 1] \in [Bundles -> Nat]
      /\ s.answered \in [Bundles -> Seq(Answerers)]
      /\ [s.answered EXCEPT ![b] = << >>] \in [Bundles -> Seq(Answerers)]
  BY DEF NodeInv, IsNode
<1>1. IsNode(t)
  BY <1>0 DEF NodeInv, IsNode, Stored
<1>2. /\ t.stored = s.stored \cup {b} /\ t.ref = [s.ref EXCEPT ![b] = 1] /\ t.app = s.app
      /\ t.ticket = s.ticket /\ t.flags = s.flags /\ t.routed = s.routed /\ t.locked = s.locked
  BY DEF NodeInv, IsNode, Stored
<1>3. ~s.ticket[b].reads
  BY DEF NodeInv, Ticketing, Locking
<1> HIDE DEF t
<1>4. Counted(t, {})
  BY <1>0, <1>2, <1>3 DEF NodeInv, Counted, Held, One
<1>5. Ticketing(t, {})
  BY <1>2 DEF NodeInv, Ticketing
<1>6. Locking(t)
  BY <1>2 DEF NodeInv, Locking
<1>7. Holding(t)
  BY <1>2 DEF NodeInv, Holding
<1> QED
  BY <1>1, <1>2, <1>4, <1>5, <1>6, <1>7 DEF NodeInv, t

LEMMA SavedInv ==
  ASSUME NEW s, NEW X, NEW b \in Bundles, NodeInv(s, X, {}), X \subseteq {b},
         b \notin s.stored, s.app[b] = "none", NEW r \in Saved(s, b)
  PROVE  /\ r.ok => NodeInv(r.node, {}, {})
         /\ ~r.ok => NodeInv(r.node, X, {})
         /\ r.node.app = s.app
<1>1. PICK m \in MadeRoom(s, b) :
        r \in IF ~m.ok THEN {m}
              ELSE {Room(Stored(m.node, b), TRUE)}
                   \cup IF "no_memory" \in Faults THEN {Room(m.node, FALSE)} ELSE {}
  BY DEF Saved
<1>2. NodeInv(m.node, X, {}) /\ Smaller(m.node, s)
  BY MadeRoomInv
<1>3. NodeInv(Stored(m.node, b), {}, {}) /\ Stored(m.node, b).app = s.app
  BY <1>2, StoredInv DEF Smaller
<1> QED
  BY <1>1, <1>2, <1>3 DEF Room, Smaller

(***************************************************************************)
(* Routing                                                                 *)
(***************************************************************************)
LEMMA FreshFlagsType == \A b \in Bundles : FreshFlags(b) \subseteq Flag \ {"transit"}
  BY DEF FreshFlags, Flag

LEMMA AnnounceInv ==
  ASSUME NEW s, NEW b \in Bundles, NodeInv(s, {}, {}), CanAnnounce(s, b)
  PROVE  NodeInv(Announce(s, b), {}, {}) /\ Announce(s, b).app = s.app
<1> DEFINE F == FreshFlags(b)
           t == Announce(s, b)
<1>0. F \in SUBSET Flag /\ "transit" \notin F
  BY FreshFlagsType
<1> HIDE DEF F
<1>1. /\ t.stored = s.stored /\ t.ref = s.ref /\ t.app = s.app /\ t.ticket = s.ticket
      /\ t.flags = [s.flags EXCEPT ![b] = F] /\ t.routed = s.routed \cup {b} /\ t.locked = s.locked
  BY DEF NodeInv, IsNode, Announce, PutFlags, F
<1>2. IsNode(t)
  <2>1. [s.flags EXCEPT ![b] = F] \in [Bundles -> SUBSET Flag] /\ s.routed \cup {b} \in SUBSET Bundles
    BY <1>0 DEF NodeInv, IsNode
  <2>2. t = [[s EXCEPT !.flags = [s.flags EXCEPT ![b] = F]] EXCEPT !.routed = s.routed \cup {b}]
    BY DEF Announce, PutFlags, F, NodeInv, IsNode
  <2> QED
    BY <2>1, <2>2 DEF NodeInv, IsNode
<1> HIDE DEF t
<1>3. Counted(t, {})
  BY <1>1 DEF NodeInv, Counted, Held
<1>4. s.ticket[b].to = None /\ b \notin s.locked /\ b \in s.stored
  BY DEF NodeInv, Ticketing, Locking, CanAnnounce
<1>5. Ticketing(t, {})
  BY <1>0, <1>1, <1>4 DEF NodeInv, IsNode, Ticketing
<1>6. Locking(t)
  BY <1>1, <1>4 DEF NodeInv, IsNode, Locking
<1>7. Holding(t)
  BY <1>1 DEF NodeInv, Holding
<1> QED
  BY <1>1, <1>2, <1>3, <1>5, <1>6, <1>7 DEF NodeInv, t

LEMMA AnsweredInv ==
  ASSUME NEW s, NEW X, NEW Y, NEW b \in Bundles, NodeInv(s, X, Y), NEW n \in Answerers
  PROVE  LET t == Answered(s, b, n)
         IN /\ NodeInv(t, X, Y) /\ t.app = s.app /\ t.flags = s.flags /\ t.locked = s.locked
            /\ t.stored = s.stored /\ t.routed = s.routed /\ t.sentTo = s.sentTo
<1> DEFINE g == [s.answered EXCEPT ![b] = Append(@, n)]
           t == [s EXCEPT !.answered = g]
<1>0. g \in [Bundles -> Seq(Answerers)]
  BY DEF NodeInv, IsNode
<1> HIDE DEF g
<1>1. IsNode(t)
  BY <1>0 DEF NodeInv, IsNode
<1>2. /\ t.stored = s.stored /\ t.ref = s.ref /\ t.app = s.app /\ t.ticket = s.ticket
      /\ t.flags = s.flags /\ t.routed = s.routed /\ t.locked = s.locked /\ t.sentTo = s.sentTo
  BY DEF NodeInv, IsNode
<1>3. Counted(t, X) /\ Ticketing(t, Y) /\ Locking(t) /\ Holding(t)
  BY <1>2 DEF NodeInv, Counted, Held, Ticketing, Locking, Holding
<1>4. Answered(s, b, n) \in {s, t}
  BY DEF Answered, g
<1> HIDE DEF t
<1> QED
  BY <1>1, <1>2, <1>3, <1>4 DEF NodeInv

LEMMA NoteReceiverInv ==
  ASSUME NEW s, NEW X, NEW Y, NEW b \in Bundles, NodeInv(s, X, Y), NEW n \in Nodes, HasPlace(s, b)
  PROVE  LET t == NoteReceiver(s, b, n)
         IN /\ NodeInv(t, X, Y) /\ t.app = s.app /\ t.flags = s.flags /\ t.locked = s.locked
            /\ t.stored = s.stored /\ t.routed = s.routed /\ t.answered = s.answered
<1> DEFINE g == [s.sentTo EXCEPT ![b] = Append(@, n)]
           t == [s EXCEPT !.sentTo = g]
<1>0. /\ g \in [Bundles -> Seq(Nodes)] /\ \A c \in Bundles : Len(g[c]) <= NeiMem
  BY DEF NodeInv, IsNode, HasPlace
<1> HIDE DEF g
<1>1. IsNode(t)
  BY <1>0 DEF NodeInv, IsNode
<1>2. /\ t.stored = s.stored /\ t.ref = s.ref /\ t.app = s.app /\ t.ticket = s.ticket
      /\ t.flags = s.flags /\ t.routed = s.routed /\ t.locked = s.locked
      /\ t.answered = s.answered
  BY DEF NodeInv, IsNode
<1>3. Counted(t, X) /\ Ticketing(t, Y) /\ Locking(t) /\ Holding(t)
  BY <1>2 DEF NodeInv, Counted, Held, Ticketing, Locking, Holding
<1>4. NoteReceiver(s, b, n) = t
  BY DEF NoteReceiver, g
<1> HIDE DEF t
<1> QED
  BY <1>1, <1>2, <1>3, <1>4 DEF NodeInv

\* Flags are taken off an entry.
LEMMA FewerFlagsInv ==
  ASSUME NEW s, NEW X, NEW Y, NEW b \in Bundles, NodeInv(s, X, Y), NEW F, F \subseteq s.flags[b],
         b \in s.locked /\ "local" \in F => "delivery" \in F
  PROVE  LET t == PutFlags(s, b, F)
         IN /\ NodeInv(t, X, Y \cup {b}) /\ t.app = s.app /\ t.locked = s.locked
            /\ t.stored = s.stored /\ t.routed = s.routed /\ t.flags[b] = F
            /\ t.ticket = s.ticket /\ t.sentTo = s.sentTo /\ t.answered = s.answered
<1>1. F \in SUBSET Flag /\ (F # {} => b \in s.routed)
  BY DEF NodeInv, IsNode, Ticketing
<1>2. NodeInv(PutFlags(s, b, F), X, Y \cup {b})
  BY <1>1, FlagsInv
<1> QED
  BY <1>2 DEF NodeInv, IsNode, PutFlags

LEMMA FewerFlagsAloneInv ==
  ASSUME NEW s, NEW b \in Bundles, NodeInv(s, {}, {}), NEW F, F \subseteq s.flags[b],
         b \in s.locked /\ "local" \in F => "delivery" \in F
  PROVE  LET t == PutFlags(s, b, F)
         IN /\ NodeInv(t, {}, {b}) /\ t.app = s.app /\ t.locked = s.locked
            /\ t.flags[b] = F /\ t.ticket = s.ticket
<1> DEFINE Y == {}
           t == PutFlags(s, b, F)
<1>1. NodeInv(s, {}, Y) /\ Y \cup {b} = {b}
  OBVIOUS
<1> HIDE DEF Y
<1>2. /\ NodeInv(t, {}, Y \cup {b}) /\ t.app = s.app /\ t.locked = s.locked
      /\ t.flags[b] = F /\ t.ticket = s.ticket
  BY <1>1, FewerFlagsInv
<1> QED
  BY <1>1, <1>2

\* In the middle of a callback for b: its entry is not in transit any more.
Between(t, s, b) ==
  /\ NodeInv(t, {}, {b}) /\ "transit" \notin t.flags[b] /\ t.app = s.app /\ t.locked = s.locked

LEMMA StopForwardingInv ==
  ASSUME NEW s, NEW u, NEW b \in Bundles, Between(s, u, b)
  PROVE  /\ Between(StopForwarding(s, b), u, b)
         /\ StopForwarding(s, b).ticket[b] \in {s.ticket[b], NoTicket}
<1> DEFINE t == PutFlags(s, b, s.flags[b] \ {"forward"})
<1>1. b \in s.locked /\ "local" \in s.flags[b] \ {"forward"} => "delivery" \in s.flags[b] \ {"forward"}
  BY DEF Between, NodeInv, Locking
<1>2. /\ NodeInv(t, {}, {b} \cup {b}) /\ t.app = s.app /\ t.locked = s.locked
      /\ t.flags[b] = s.flags[b] \ {"forward"} /\ t.ticket = s.ticket
  BY <1>1, FewerFlagsInv DEF Between
<1>3. {b} \cup {b} = {b}
  OBVIOUS
<1> HIDE DEF t
<1>4. NodeInv(t, {}, {b}) /\ "transit" \notin t.flags[b]
  BY <1>2, <1>3 DEF Between
<1>5. /\ NodeInv(CheckKeep(t, b), {}, {b}) /\ "transit" \notin CheckKeep(t, b).flags[b]
      /\ CheckKeep(t, b).app = t.app /\ CheckKeep(t, b).locked = t.locked
      /\ CheckKeep(t, b).ticket[b] \in {t.ticket[b], NoTicket}
  BY <1>4, CheckKeepInv
<1> QED
  BY <1>2, <1>5 DEF Between, StopForwarding, t

LEMMA AnsweredByInv ==
  ASSUME NEW s, NEW u, NEW b \in Bundles, Between(s, u, b), NEW n \in Peers, NEW status
  PROVE  LET t == AnsweredBy(s, b, n, status)
         IN NodeInv(t, {}, {}) /\ t.app = u.app /\ t.locked = u.locked
<1>1. ASSUME NEW t, Between(t, u, b)
      PROVE  /\ NodeInv(FreeTicket(t, b), {}, {}) /\ FreeTicket(t, b).app = u.app
             /\ FreeTicket(t, b).locked = u.locked
  BY <1>1, FreedInv DEF Between
<1>2. Between(StopForwarding(s, b), u, b)
  BY StopForwardingInv
<1>3. HasPlace(s, b) => Between(NoteReceiver(s, b, n), u, b)
  BY NoteReceiverInv DEF Between, Nodes
<1>4. /\ NodeInv(StopForwarding(FreeTicket(s, b), b), {}, {})
      /\ StopForwarding(FreeTicket(s, b), b).app = u.app
      /\ StopForwarding(FreeTicket(s, b), b).locked = u.locked
  <2> DEFINE f == FreeTicket(s, b)
             t == StopForwarding(f, b)
  <2>1. NodeInv(f, {}, {}) /\ f.app = u.app /\ f.locked = u.locked
    BY <1>1
  <2>2. f.ticket[b] = NoTicket /\ "transit" \notin f.flags[b]
    BY FreeTicketInv, FreeTicketFrame DEF Between, NodeInv
  <2>3. Between(f, u, b)
    BY <2>1, <2>2, WeakenInv DEF Between
  <2> HIDE DEF f
  <2>4. Between(t, u, b) /\ t.ticket[b] = NoTicket
    BY <2>2, <2>3, StopForwardingInv
  <2> HIDE DEF t
  <2>5. NodeInv(t, {}, {b} \ {b})
    BY <2>4, SettleInv DEF Between, NoTicket
  <2>6. {b} \ {b} = {}
    OBVIOUS
  <2>7. t = StopForwarding(FreeTicket(s, b), b)
    BY DEF t, f
  <2> QED
    BY <2>4, <2>5, <2>6, <2>7 DEF Between
<1> DEFINE noted == IF IsKnown(n) THEN NoteReceiver(s, b, n) ELSE s
<1>5. HasPlace(s, b) => Between(noted, u, b)
  BY <1>3
<1> HIDE DEF noted
<1>6. AnsweredBy(s, b, n, status)
        \in {StopForwarding(FreeTicket(s, b), b)}
           \cup (IF HasPlace(s, b) THEN {FreeTicket(noted, b)} ELSE {FreeTicket(StopForwarding(s, b), b)})
  BY DEF AnsweredBy, noted
<1> QED
  BY <1>1, <1>2, <1>4, <1>5, <1>6

\* routing_flooding_bundle_sent, with any status.
LEMMA SentInv ==
  ASSUME NEW s, NEW b \in Bundles, NodeInv(s, {}, {}), s.ticket[b].to # None, NEW status
  PROVE  NodeInv(Sent(s, b, status), {}, {}) /\ Sent(s, b, status).app = s.app
<1> DEFINE n == s.ticket[b].to
           s1 == PutFlags(s, b, s.flags[b] \ {"transit"})
           nameless == ~IsKnown(n) \/ (status = "nack" /\ n = Header[b].dst)
           m == IF nameless THEN None ELSE n
           s2 == PutFlags(s, b, {})
           s3 == Answered(s1, b, m)
<1>0. n \in Peers /\ m \in Answerers /\ b \in s.routed
  BY DEF NodeInv, IsNode, Ticket, Ticketing, Answerers, Nodes
<1>1. Between(s1, s, b)
  <2> DEFINE F == s.flags[b] \ {"transit"}
  <2>1. F \subseteq s.flags[b] /\ (b \in s.locked /\ "local" \in F => "delivery" \in F)
        /\ s1 = PutFlags(s, b, F) /\ "transit" \notin F
    BY DEF NodeInv, Locking
  <2> HIDE DEF s1, F
  <2>2. /\ NodeInv(s1, {}, {b}) /\ s1.app = s.app /\ s1.locked = s.locked
        /\ s1.flags[b] = F
    BY <2>1, FewerFlagsAloneInv
  <2> QED
    BY <2>1, <2>2 DEF Between
<1>2. Between(CheckKeep(s2, b), s, b)
  <2> DEFINE F == {}
  <2>1. F \subseteq s.flags[b] /\ (b \in s.locked /\ "local" \in F => "delivery" \in F)
        /\ s2 = PutFlags(s, b, F) /\ "transit" \notin F
    OBVIOUS
  <2> HIDE DEF s2, F
  <2>2. /\ NodeInv(s2, {}, {b}) /\ s2.app = s.app /\ s2.locked = s.locked
        /\ s2.flags[b] = F
    BY <2>1, FewerFlagsAloneInv
  <2> QED
    BY <2>1, <2>2, CheckKeepInv DEF Between
<1>3. Between(s3, s, b)
  BY <1>0, <1>1, AnsweredInv DEF Between
<1> HIDE DEF s1, s3, n, m
<1>4. ASSUME NEW t, Between(t, s, b)
      PROVE  NodeInv(FreeTicket(t, b), {}, {}) /\ FreeTicket(t, b).app = s.app
  BY <1>4, FreedInv DEF Between
<1>5. NodeInv(AnsweredBy(s3, b, n, status), {}, {}) /\ AnsweredBy(s3, b, n, status).app = s.app
  BY <1>0, <1>3, AnsweredByInv
<1>6. Sent(s, b, status) \in {FreeTicket(s1, b), FreeTicket(CheckKeep(s2, b), b),
                             AnsweredBy(s3, b, n, status)}
  BY <1>0 DEF Sent, s1, s2, s3, n, m
<1> QED
  BY <1>1, <1>2, <1>4, <1>5, <1>6

\* An entry that may be in transit is not forwarded any more.
LEMMA StopForwardingInTransitInv ==
  ASSUME NEW s, NEW b \in Bundles, NodeInv(s, {}, {})
  PROVE  NodeInv(StopForwarding(s, b), {}, {}) /\ StopForwarding(s, b).app = s.app
<1> DEFINE F == s.flags[b] \ {"forward"}
           t == PutFlags(s, b, F)
<1>1. /\ F \subseteq s.flags[b] /\ (b \in s.locked /\ "local" \in F => "delivery" \in F)
      /\ "transit" \in F <=> "transit" \in s.flags[b]
  BY DEF NodeInv, Locking
<1> HIDE DEF F
<1>2. NodeInv(t, {}, {b}) /\ t.app = s.app /\ t.flags[b] = F /\ t.ticket = s.ticket
  BY <1>1, FewerFlagsAloneInv
<1>3. s.ticket[b].to # None <=> "transit" \in s.flags[b]
  BY DEF NodeInv, Ticketing
<1> HIDE DEF t
<1>4. NodeInv(t, {}, {b} \ {b})
  BY <1>1, <1>2, <1>3, SettleInv
<1>5. {b} \ {b} = {}
  OBVIOUS
<1>6. NodeInv(t, {}, {})
  BY <1>4, <1>5
<1>7. NodeInv(CheckKeep(t, b), {}, {}) /\ CheckKeep(t, b).app = t.app
  BY <1>6, CheckKeepInv
<1> QED
  BY <1>2, <1>7 DEF StopForwarding, t, F

\* routing_flooding_bundle_delivered_locally: the service gives its bundle back.
LEMMA DeliveredInv ==
  ASSUME NEW s, NEW b \in Bundles, NodeInv(s, {}, {}), s.app[b] = "done"
  PROVE  /\ NodeInv(Delivered(s, b), {}, {})
         /\ \A c \in Bundles : c # b => Delivered(s, b).app[c] = s.app[c]
         /\ Delivered(s, b).app[b] = "none"
<1> DEFINE F == s.flags[b] \ {"delivery", "local"}
           s1 == PutFlags(PutApp(s, b, "none"), b, F)
           u == [s1 EXCEPT !.locked = @ \ {b}]
           s2 == Dec(u, b)
           s3 == Answered(s2, b, Self)
<1>0. b \in s.stored /\ b \in s.routed /\ F \in SUBSET Flag
  BY DEF NodeInv, IsNode, Holding, Locking
<1>1. /\ u.stored = s.stored /\ u.ref = s.ref /\ u.ticket = s.ticket /\ u.routed = s.routed
      /\ u.app = [s.app EXCEPT ![b] = "none"] /\ u.flags = [s.flags EXCEPT ![b] = F]
      /\ u.locked = s.locked \ {b} /\ u.sentTo = s.sentTo /\ u.from = s.from
      /\ u.answered = s.answered
  BY DEF NodeInv, IsNode, PutFlags, PutApp
<1>2. IsNode(u)
  <2>1. /\ [s.app EXCEPT ![b] = "none"] \in [Bundles -> {"new", "sending", "none", "inbox", "done", "lost"}]
        /\ [s.flags EXCEPT ![b] = F] \in [Bundles -> SUBSET Flag] /\ s.locked \ {b} \in SUBSET Bundles
    BY <1>0 DEF NodeInv, IsNode
  <2>2. u = [[[s EXCEPT !.app = [s.app EXCEPT ![b] = "none"]]
                 EXCEPT !.flags = [s.flags EXCEPT ![b] = F]] EXCEPT !.locked = s.locked \ {b}]
    BY DEF PutFlags, PutApp, NodeInv, IsNode
  <2> HIDE DEF u
  <2> QED
    BY <2>1, <2>2 DEF NodeInv, IsNode
<1>3. "transit" \in F <=> "transit" \in s.flags[b]
  OBVIOUS
<1>4. "local" \notin F
  OBVIOUS
<1> HIDE DEF F, u
<1>5. Counted(u, {b})
  BY <1>1 DEF NodeInv, IsNode, Counted, Held, One
<1>6. Ticketing(u, {})
  BY <1>0, <1>1, <1>3 DEF NodeInv, IsNode, Ticketing
<1>7. Locking(u)
  BY <1>0, <1>1, <1>4 DEF NodeInv, IsNode, Locking
<1>8. Holding(u)
  BY <1>1 DEF NodeInv, IsNode, Holding
<1>9. NodeInv(u, {b}, {})
  BY <1>2, <1>5, <1>6, <1>7, <1>8 DEF NodeInv
<1>10. NodeInv(s2, {b} \ {b}, {}) /\ s2.app = u.app
  BY ZenonT(40), <1>9, DecInv DEF Dec, NodeInv, IsNode
<1>11. {b} \ {b} = {} /\ Self \in Answerers /\ Self \in Nodes
  BY DEF Answerers, Nodes
<1>a. NodeInv(s2, {}, {}) /\ s2.app = u.app
  BY <1>10, <1>11
<1> HIDE DEF s2
<1>12. NodeInv(s3, {}, {}) /\ s3.app = u.app
  BY <1>a, <1>11, AnsweredInv
<1> HIDE DEF s3
<1>13. ASSUME HasPlace(s3, b)
       PROVE  LET t == CheckKeep(NoteReceiver(s3, b, Self), b) IN NodeInv(t, {}, {}) /\ t.app = u.app
  <2> DEFINE w == NoteReceiver(s3, b, Self)
  <2>1. NodeInv(w, {}, {}) /\ w.app = u.app
    BY <1>11, <1>12, <1>13, NoteReceiverInv
  <2> HIDE DEF w
  <2>2. NodeInv(CheckKeep(w, b), {}, {}) /\ CheckKeep(w, b).app = u.app
    BY <2>1, CheckKeepInv
  <2> QED
    BY <2>2 DEF w
<1>14. NodeInv(StopForwarding(s3, b), {}, {}) /\ StopForwarding(s3, b).app = u.app
  BY <1>12, StopForwardingInTransitInv
<1>15. Delivered(s, b) = IF HasPlace(s3, b) THEN CheckKeep(NoteReceiver(s3, b, Self), b)
                         ELSE StopForwarding(s3, b)
  BY DEF Delivered, s2, s3, u, F
<1>16. NodeInv(Delivered(s, b), {}, {}) /\ Delivered(s, b).app = u.app
  BY <1>13, <1>14, <1>15
<1> QED
  BY <1>1, <1>16 DEF NodeInv, IsNode

\* routing_flooding_send_to_local hands a bundle over, and locks it.
LEMMA HandedInv ==
  ASSUME NodeInv(node, {}, {}), NEW b \in Deliverable, NEW t \in Handed(node, b)
  PROVE  /\ NodeInv(t, {}, {}) /\ node.app[b] = "none"
         /\ \A c \in Bundles : c # b => t.app[c] = node.app[c]
<1> DEFINE s == node
           F == s.flags[b] \cup {"delivery"}
<1>0. /\ b \in Bundles /\ b \in s.stored /\ b \in s.routed /\ F \in SUBSET Flag
      /\ b \notin s.locked /\ s.app[b] = "none"
  BY DEF NodeInv, IsNode, Deliverable, Locking, Holding, Flag
<1>1. PICK a \in {"inbox", "lost"} : t = PutApp(Deliver(s, b), b, a)
  BY DEF Handed
<1>2. /\ t.stored = s.stored /\ t.ticket = s.ticket /\ t.routed = s.routed
      /\ t.ref = [s.ref EXCEPT ![b] = @ + 1] /\ t.flags = [s.flags EXCEPT ![b] = F]
      /\ t.app = [s.app EXCEPT ![b] = a] /\ t.locked = s.locked \cup {b}
  BY <1>0, <1>1 DEF NodeInv, IsNode, PutApp, Deliver, PutFlags, Inc
<1>3. IsNode(t)
  <2>1. /\ [s.app EXCEPT ![b] = a] \in [Bundles -> {"new", "sending", "none", "inbox", "done", "lost"}]
        /\ [s.flags EXCEPT ![b] = F] \in [Bundles -> SUBSET Flag]
        /\ [s.ref EXCEPT ![b] = @ + 1] \in [Bundles -> Nat]
        /\ s.locked \cup {b} \in SUBSET Bundles
    BY <1>0 DEF NodeInv, IsNode
  <2>2. t = [[[[s EXCEPT !.ref = [s.ref EXCEPT ![b] = @ + 1]] EXCEPT !.flags = [s.flags EXCEPT ![b] = F]]
                EXCEPT !.locked = s.locked \cup {b}] EXCEPT !.app = [s.app EXCEPT ![b] = a]]
    BY <1>0, <1>1 DEF NodeInv, IsNode, PutApp, Deliver, PutFlags, Inc
  <2> QED
    BY <2>1, <2>2 DEF NodeInv, IsNode
<1>4. ("transit" \in F <=> "transit" \in s.flags[b]) /\ "delivery" \in F
  OBVIOUS
<1> HIDE DEF F
<1>5. Counted(t, {})
  BY <1>0, <1>2 DEF NodeInv, IsNode, Counted, Held, One
<1>6. Ticketing(t, {})
  BY <1>0, <1>2, <1>4 DEF NodeInv, IsNode, Ticketing
<1>7. Locking(t)
  BY <1>0, <1>2, <1>4 DEF NodeInv, IsNode, Locking
<1>8. Holding(t)
  BY <1>0, <1>2 DEF NodeInv, IsNode, Holding
<1> QED
  BY <1>0, <1>2, <1>3, <1>5, <1>6, <1>7, <1>8 DEF NodeInv, IsNode

\* routing_flooding_send_to_known_neighbours puts entries in transit, each with a ticket.
LEMMA EnqueueInv ==
  ASSUME NEW s, NodeInv(s, {}, {}), NEW G \in SUBSET Waiting(s), NEW to \in [G -> Peers]
  PROVE  NodeInv(Enqueue(s, G, to), {}, {}) /\ Enqueue(s, G, to).app = s.app
<1> DEFINE tk == [b \in Bundles |-> IF b \in G THEN [NoTicket EXCEPT !.to = to[b]] ELSE s.ticket[b]]
           fl == [b \in Bundles |-> s.flags[b] \cup IF b \in G THEN {"transit"} ELSE {}]
           t == Enqueue(s, G, to)
<1>0. /\ G \subseteq s.routed /\ G \subseteq Bundles
      /\ \A b \in G : s.ticket[b].to = None
  BY DEF NodeInv, IsNode, Waiting, Ticketing
<1>1. /\ \A b \in G : tk[b].to = to[b] /\ ~tk[b].reads /\ tk[b] \in Ticket
      /\ \A b \in Bundles \ G : tk[b] = s.ticket[b]
      /\ tk \in [Bundles -> Ticket]
  <2>1. ASSUME NEW n \in Peers
        PROVE  LET x == [NoTicket EXCEPT !.to = n] IN x.to = n /\ ~x.reads /\ x \in Ticket
    BY DEF NoTicket, Ticket
  <2>2. \A b \in G : tk[b].to = to[b] /\ ~tk[b].reads /\ tk[b] \in Ticket
    BY <1>0, <2>1
  <2>3. \A b \in Bundles \ G : tk[b] = s.ticket[b] /\ tk[b] \in Ticket
    BY DEF NodeInv, IsNode
  <2> QED
    BY <2>2, <2>3
<1>2. /\ fl \in [Bundles -> SUBSET Flag]
      /\ \A b \in Bundles : \A f \in Flag \ {"transit"} : f \in fl[b] <=> f \in s.flags[b]
      /\ \A b \in Bundles : "transit" \in fl[b] <=> b \in G \/ "transit" \in s.flags[b]
      /\ \A b \in Bundles \ G : fl[b] = s.flags[b]
  BY DEF NodeInv, IsNode, Flag
<1>3. /\ t.stored = s.stored /\ t.ticket = tk /\ t.routed = s.routed /\ t.ref = s.ref
      /\ t.flags = fl /\ t.app = s.app /\ t.locked = s.locked
  BY DEF NodeInv, IsNode, Enqueue
<1>4. t = [[s EXCEPT !.ticket = tk] EXCEPT !.flags = fl]
  BY DEF NodeInv, IsNode, Enqueue
<1> HIDE DEF tk, fl
<1>5. IsNode(t)
  BY ZenonT(40), <1>1, <1>2, <1>4 DEF NodeInv, IsNode
<1>6. \A b \in G : ~s.ticket[b].reads /\ to[b] # None
  BY <1>0 DEF NodeInv, Ticketing, Nodes
<1> HIDE DEF t
<1>7. Counted(t, {})
  BY <1>0, <1>1, <1>3, <1>6 DEF NodeInv, Counted, Held, One
<1>8. Ticketing(t, {})
  BY <1>0, <1>1, <1>2, <1>3, <1>6 DEF NodeInv, Ticketing
<1>9. Locking(t)
  BY <1>2, <1>3 DEF NodeInv, IsNode, Locking, Flag
<1>10. Holding(t)
  BY <1>3 DEF NodeInv, Holding
<1> QED
  BY <1>3, <1>5, <1>7, <1>8, <1>9, <1>10 DEF NodeInv, t

(***************************************************************************)
(* The convergence layer                                                   *)
(***************************************************************************)
LEMMA SettleAloneInv ==
  ASSUME NEW s, NEW X, NEW b, NodeInv(s, X, {b}), s.ticket[b].to # None <=> "transit" \in s.flags[b]
  PROVE  NodeInv(s, X, {})
  BY DEF NodeInv, Ticketing

LEMMA TicketType ==
  ASSUME NEW k \in Ticket
  PROVE  /\ [k EXCEPT !.reads = TRUE] \in Ticket /\ [k EXCEPT !.reads = TRUE].to = k.to
         /\ [k EXCEPT !.reads = TRUE].reads
         /\ [k EXCEPT !.reads = FALSE] \in Ticket /\ [k EXCEPT !.reads = FALSE].to = k.to
         /\ ~[k EXCEPT !.reads = FALSE].reads
         /\ [k EXCEPT !.multi = TRUE] \in Ticket /\ [k EXCEPT !.multi = TRUE].to = k.to
         /\ [k EXCEPT !.multi = TRUE].reads = k.reads
         /\ [k EXCEPT !.pend = TRUE] \in Ticket /\ [k EXCEPT !.pend = TRUE].to = k.to
         /\ [k EXCEPT !.pend = TRUE].reads = k.reads
  BY DEF Ticket

\* A ticket changes, but not whom it is for.
LEMMA PutTicketFrame ==
  ASSUME NEW s, IsNode(s), NEW b \in Bundles, NEW tk
  PROVE  LET t == PutTicket(s, b, tk)
         IN /\ t.app = s.app /\ t.flags = s.flags /\ t.ticket[b] = tk
            /\ t.stored = s.stored /\ t.locked = s.locked /\ t.routed = s.routed
            /\ \A c \in Bundles : c # b => t.ticket[c] = s.ticket[c]
  BY DEF IsNode, PutTicket

LEMMA SameReceiverInv ==
  ASSUME NEW s, NEW X, NEW b \in Bundles, NodeInv(s, X, {}), NEW tk \in Ticket,
         s.ticket[b].to # None, tk.to = s.ticket[b].to, NEW Z,
         NodeInv(PutTicket(s, b, tk), Z, {} \cup {b})
  PROVE  NodeInv(PutTicket(s, b, tk), Z, {})
<1> DEFINE t == PutTicket(s, b, tk)
<1>1. t.ticket[b].to # None <=> "transit" \in t.flags[b]
  BY PutTicketFrame DEF NodeInv, Ticketing
<1>2. NodeInv(t, Z, {b})
  <2>1. {} \cup {b} = {b}
    OBVIOUS
  <2> QED
    BY <2>1
<1> HIDE DEF t
<1>3. NodeInv(t, Z, {})
  BY <1>1, <1>2, SettleAloneInv
<1> QED
  BY <1>3 DEF t

\* It refers to the bundle if and only if it did so before.
LEMMA SameReferenceInv ==
  ASSUME NEW s, NEW X, NEW b \in Bundles, NodeInv(s, X, {}), NEW tk \in Ticket,
         s.ticket[b].to # None, tk.to = s.ticket[b].to, s.ticket[b].reads <=> tk.reads
  PROVE  NodeInv(PutTicket(s, b, tk), X, {})
<1> DEFINE Y == {}
<1>1. NodeInv(s, X, Y) /\ b \in s.routed /\ tk.reads = s.ticket[b].reads /\ tk.to # None
  BY DEF NodeInv, IsNode, Ticketing, Ticket
<1> HIDE DEF Y
<1>2. NodeInv(PutTicket(s, b, tk), X, Y \cup {b})
  BY <1>1, TicketInv
<1> QED
  BY <1>2, SameReceiverInv DEF Y

\* It refers to the bundle no more.
LEMMA ReferenceLeftInv ==
  ASSUME NEW s, NEW X, NEW b \in Bundles, NodeInv(s, X, {}), NEW tk \in Ticket,
         s.ticket[b].to # None, tk.to = s.ticket[b].to,
         s.ticket[b].reads, ~tk.reads, b \notin X
  PROVE  NodeInv(PutTicket(s, b, tk), X \cup {b}, {})
<1> DEFINE Y == {}
           Z == X \cup {b}
<1>1. NodeInv(s, X, Y) /\ b \in s.routed
  BY DEF NodeInv, Ticketing
<1> HIDE DEF Y
<1>2. NodeInv(PutTicket(s, b, tk), Z, Y \cup {b})
  BY <1>1, ReadsInv
<1> HIDE DEF Z
<1>3. NodeInv(PutTicket(s, b, tk), Z, {})
  BY <1>2, SameReceiverInv DEF Y
<1> QED
  BY <1>3 DEF Z

\* It refers to the bundle now.
LEMMA ReferenceTakenInv ==
  ASSUME NEW s, NEW X, NEW b \in Bundles, NodeInv(s, X, {}), NEW tk \in Ticket,
         s.ticket[b].to # None, tk.to = s.ticket[b].to,
         ~s.ticket[b].reads, tk.reads, b \in X
  PROVE  NodeInv(PutTicket(s, b, tk), X \ {b}, {})
<1> DEFINE Y == {}
           Z == X \ {b}
<1>1. NodeInv(s, X, Y) /\ b \in s.routed
  BY DEF NodeInv, Ticketing
<1> HIDE DEF Y
<1>2. NodeInv(PutTicket(s, b, tk), Z, Y \cup {b})
  BY <1>1, ReadsInv
<1> HIDE DEF Z
<1>3. NodeInv(PutTicket(s, b, tk), Z, {})
  BY <1>2, SameReceiverInv DEF Y
<1> QED
  BY <1>3 DEF Z

\* The same bundles, in the same places, for the same peers.
Alike(t, s) ==
  /\ t.app = s.app /\ t.flags = s.flags /\ t.stored = s.stored /\ t.locked = s.locked
  /\ t.routed = s.routed /\ \A b \in Bundles : t.ticket[b].to = s.ticket[b].to

LEMMA ReadInv ==
  ASSUME NEW s, NEW b \in Bundles, NodeInv(s, {}, {}), s.ticket[b].to # None
  PROVE  NodeInv(Read(s, b), {}, {}) /\ Alike(Read(s, b), s) /\ Read(s, b).ticket[b].reads
<1> DEFINE tk == [s.ticket[b] EXCEPT !.reads = TRUE]
           i == Inc(s, b)
           t == PutTicket(i, b, tk)
<1>1. CASE s.ticket[b].reads
  BY <1>1 DEF Read, Alike
<1>2. CASE ~s.ticket[b].reads
  <2>0. s.ticket[b] \in Ticket
    BY DEF NodeInv, IsNode
  <2>1. tk \in Ticket /\ tk.to = s.ticket[b].to /\ tk.reads
    BY <2>0, TicketType
  <2>2. /\ i.ticket = s.ticket /\ i.app = s.app /\ i.flags = s.flags /\ i.stored = s.stored
        /\ i.locked = s.locked /\ i.routed = s.routed
    BY DEF NodeInv, IsNode, Inc
  <2>3. Read(s, b) = t
    <3>1. Read(s, b) = Inc(PutTicket(s, b, tk), b)
      BY <1>2 DEF Read
    <3> HIDE DEF tk
    <3>2. Inc(PutTicket(s, b, tk), b) = PutTicket(Inc(s, b), b, tk)
      BY DEF Inc, PutTicket, NodeInv, IsNode
    <3> QED
      BY <3>1, <3>2
  <2>4. NodeInv(i, {b}, {})
    <3> DEFINE X == {}
    <3>1. NodeInv(s, X, {}) /\ b \notin X /\ X \cup {b} = {b}
      OBVIOUS
    <3> HIDE DEF X
    <3>2. NodeInv(i, X \cup {b}, {})
      BY <3>1, IncInv
    <3> QED
      BY <3>1, <3>2
  <2>5. \A c \in Bundles : c # b => t.ticket[c] = i.ticket[c]
    BY <2>4 DEF NodeInv, IsNode, PutTicket
  <2> DEFINE X == {b}
  <2>7. NodeInv(i, X, {}) /\ b \in X /\ X \ {b} = {}
    BY <2>4
  <2>a. tk.to = i.ticket[b].to /\ i.ticket[b].to # None /\ ~i.ticket[b].reads
    BY <1>2, <2>1, <2>2
  <2> HIDE DEF i, tk, X
  <2>6. /\ NodeInv(t, X \ {b}, {}) /\ t.app = i.app /\ t.flags = i.flags /\ t.ticket[b] = tk
        /\ t.stored = i.stored /\ t.locked = i.locked /\ t.routed = i.routed
    <3>1. NodeInv(t, X \ {b}, {})
      BY <2>1, <2>7, <2>a, ReferenceTakenInv
    <3> QED
      BY <3>1, <2>7, PutTicketFrame DEF NodeInv
  <2>8. NodeInv(t, {}, {})
    BY <2>6, <2>7
  <2> QED
    BY <2>1, <2>2, <2>3, <2>5, <2>6, <2>8 DEF Alike
<1> QED
  BY <1>1, <1>2

LEMMA UnreadInv ==
  ASSUME NEW s, NEW b \in Bundles, NodeInv(s, {}, {}), s.ticket[b].to # None
  PROVE  NodeInv(Unread(s, b), {}, {}) /\ Alike(Unread(s, b), s)
<1> DEFINE tk == [s.ticket[b] EXCEPT !.reads = FALSE]
           u == PutTicket(s, b, tk)
           t == Dec(u, b)
<1>1. CASE ~s.ticket[b].reads
  BY <1>1 DEF Unread, Alike
<1>2. CASE s.ticket[b].reads
  <2>0. s.ticket[b] \in Ticket
    BY DEF NodeInv, IsNode
  <2>1. tk \in Ticket /\ tk.to = s.ticket[b].to /\ ~tk.reads
    BY <2>0, TicketType
  <2>2. \A c \in Bundles : c # b => u.ticket[c] = s.ticket[c]
    BY DEF NodeInv, IsNode, PutTicket
  <2>3. Unread(s, b) = t
    BY <1>2 DEF Unread
  <2> DEFINE X == {}
  <2>4. NodeInv(s, X, {}) /\ b \notin X /\ X \cup {b} = {b}
    OBVIOUS
  <2> HIDE DEF X, tk
  <2>5. /\ NodeInv(u, X \cup {b}, {}) /\ u.app = s.app /\ u.flags = s.flags /\ u.ticket[b] = tk
        /\ u.stored = s.stored /\ u.locked = s.locked /\ u.routed = s.routed
    <3>1. NodeInv(u, X \cup {b}, {})
      BY <1>2, <2>1, <2>4, ReferenceLeftInv
    <3> QED
      BY <3>1, PutTicketFrame DEF NodeInv
  <2> HIDE DEF u
  <2>6. NodeInv(u, {b}, {})
    BY <2>4, <2>5
  <2>7. NodeInv(t, {b} \ {b}, {}) /\ {b} \ {b} = {}
    BY <2>6, DecInv
  <2>8. /\ t.app = u.app /\ t.flags = u.flags /\ t.ticket = u.ticket
        /\ t.stored = u.stored /\ t.locked = u.locked /\ t.routed = u.routed
    BY <2>5 DEF NodeInv, IsNode, Dec
  <2> HIDE DEF t
  <2>9. NodeInv(t, {}, {})
    BY <2>7
  <2> QED
    BY <2>1, <2>2, <2>3, <2>5, <2>8, <2>9 DEF Alike
<1> QED
  BY <1>1, <1>2

\* convergence_layer_dgram_prepare_segmentation
LEMMA EncodedInv ==
  ASSUME NEW s, NEW b \in Bundles, NodeInv(s, {}, {}), s.ticket[b].to # None
  PROVE  NodeInv(Encoded(s, b), {}, {}) /\ Alike(Encoded(s, b), s)
<1> DEFINE r == Read(s, b)
           g == Unread(r, b)
           tk == [g.ticket[b] EXCEPT !.multi = TRUE]
           t == PutTicket(g, b, tk)
<1>1. NodeInv(r, {}, {}) /\ Alike(r, s)
  BY ReadInv
<1> HIDE DEF r
<1>2. NodeInv(g, {}, {}) /\ Alike(g, r)
  BY <1>1, UnreadInv DEF Alike
<1> HIDE DEF g
<1>0. g.ticket[b] \in Ticket
  BY <1>2 DEF NodeInv, IsNode
<1>3. tk \in Ticket /\ tk.to = g.ticket[b].to /\ (tk.reads <=> g.ticket[b].reads)
  <2> DEFINE k == g.ticket[b]
  <2> HIDE DEF k
  <2>1. k \in Ticket
    BY <1>0 DEF k
  <2>2. /\ [k EXCEPT !.multi = TRUE] \in Ticket /\ [k EXCEPT !.multi = TRUE].to = k.to
        /\ [k EXCEPT !.multi = TRUE].reads = k.reads
    BY <2>1, TicketType
  <2> QED
    BY <2>2 DEF k
<1>4. \A c \in Bundles : c # b => t.ticket[c] = g.ticket[c]
  BY <1>2 DEF NodeInv, IsNode, PutTicket
<1>a. g.ticket[b].to # None
  BY <1>1, <1>2 DEF Alike
<1> HIDE DEF tk
<1>5. /\ NodeInv(t, {}, {}) /\ t.app = g.app /\ t.flags = g.flags /\ t.ticket[b] = tk
      /\ t.stored = g.stored /\ t.locked = g.locked /\ t.routed = g.routed
  <2>1. NodeInv(t, {}, {})
    BY <1>a, <1>2, <1>3, SameReferenceInv
  <2> QED
    BY <2>1, <1>2, PutTicketFrame DEF NodeInv
<1>6. Encoded(s, b) \in {s, r, t}
  BY DEF Encoded, r, g, tk
<1> HIDE DEF t
<1> QED
  BY <1>1, <1>2, <1>3, <1>4, <1>5, <1>6 DEF Alike

\* What is left of a bundle that is deleted, with n references.
Gone(s, b, n) ==
  [stored |-> s.stored \ {b}, locked |-> s.locked, routed |-> s.routed \ {b},
   ref |-> [s.ref EXCEPT ![b] = n], flags |-> [s.flags EXCEPT ![b] = {}],
   sentTo |-> [s.sentTo EXCEPT ![b] = << >>], from |-> s.from,
   ticket |-> [s.ticket EXCEPT ![b] = NoTicket], app |-> s.app, answered |-> s.answered]

LEMMA ForgetIsGone ==
  ASSUME NEW s, IsNode(s), NEW b \in Bundles, s.ticket[b].reads
  PROVE  Forget(s, b) = Gone(s, b, Lower(Lower(s.ref[b])))
<1> DEFINE f == FreeTicket(s, b)
           v == PutFlags(f, b, {})
           u == Unroute(f, b)
           d == Dec(u, b)
           t == Forget(s, b)
           r == [s.ref EXCEPT ![b] = Lower(@)]
           q == [s.ref EXCEPT ![b] = Lower(Lower(s.ref[b]))]
           tk == [s.ticket EXCEPT ![b] = NoTicket]
           fl == [s.flags EXCEPT ![b] = {}]
           to == [s.sentTo EXCEPT ![b] = << >>]
<1>1. [r EXCEPT ![b] = Lower(r[b])] = q
  BY DEF IsNode, Lower
<1>2. f = [[s EXCEPT !.ticket = tk] EXCEPT !.ref = r]
  <2> DEFINE g == PutTicket(s, b, NoTicket)
  <2>1. f = Dec(g, b) /\ g = [s EXCEPT !.ticket = tk]
    BY DEF FreeTicket, PutTicket
  <2> HIDE DEF f, g, tk
  <2>2. g.ref = s.ref
    BY <2>1 DEF IsNode
  <2>3. f = [g EXCEPT !.ref = [g.ref EXCEPT ![b] = Lower(@)]]
    BY <2>1 DEF Dec
  <2> QED
    BY <2>1, <2>2, <2>3
<1>3. v = [f EXCEPT !.flags = [f.flags EXCEPT ![b] = {}]]
  BY DEF PutFlags
<1>4. u = [v EXCEPT !.routed = v.routed \ {b}, !.sentTo = [f.sentTo EXCEPT ![b] = << >>]]
  BY DEF Unroute
<1>5. d = [u EXCEPT !.ref = [u.ref EXCEPT ![b] = Lower(u.ref[b])]]
  BY DEF Dec
<1>6. t = [d EXCEPT !.stored = d.stored \ {b}]
  BY DEF Forget
<1>7. Gone(s, b, Lower(Lower(s.ref[b]))) =
        [stored |-> s.stored \ {b}, locked |-> s.locked, routed |-> s.routed \ {b},
         ref |-> q, flags |-> fl, sentTo |-> to, from |-> s.from,
         ticket |-> tk, app |-> s.app, answered |-> s.answered]
  BY DEF Gone
<1>8. s.flags = s.flags /\ [s.flags EXCEPT ![b] = {}] = fl /\ [s.sentTo EXCEPT ![b] = << >>] = to
  OBVIOUS
<1> HIDE DEF f, v, u, d, t, r, q, tk, fl, to
<1>9. f = [stored |-> s.stored, locked |-> s.locked, routed |-> s.routed,
           ref |-> r, flags |-> s.flags, sentTo |-> s.sentTo, from |-> s.from,
           ticket |-> tk, app |-> s.app, answered |-> s.answered]
  BY <1>2 DEF IsNode
<1>10. v = [stored |-> s.stored, locked |-> s.locked, routed |-> s.routed,
           ref |-> r, flags |-> fl, sentTo |-> s.sentTo, from |-> s.from,
           ticket |-> tk, app |-> s.app, answered |-> s.answered]
  BY <1>3, <1>8, <1>9
<1>11. u = [stored |-> s.stored, locked |-> s.locked, routed |-> s.routed \ {b},
           ref |-> r, flags |-> fl, sentTo |-> to, from |-> s.from,
           ticket |-> tk, app |-> s.app, answered |-> s.answered]
  BY <1>4, <1>8, <1>9, <1>10
<1>12. d = [stored |-> s.stored, locked |-> s.locked, routed |-> s.routed \ {b},
           ref |-> q, flags |-> fl, sentTo |-> to, from |-> s.from,
           ticket |-> tk, app |-> s.app, answered |-> s.answered]
  BY <1>1, <1>5, <1>11
<1> QED
  BY <1>6, <1>7, <1>12 DEF t

\* The expired branch of prepare_segmentation gives the reference back twice, and the
\* count stops at zero: what no service has is deleted as by anyone else.
LEMMA DroppedInv ==
  ASSUME NEW s, NEW b \in Bundles, NodeInv(s, {}, {}), s.ticket[b].to # None, b \notin s.locked
  PROVE  NodeInv(Dropped(s, b), {}, {}) /\ Dropped(s, b).app = s.app
<1> DEFINE r == Read(s, b)
           d == Dec(r, b)
<1>1. NodeInv(r, {}, {}) /\ Alike(r, s) /\ r.ticket[b].reads
  BY ReadInv
<1> HIDE DEF r
<1>2. /\ b \in r.stored /\ b \notin r.locked /\ r.ref \in [Bundles -> Nat]
  BY <1>1 DEF NodeInv, IsNode, Ticketing, Locking, Alike
<1>3. r.ref[b] = 2
  BY <1>1, <1>2 DEF NodeInv, Counted, Holding, Held, One
<1>4. /\ d.ref = [r.ref EXCEPT ![b] = 1] /\ IsNode(d)
      /\ d.stored = r.stored /\ d.locked = r.locked /\ d.routed = r.routed /\ d.flags = r.flags
      /\ d.sentTo = r.sentTo /\ d.from = r.from /\ d.ticket = r.ticket /\ d.app = r.app
      /\ d.answered = r.answered
  <2>1. Lower(2) = 1
    BY DEF Lower
  <2>2. d = [r EXCEPT !.ref = [r.ref EXCEPT ![b] = 1]]
    BY <1>2, <1>3, <2>1 DEF Dec
  <2>3. [r.ref EXCEPT ![b] = 1] \in [Bundles -> Nat]
    BY <1>2
  <2> HIDE DEF d
  <2> QED
    BY <1>1, <2>2, <2>3 DEF NodeInv, IsNode
<1> HIDE DEF d
<1>5. Lower(Lower(2)) = 0 /\ Lower(Lower(1)) = 0
  BY DEF Lower
<1>6. Forget(r, b) = Gone(r, b, 0)
  BY <1>1, <1>3, <1>5, ForgetIsGone DEF NodeInv
<1>7. Forget(d, b) = Gone(d, b, 0)
  BY <1>1, <1>2, <1>4, <1>5, ForgetIsGone
<1>8. Gone(d, b, 0) = Gone(r, b, 0)
  <2>1. [d.ref EXCEPT ![b] = 0] = [r.ref EXCEPT ![b] = 0]
    BY <1>2, <1>4
  <2> QED
    BY <1>4, <2>1 DEF Gone
<1>9. Dropped(s, b) = Forget(d, b)
  BY <1>2, <1>4 DEF Dropped, Delete, d, r
<1>10. NodeInv(Forget(r, b), {}, {}) /\ Forget(r, b).app = r.app
  BY <1>1, <1>2, ForgetInv
<1> QED
  BY <1>1, <1>6, <1>7, <1>8, <1>9, <1>10 DEF Alike

\* convergence_layer_dgram_neighbour_down for all its tickets.
LEMMA AllFailedInv ==
  ASSUME NEW s, NodeInv(s, {}, {}), NEW F \in SUBSET Bundles
  PROVE  NodeInv(AllFailed(s, F), {}, {}) /\ AllFailed(s, F).app = s.app
<1> DEFINE tk == [b \in Bundles |-> IF b \in F THEN NoTicket ELSE s.ticket[b]]
           fl == [b \in Bundles |-> IF b \in F THEN s.flags[b] \ {"transit"} ELSE s.flags[b]]
           rf == [b \in Bundles |-> IF b \in F /\ s.ticket[b].reads THEN Lower(s.ref[b]) ELSE s.ref[b]]
           t == AllFailed(s, F)
<1>1. /\ tk \in [Bundles -> Ticket] /\ \A b \in F : tk[b] = NoTicket
      /\ \A b \in Bundles \ F : tk[b] = s.ticket[b]
  BY NoTicketType DEF NodeInv, IsNode
<1>2. /\ fl \in [Bundles -> SUBSET Flag] /\ \A b \in F : "transit" \notin fl[b]
      /\ \A b \in Bundles : fl[b] \subseteq s.flags[b]
      /\ \A b \in Bundles : \A f \in Flag \ {"transit"} : f \in fl[b] <=> f \in s.flags[b]
      /\ \A b \in Bundles \ F : fl[b] = s.flags[b]
  BY DEF NodeInv, IsNode
<1>3. /\ rf \in [Bundles -> Nat]
      /\ \A b \in Bundles : b \in F /\ s.ticket[b].reads => rf[b] = Lower(s.ref[b])
      /\ \A b \in Bundles : ~(b \in F /\ s.ticket[b].reads) => rf[b] = s.ref[b]
  BY DEF NodeInv, IsNode, Lower
<1>4. t = [[[s EXCEPT !.ticket = tk] EXCEPT !.flags = fl] EXCEPT !.ref = rf]
  BY DEF NodeInv, IsNode, AllFailed
<1>a. s.ref \in [Bundles -> Nat]
  BY DEF NodeInv, IsNode
<1>n. NoTicket.to = None /\ ~NoTicket.reads
  BY DEF NoTicket
<1> HIDE DEF tk, fl, rf, t
<1>5. /\ t.stored = s.stored /\ t.ticket = tk /\ t.routed = s.routed /\ t.ref = rf
      /\ t.flags = fl /\ t.app = s.app /\ t.locked = s.locked
  BY <1>4 DEF NodeInv, IsNode
<1>6. IsNode(t)
  BY <1>1, <1>2, <1>3, <1>4 DEF NodeInv, IsNode
<1>7. Counted(t, {})
  <2>1. \A b \in Bundles : s.ref[b] = One(b \in s.stored) + One(s.ticket[b].reads) + One(Held(s, b)) + 0
    BY DEF NodeInv, Counted, One
  <2>2. \A b \in Bundles : rf[b] = One(b \in s.stored) + One(tk[b].reads) + One(Held(s, b)) + 0
    BY <1>a, <1>n, <1>1, <1>3, <2>1 DEF One, Lower
  <2> QED
    BY <2>2, <1>5 DEF Counted, One, Held
<1>8. Ticketing(t, {})
  BY <1>n, <1>1, <1>2, <1>5 DEF NodeInv, Ticketing
<1>9. Locking(t)
  BY <1>2, <1>5 DEF NodeInv, IsNode, Locking, Flag
<1>10. Holding(t)
  BY <1>5 DEF NodeInv, Holding
<1> QED
  BY <1>5, <1>6, <1>7, <1>8, <1>9, <1>10 DEF NodeInv, t

(***************************************************************************)
(* The agent's queue.  An event of an application stands for a bundle that *)
(* is held for it, and there is one such event at most: so no bundle is    *)
(* saved, or given back, twice.                                            *)
(***************************************************************************)
Events == [kind : Kinds \cup Calls, about : Bundles \cup Services \cup {None}]
Queued(app, q) ==
  \A i \in DOMAIN q :
    /\ q[i].kind = "send" => q[i].about \in Bundles /\ app[q[i].about] = "sending"
    /\ q[i].kind = "done" => q[i].about \in Bundles /\ app[q[i].about] = "done"
    /\ q[i].kind \in {"send", "done"} => \A j \in DOMAIN q : q[j] = q[i] => j = i
IsQueue(q) == q \in Seq(Events) /\ Len(q) <= QueueLen

LEMMA EventType ==
  ASSUME NEW kind \in Kinds \cup Calls, NEW about \in Bundles \cup Services \cup {None}
  PROVE  Event(kind, about) \in Events /\ Event(kind, about).kind = kind
         /\ Event(kind, about).about = about
  BY DEF Event, Events

LEMMA PostInv ==
  ASSUME NEW q, IsQueue(q), NEW app, Queued(app, q),
         NEW kind \in {"stored", "beacon"} \cup Calls, NEW about \in Bundles \cup Services \cup {None}
  PROVE  IsQueue(Post(q, kind, about)) /\ Queued(app, Post(q, kind, about))
<1> DEFINE e == Event(kind, about)
           p == Append(q, e)
<1>1. e \in Events /\ e.kind = kind /\ kind \notin {"send", "done"}
  BY EventType DEF Kinds, Calls
<1> HIDE DEF e
<1>2. CASE Len(q) < QueueLen
  <2>1. /\ p \in Seq(Events) /\ Len(p) = Len(q) + 1 /\ DOMAIN p = 1 .. Len(q) + 1
        /\ DOMAIN q = 1 .. Len(q) /\ Len(q) \in Nat
        /\ p[Len(q) + 1] = e /\ \A i \in 1 .. Len(q) : p[i] = q[i]
    BY <1>1 DEF IsQueue
  <2> HIDE DEF p
  <2>2. Len(p) <= QueueLen
    BY <1>2, <2>1
  <2>3. Queued(app, p)
    BY <1>1, <2>1 DEF Queued
  <2> QED
    BY <1>2, <2>1, <2>2, <2>3 DEF Post, IsQueue, p, e
<1>3. CASE ~(Len(q) < QueueLen)
  BY <1>3 DEF Post
<1> QED
  BY <1>2, <1>3

\* An application hands over b, or gives it back.
LEMMA PostOwnInv ==
  ASSUME NEW q, IsQueue(q), NEW app, Queued(app, q), NEW b \in Bundles,
         app[b] \notin {"sending", "done"}, NEW app2,
         \A c \in Bundles : c # b => app2[c] = app[c],
         NEW kind \in {"send", "done"},
         Len(q) < QueueLen => app2[b] = IF kind = "send" THEN "sending" ELSE "done"
  PROVE  IsQueue(Post(q, kind, b)) /\ Queued(app2, Post(q, kind, b))
<1> DEFINE e == Event(kind, b)
           p == Append(q, e)
<1>1. e \in Events /\ e.kind = kind /\ e.about = b
  BY EventType DEF Kinds
<1>2. \A i \in DOMAIN q : q[i].kind \in {"send", "done"} => q[i].about \in Bundles \ {b}
  BY DEF Queued
<1>3. Queued(app2, q)
  BY <1>2 DEF Queued
<1> HIDE DEF e
<1>4. CASE Len(q) < QueueLen
  <2>1. /\ p \in Seq(Events) /\ Len(p) = Len(q) + 1 /\ DOMAIN p = 1 .. Len(q) + 1
        /\ DOMAIN q = 1 .. Len(q) /\ Len(q) \in Nat
        /\ p[Len(q) + 1] = e /\ \A i \in 1 .. Len(q) : p[i] = q[i]
    BY <1>1 DEF IsQueue
  <2> HIDE DEF p
  <2>2. Len(p) <= QueueLen
    BY <1>4, <2>1
  <2>3. ASSUME NEW i \in DOMAIN p
        PROVE  /\ p[i].kind = "send" => p[i].about \in Bundles /\ app2[p[i].about] = "sending"
               /\ p[i].kind = "done" => p[i].about \in Bundles /\ app2[p[i].about] = "done"
    BY <1>1, <1>3, <1>4, <2>1 DEF Queued
  <2>4. ASSUME NEW i \in DOMAIN p, NEW j \in DOMAIN p, p[i].kind \in {"send", "done"}, p[j] = p[i]
        PROVE  j = i
    <3>1. CASE i = Len(q) + 1 /\ j = Len(q) + 1
      BY <3>1
    <3>2. CASE i = Len(q) + 1 /\ j \in 1 .. Len(q)
      BY <1>1, <1>2, <2>1, <2>4, <3>2
    <3>3. CASE j = Len(q) + 1 /\ i \in 1 .. Len(q)
      BY <1>1, <1>2, <2>1, <2>4, <3>3
    <3>4. CASE i \in 1 .. Len(q) /\ j \in 1 .. Len(q)
      BY <1>3, <2>1, <2>4, <3>4 DEF Queued
    <3> QED
      BY <2>1, <3>1, <3>2, <3>3, <3>4
  <2>5. Queued(app2, p)
    BY <2>3, <2>4 DEF Queued
  <2> QED
    BY <1>4, <2>1, <2>2, <2>5 DEF Post, IsQueue, p, e
<1>5. CASE ~(Len(q) < QueueLen)
  BY <1>3, <1>5 DEF Post
<1> QED
  BY <1>4, <1>5

\* The agent takes an event; if it is an application's, its bundle may change.
LEMMA TakeInv ==
  ASSUME NEW q, IsQueue(q), q # << >>, NEW app, Queued(app, q), NEW app2,
         \A c \in Bundles : app2[c] = app[c]
            \/ (Head(q).kind \in {"send", "done"} /\ Head(q).about = c)
  PROVE  IsQueue(Tail(q)) /\ Queued(app2, Tail(q))
<1> DEFINE p == Tail(q)
<1>1. /\ p \in Seq(Events) /\ Len(p) = Len(q) - 1 /\ DOMAIN p = 1 .. Len(q) - 1
      /\ DOMAIN q = 1 .. Len(q) /\ Len(q) \in Nat \ {0} /\ q[1] = Head(q)
      /\ \A i \in 1 .. Len(q) - 1 : p[i] = q[i + 1]
  BY DEF IsQueue
<1> HIDE DEF p
<1>2. Len(p) <= QueueLen
  BY <1>1 DEF IsQueue
<1>3. ASSUME NEW i \in DOMAIN p, p[i].kind \in {"send", "done"}
      PROVE  p[i].about \in Bundles /\ app2[p[i].about] = app[p[i].about]
  <2>1. i + 1 \in DOMAIN q /\ 1 \in DOMAIN q /\ i + 1 # 1 /\ p[i] = q[i + 1]
    BY <1>1
  <2>2. q[i + 1].about \in Bundles
    BY <1>3, <2>1 DEF Queued
  <2>3. ASSUME Head(q).kind \in {"send", "done"}, Head(q).about = p[i].about  PROVE FALSE
    <3>1. q[1] \in Events /\ q[i + 1] \in Events
      BY <1>1, <2>1 DEF IsQueue
    <3>2. q[1].kind = q[i + 1].kind
      BY <1>1, <1>3, <2>1, <2>3 DEF Queued
    <3>3. q[1] = q[i + 1]
      BY SMTT(30), <1>1, <2>1, <2>3, <3>1, <3>2 DEF Events
    <3> QED
      BY <1>1, <2>1, <2>3, <3>3 DEF Queued
  <2> QED
    BY <2>1, <2>2, <2>3
<1>4. ASSUME NEW i \in DOMAIN p
      PROVE  /\ p[i].kind = "send" => p[i].about \in Bundles /\ app2[p[i].about] = "sending"
             /\ p[i].kind = "done" => p[i].about \in Bundles /\ app2[p[i].about] = "done"
  BY SMTT(30), <1>1, <1>3 DEF Queued
<1>5. ASSUME NEW i \in DOMAIN p, NEW j \in DOMAIN p, p[i].kind \in {"send", "done"}, p[j] = p[i]
      PROVE  j = i
  <2>1. /\ i + 1 \in DOMAIN q /\ j + 1 \in DOMAIN q
        /\ p[i] = q[i + 1] /\ p[j] = q[j + 1] /\ i \in Nat /\ j \in Nat
    BY <1>1
  <2>2. j + 1 = i + 1
    BY <1>5, <2>1 DEF Queued
  <2> QED
    BY <2>1, <2>2
<1>6. Queued(app2, p)
  BY <1>4, <1>5 DEF Queued
<1> QED
  BY <1>1, <1>2, <1>6 DEF IsQueue, p

(***************************************************************************)
(* The inductive invariant, and the actions                                *)
(***************************************************************************)
Rest ==
  /\ reg \in [Blocks -> Registration]
  /\ ring \in Seq(Bundles) /\ Len(ring) <= RingLen
  /\ expired \subseteq Bundles /\ nbrs \subseteq Peers /\ awake \in BOOLEAN
Inv ==
  /\ NodeInv(node, {}, {})
  /\ IsQueue(queue) /\ Queued(node.app, queue)
  /\ Rest

\* Services have the same bundles as before.
SameGiven == \A c \in Bundles : Given(node', c) <=> Given(node, c)

\* Where applications and the queue are not concerned.
LEMMA QuietInv ==
  ASSUME Inv, NodeInv(node', {}, {}), node'.app = node.app, UNCHANGED queue, Rest'
  PROVE  Inv'
  BY DEF Inv

LEMMA AppSendInv == ASSUME Inv, NEW b \in Bundles, AppSend(b)  PROVE Inv' /\ SameGiven
<1> DEFINE a == IF HasSpace THEN "sending" ELSE "lost"
           X == {}
           i == Inc(node, b)
           t == PutApp(i, b, a)
<1>1. /\ Header[b].src = Self /\ node.app[b] = "new" /\ queue' = Post(queue, "send", b)
      /\ node' = t /\ UNCHANGED <<reg, ring, expired, nbrs, awake>>
  BY DEF AppSend
<1>2. NodeInv(node, X, {}) /\ b \notin X /\ X \cup {b} = {b}
  BY DEF Inv
<1>3. b \notin node.stored
  BY <1>1 DEF Inv, NodeInv, Holding
<1> HIDE DEF X
<1>4. NodeInv(i, X \cup {b}, {})
  BY <1>2, IncInv
<1>5. i.app = node.app /\ i.stored = node.stored
  BY <1>2 DEF NodeInv, IsNode, Inc
<1> HIDE DEF i
<1>6. NodeInv(i, {b}, {})
  BY <1>2, <1>4
<1>7. /\ t.ref = i.ref /\ t.stored = i.stored /\ t.ticket = i.ticket /\ t.routed = i.routed
      /\ t.locked = i.locked /\ t.flags = i.flags /\ t.app = [i.app EXCEPT ![b] = a] /\ IsNode(t)
  BY <1>6 DEF NodeInv, IsNode, PutApp
<1>8. a \in {"sending", "lost"} /\ (Len(queue) < QueueLen => a = "sending")
  BY DEF HasSpace
<1> HIDE DEF t, a
<1>9. Counted(t, {})
  BY SMTT(30), <1>1, <1>5, <1>6, <1>7, <1>8 DEF NodeInv, IsNode, Counted, Held, One
<1>10. Ticketing(t, {}) /\ Locking(t)
  BY <1>6, <1>7 DEF NodeInv, Ticketing, Locking
<1>11. Holding(t)
  BY <1>1, <1>3, <1>5, <1>6, <1>7, <1>8 DEF NodeInv, IsNode, Holding
<1>12. /\ \A c \in Bundles : c # b => t.app[c] = node.app[c]
       /\ t.app[b] = a
  BY <1>2, <1>5, <1>7 DEF NodeInv, IsNode
<1>13. IsQueue(queue') /\ Queued(t.app, queue')
  BY <1>1, <1>8, <1>12, PostOwnInv DEF Inv
<1>14. SameGiven
  BY <1>1, <1>8, <1>12 DEF SameGiven, Given
<1> QED
  BY <1>1, <1>7, <1>9, <1>10, <1>11, <1>13, <1>14 DEF Inv, NodeInv, Rest

LEMMA AppDoneInv == ASSUME Inv, NEW b \in Bundles, AppDone(b)
  PROVE  Inv' /\ ("queue_full" \notin Faults => SameGiven)
<1> DEFINE a == IF HasSpace THEN "done" ELSE "lost"
           t == PutApp(node, b, a)
<1>1. /\ node.app[b] = "inbox" /\ queue' = Post(queue, "done", b)
      /\ node' = t /\ UNCHANGED <<reg, ring, expired, nbrs, awake>>
  BY DEF AppDone
<1>2. /\ t.ref = node.ref /\ t.stored = node.stored /\ t.ticket = node.ticket
      /\ t.routed = node.routed /\ t.locked = node.locked /\ t.flags = node.flags
      /\ t.app = [node.app EXCEPT ![b] = a] /\ IsNode(t)
  BY DEF Inv, NodeInv, IsNode, PutApp
<1>3. a \in {"done", "lost"} /\ (Len(queue) < QueueLen => a = "done")
  BY DEF HasSpace
<1> HIDE DEF t, a
<1>4. Counted(t, {})
  BY SMTT(30), <1>1, <1>2, <1>3 DEF Inv, NodeInv, IsNode, Counted, Held, One
<1>5. Ticketing(t, {}) /\ Locking(t)
  BY <1>2 DEF Inv, NodeInv, Ticketing, Locking
<1>6. Holding(t)
  BY <1>1, <1>2, <1>3 DEF Inv, NodeInv, IsNode, Holding
<1>7. /\ \A c \in Bundles : c # b => t.app[c] = node.app[c]
      /\ t.app[b] = a
  BY <1>2 DEF Inv, NodeInv, IsNode
<1>8. IsQueue(queue') /\ Queued(t.app, queue')
  BY <1>1, <1>3, <1>7, PostOwnInv DEF Inv
<1>9. "queue_full" \notin Faults => SameGiven
  <2>1. "queue_full" \notin Faults => a = "done"
    BY <1>3 DEF AppDone, MayPost, HasSpace
  <2> QED
    BY <1>1, <1>7, <2>1 DEF SameGiven, Given
<1> QED
  BY <1>1, <1>2, <1>4, <1>5, <1>6, <1>8, <1>9 DEF Inv, NodeInv, Rest

LEMMA AppCallInv == ASSUME Inv, NEW kind \in Calls, NEW v \in Services, AppCall(kind, v)  PROVE Inv'
<1>1. queue' = Post(queue, kind, v) /\ UNCHANGED <<node, reg, ring, expired, nbrs, awake>>
  BY DEF AppCall
<1>2. IsQueue(queue') /\ Queued(node.app, queue')
  BY <1>1, PostInv DEF Inv
<1> QED
  BY <1>1, <1>2 DEF Inv, Rest

\* A status report deletes the bundle it tells of.
LEMMA ReportedInv ==
  ASSUME NEW s, NodeInv(s, {}, {}), NEW b \in Bundles
  PROVE  NodeInv(Reported(s, b), {}, {}) /\ Reported(s, b).app = s.app
<1> DEFINE r == Header[b].report
           t == Told(s, r)
<1>1. CASE r = None
  BY <1>1 DEF Reported
<1>2. CASE r # None
  <2>1. r \in Bundles /\ Header[r].dst \in Answerers
    BY <1>2, HeaderAssumption DEF Answerers
  <2>2. NodeInv(t, {}, {}) /\ t.app = s.app
    BY <2>1, AnsweredInv DEF Told
  <2> HIDE DEF t, r
  <2>3. NodeInv(Delete(t, r), {}, {}) /\ Delete(t, r).app = t.app
    BY <2>2, DeleteInv
  <2> QED
    BY <1>2, <2>2, <2>3 DEF Reported, t, r
<1> QED
  BY <1>1, <1>2

LEMMA SetFromInv ==
  ASSUME NEW s, NodeInv(s, {}, {}), NEW b \in Bundles, NEW n \in Peers \cup {None}
  PROVE  NodeInv(SetFrom(s, b, n), {}, {}) /\ SetFrom(s, b, n).app = s.app
<1> DEFINE t == SetFrom(s, b, n)
<1>1. IsNode(t)
  BY DEF NodeInv, IsNode, SetFrom
<1>2. /\ t.stored = s.stored /\ t.ref = s.ref /\ t.app = s.app /\ t.ticket = s.ticket
      /\ t.flags = s.flags /\ t.routed = s.routed /\ t.locked = s.locked
  BY DEF NodeInv, IsNode, SetFrom
<1> HIDE DEF t
<1>3. Counted(t, {}) /\ Ticketing(t, {}) /\ Locking(t) /\ Holding(t)
  BY <1>2 DEF NodeInv, Counted, Held, Ticketing, Locking, Holding
<1> QED
  BY <1>1, <1>2, <1>3 DEF NodeInv, t

LEMMA RememberInv ==
  ASSUME Rest, NEW b \in Bundles
  PROVE  Remember(b) \in Seq(Bundles) /\ Len(Remember(b)) <= RingLen
<1>1. CASE Len(ring) < RingLen
  BY <1>1 DEF Rest, Remember
<1>2. CASE ~(Len(ring) < RingLen)
  <2>1. ring # << >> /\ Len(ring) = RingLen
    BY <1>2 DEF Rest
  <2>2. Tail(ring) \in Seq(Bundles) /\ Len(Tail(ring)) = RingLen - 1
    BY <2>1 DEF Rest
  <2> QED
    BY <1>2, <2>2 DEF Remember
<1> QED
  BY <1>1, <1>2

LEMMA ReceiveInv == ASSUME Inv, NEW b \in Bundles, NEW n \in Peers, Receive(b, n)
  PROVE  Inv' /\ SameGiven
<1> DEFINE s == Reported(node, b)
<1>1. /\ Header[b].src # Self /\ UNCHANGED <<reg, expired, nbrs, awake>>
      /\ IF IsForMe(b) \/ IsSeen(b) THEN Reject(s)
         ELSE IF b \in s.stored THEN Accept(s, b)
         ELSE \E r \in Saved(s, b) : IF r.ok THEN Accept(SetFrom(r.node, b, n), b) ELSE Reject(r.node)
  BY DEF Receive
<1>2. NodeInv(s, {}, {}) /\ s.app = node.app
  BY ReportedInv DEF Inv
<1> HIDE DEF s
<1>3. ASSUME NEW t, NodeInv(t, {}, {}), t.app = node.app, Reject(t)  PROVE Inv' /\ SameGiven
  BY <1>1, <1>3 DEF Reject, Inv, Rest, SameGiven, Given
<1>4. ASSUME NEW t, NodeInv(t, {}, {}), t.app = node.app, Accept(t, b)
      PROVE  Inv' /\ SameGiven
  <2>1. ring' = Remember(b) /\ queue' = Post(queue, "stored", b) /\ node' = t
    BY <1>4 DEF Accept
  <2>2. IsQueue(queue') /\ Queued(node.app, queue')
    BY <2>1, PostInv DEF Inv
  <2>3. ring' \in Seq(Bundles) /\ Len(ring') <= RingLen
    BY <2>1, RememberInv DEF Inv
  <2> QED
    BY <1>1, <1>4, <2>1, <2>2, <2>3 DEF Inv, Rest, SameGiven, Given
<1>5. ASSUME b \notin s.stored, NEW r \in Saved(s, b),
             IF r.ok THEN Accept(SetFrom(r.node, b, n), b) ELSE Reject(r.node)
      PROVE  Inv' /\ SameGiven
  <2>1. s.app[b] = "none"
    BY <1>1, <1>2, <1>5 DEF NodeInv, IsNode, Holding
  <2>2. NodeInv(r.node, {}, {}) /\ r.node.app = s.app
    BY <1>2, <1>5, <2>1, SavedInv
  <2>3. NodeInv(SetFrom(r.node, b, n), {}, {}) /\ SetFrom(r.node, b, n).app = s.app
    BY <2>2, SetFromInv
  <2> QED
    BY <1>2, <1>3, <1>4, <1>5, <2>2, <2>3
<1> QED
  BY <1>1, <1>2, <1>3, <1>4, <1>5

\* An event that changes one bundle is taken.
LEMMA TakesInv ==
  ASSUME Inv, NEW kind \in Kinds \cup Calls, NEW about \in Bundles \cup Services \cup {None},
         Takes(kind, about),
         NodeInv(node', {}, {}), Rest',
         \A c \in Bundles : node'.app[c] = node.app[c] \/ (kind \in {"send", "done"} /\ about = c)
  PROVE  Inv'
<1> DEFINE app2 == node'.app
<1>1. queue # << >> /\ Head(queue) = Event(kind, about) /\ queue' = Tail(queue)
  BY DEF Takes
<1>2. Head(queue).kind = kind /\ Head(queue).about = about
  BY <1>1, EventType
<1>3. \A c \in Bundles : app2[c] = node.app[c]
         \/ (Head(queue).kind \in {"send", "done"} /\ Head(queue).about = c)
  BY <1>2
<1> HIDE DEF app2
<1>4. IsQueue(Tail(queue)) /\ Queued(app2, Tail(queue))
  BY <1>1, <1>3, TakeInv DEF Inv
<1> QED
  BY <1>1, <1>4 DEF Inv, app2

\* What an application's event at the head of the queue is about.
LEMMA HeadOfQueue ==
  ASSUME Inv, NEW b \in Bundles, NEW kind \in {"send", "done"}, Takes(kind, b)
  PROVE  node.app[b] = IF kind = "send" THEN "sending" ELSE "done"
<1>1. queue # << >> /\ Head(queue) = Event(kind, b)
  BY DEF Takes
<1>2. Event(kind, b).kind = kind /\ Event(kind, b).about = b
  BY EventType DEF Kinds
<1>3. 1 \in DOMAIN queue /\ queue[1] = Head(queue)
  BY <1>1 DEF Inv, IsQueue
<1> QED
  BY <1>1, <1>2, <1>3 DEF Inv, Queued

LEMMA NewBundleInv ==
  ASSUME NEW s, NodeInv(s, {}, {}), NEW b \in Bundles, NewBundle(s, b), awake \in BOOLEAN
  PROVE  NodeInv(node', {}, {}) /\ node'.app = s.app /\ awake' \in BOOLEAN
<1>1. CASE CanAnnounce(s, b) /\ node' = Announce(s, b) /\ awake' = TRUE
  BY <1>1, AnnounceInv
<1>2. CASE node' = s /\ UNCHANGED awake
  BY <1>2
<1> QED
  BY <1>1, <1>2 DEF NewBundle

LEMMA AgentSendInv == ASSUME Inv, NEW b \in Bundles, AgentSend(b)
  PROVE  Inv' /\ SameGiven
<1> DEFINE t == PutApp(node, b, "none")
           X == {b}
<1>1. Takes("send", b) /\ UNCHANGED <<reg, ring, expired, nbrs>>
  BY DEF AgentSend
<1>2. PICK r \in Saved(t, b) :
        IF r.ok THEN NewBundle(SetFrom(r.node, b, None), b)
        ELSE node' = Dec(r.node, b) /\ UNCHANGED awake
  BY DEF AgentSend
<1>3. node.app[b] = "sending"
  BY <1>1, HeadOfQueue
<1>4. /\ t.ref = node.ref /\ t.stored = node.stored /\ t.ticket = node.ticket
      /\ t.routed = node.routed /\ t.locked = node.locked /\ t.flags = node.flags
      /\ t.app = [node.app EXCEPT ![b] = "none"] /\ IsNode(t)
  BY DEF Inv, NodeInv, IsNode, PutApp
<1>5. b \notin node.stored
  BY <1>3 DEF Inv, NodeInv, Holding
<1> HIDE DEF t
<1>6. Counted(t, {b})
  BY <1>3, <1>4 DEF Inv, NodeInv, IsNode, Counted, Held, One
<1>7. Ticketing(t, {}) /\ Locking(t)
  BY <1>4 DEF Inv, NodeInv, Ticketing, Locking
<1>8. Holding(t)
  BY <1>4, <1>5 DEF Inv, NodeInv, IsNode, Holding
<1>9. NodeInv(t, X, {}) /\ X \subseteq {b} /\ b \in X /\ X \ {b} = {}
  BY <1>4, <1>6, <1>7, <1>8 DEF NodeInv
<1>10. /\ b \notin t.stored /\ t.app[b] = "none"
       /\ \A c \in Bundles : c # b => t.app[c] = node.app[c]
  BY <1>4, <1>5 DEF Inv, NodeInv, IsNode
<1> HIDE DEF X
<1>11. /\ r.ok => NodeInv(r.node, {}, {})
       /\ ~r.ok => NodeInv(r.node, X, {})
       /\ r.node.app = t.app
  BY <1>9, <1>10, SavedInv
<1>12. NodeInv(node', {}, {}) /\ node'.app = t.app /\ awake' \in BOOLEAN
  <2>1. CASE r.ok
    <3> DEFINE s == SetFrom(r.node, b, None)
    <3>1. NodeInv(s, {}, {}) /\ s.app = t.app
      BY <1>11, <2>1, SetFromInv
    <3>2. NewBundle(s, b)
      BY <1>2, <2>1
    <3> HIDE DEF s
    <3> QED
      BY <3>1, <3>2, NewBundleInv DEF Inv, Rest
  <2>2. CASE ~r.ok
    <3> DEFINE s == r.node
    <3>1. NodeInv(s, X, {}) /\ node' = Dec(s, b) /\ UNCHANGED awake
      BY <1>2, <1>11, <2>2
    <3> HIDE DEF s
    <3>2. NodeInv(Dec(s, b), X \ {b}, {})
      BY <1>9, <3>1, DecInv
    <3>3. Dec(s, b).app = s.app
      BY <3>1 DEF NodeInv, IsNode, Dec
    <3> QED
      BY <1>9, <1>11, <3>1, <3>2, <3>3 DEF s, Inv, Rest
  <2> QED
    BY <2>1, <2>2
<1>13. Rest'
  BY <1>1, <1>12 DEF Inv, Rest
<1>14. SameGiven
  BY <1>3, <1>10, <1>12 DEF SameGiven, Given
<1> QED
  BY <1>1, <1>10, <1>12, <1>13, <1>14, TakesInv DEF Kinds

LEMMA AgentStoredInv == ASSUME Inv, NEW b \in Bundles, AgentStored(b)
  PROVE  Inv' /\ SameGiven
<1>1. Takes("stored", b) /\ NewBundle(node, b) /\ UNCHANGED <<reg, ring, expired, nbrs>>
  BY DEF AgentStored
<1>2. NodeInv(node', {}, {}) /\ node'.app = node.app /\ awake' \in BOOLEAN
  BY <1>1, NewBundleInv DEF Inv, Rest
<1>3. Rest'
  BY <1>1, <1>2 DEF Inv, Rest
<1>4. SameGiven
  BY <1>2 DEF SameGiven, Given
<1> QED
  BY <1>1, <1>2, <1>3, <1>4, TakesInv DEF Kinds

LEMMA UnblockInv ==
  ASSUME reg \in [Blocks -> Registration], NEW v, Unblock(v)
  PROVE  reg' \in [Blocks -> Registration]
<1>1. CASE UNCHANGED reg
  BY <1>1
<1>2. ASSUME NEW r \in BusyBlocks(v), reg' = [reg EXCEPT ![r].busy = FALSE]
      PROVE  reg' \in [Blocks -> Registration]
  <2>1. r \in Blocks /\ reg[r] \in Registration
    BY DEF BusyBlocks
  <2>2. [reg[r] EXCEPT !.busy = FALSE] \in Registration
    BY <2>1 DEF Registration
  <2> QED
    BY <1>2, <2>1, <2>2
<1> QED
  BY <1>1, <1>2 DEF Unblock

LEMMA AgentDoneInv == ASSUME Inv, NEW b \in Bundles, AgentDone(b)
  PROVE  /\ Inv' /\ Unblock(Header[b].srv)
         /\ Given(node, b) /\ ~Given(node', b)
         /\ \A c \in Bundles : c # b => (Given(node', c) <=> Given(node, c))
<1>1. /\ Takes("done", b) /\ UNCHANGED <<ring, expired, nbrs>>
      /\ awake' = (awake \/ node.ref[b] # 0)
      /\ IF node.ref[b] = 0 \/ b \notin node.routed
         THEN node' = PutApp(node, b, IF node.ref[b] = 0 THEN "none" ELSE "lost") /\ UNCHANGED reg
         ELSE node' = Delivered(node, b) /\ Unblock(Header[b].srv)
  BY DEF AgentDone
<1>2. node.app[b] = "done"
  BY <1>1, HeadOfQueue
<1>3. node.ref[b] # 0 /\ b \in node.routed
  <2>1. b \in node.stored /\ b \in node.routed
    BY <1>2 DEF Inv, NodeInv, Holding, Locking
  <2>2. node.ref[b] = One(b \in node.stored) + One(node.ticket[b].reads) + One(Held(node, b)) + One(b \in {})
    BY DEF Inv, NodeInv, Counted
  <2>3. \A condition : One(condition) \in {0, 1}
    BY DEF One
  <2> QED
    BY <2>1, <2>2, <2>3 DEF One
<1>4. node' = Delivered(node, b) /\ Unblock(Header[b].srv)
  BY <1>1, <1>3
<1>5. /\ NodeInv(node', {}, {})
      /\ \A c \in Bundles : c # b => node'.app[c] = node.app[c]
      /\ node'.app[b] = "none"
  BY <1>2, <1>4, DeliveredInv DEF Inv
<1>6. reg' \in [Blocks -> Registration]
  BY <1>4, UnblockInv DEF Inv, Rest
<1>7. Rest'
  BY <1>1, <1>6 DEF Inv, Rest
<1>8. Inv'
  BY <1>1, <1>5, <1>7, TakesInv DEF Kinds
<1> QED
  BY <1>2, <1>4, <1>5, <1>8 DEF Given

LEMMA AgentBeaconInv == ASSUME Inv, AgentBeacon  PROVE Inv'
<1>1. Takes("beacon", None) /\ awake' = TRUE /\ UNCHANGED <<node, reg, ring, expired, nbrs>>
  BY DEF AgentBeacon
<1>2. NodeInv(node', {}, {}) /\ node'.app = node.app /\ Rest'
  BY <1>1 DEF Inv, Rest
<1> QED
  BY <1>1, <1>2, TakesInv DEF Kinds

LEMMA AgentCallInv == ASSUME Inv, NEW v \in Services, AgentCall(v)  PROVE Inv'
<1>1. /\ \E kind \in Calls : Takes(kind, v)
      /\ Register(v) \/ Switch(v, TRUE) \/ Switch(v, FALSE) \/ Remove(v)
      /\ UNCHANGED <<node, ring, expired, nbrs, awake>>
  BY DEF AgentCall, Calls
<1>2. \A g \in Registration, x \in Services \cup {None}, a \in BOOLEAN :
        /\ [g EXCEPT !.active = a] \in Registration /\ [g EXCEPT !.srv = x] \in Registration
        /\ [[g EXCEPT !.srv = x] EXCEPT !.active = a] \in Registration
  BY DEF Registration
<1>3. reg \in [Blocks -> Registration]
  BY DEF Inv, Rest
<1>4. reg' \in [Blocks -> Registration]
  <2>1. CASE Register(v)
    <3>1. CASE UNCHANGED reg
      BY <1>3, <3>1
    <3>2. CASE reg' = [reg EXCEPT ![FirstBlock].srv = v, ![FirstBlock].active = TRUE]
      <4> DEFINE f == FirstBlock
      <4> HIDE DEF f
      <4>1. reg' = [reg EXCEPT ![f].srv = v, ![f].active = TRUE]
        BY <3>2 DEF f
      <4>2. f \in Blocks => reg' = [reg EXCEPT ![f] = [[reg[f] EXCEPT !.srv = v] EXCEPT !.active = TRUE]]
        BY <1>3, <4>1
      <4>3. f \notin Blocks => reg' = reg
        BY <1>3, <4>1
      <4>4. CASE f \in Blocks
        <5>1. [[reg[f] EXCEPT !.srv = v] EXCEPT !.active = TRUE] \in Registration
          BY <1>2, <1>3, <4>4
        <5> QED
          BY <1>3, <4>2, <4>4, <5>1
      <4> QED
        BY <1>3, <4>3, <4>4
    <3> QED
      BY <2>1, <3>1, <3>2 DEF Register
  <2>2. ASSUME NEW a \in BOOLEAN, Switch(v, a)  PROVE reg' \in [Blocks -> Registration]
    <3> DEFINE g(r) == IF reg[r].srv = v THEN [reg[r] EXCEPT !.active = a] ELSE reg[r]
    <3>1. ASSUME NEW r \in Blocks  PROVE g(r) \in Registration
      <4>1. reg[r] \in Registration
        BY <1>3
      <4> QED
        BY <1>2, <4>1
    <3>2. reg' = [r \in Blocks |-> g(r)]
      BY <2>2 DEF Switch
    <3> HIDE DEF g
    <3> QED
      BY <3>1, <3>2
  <2>3. CASE Remove(v)
    <3> DEFINE g(r) == IF reg[r].srv = v THEN [reg[r] EXCEPT !.srv = None] ELSE reg[r]
    <3>1. ASSUME NEW r \in Blocks  PROVE g(r) \in Registration
      <4>1. reg[r] \in Registration
        BY <1>3
      <4> QED
        BY <1>2, <4>1
    <3>2. reg' = [r \in Blocks |-> g(r)]
      BY <2>3 DEF Remove
    <3> HIDE DEF g
    <3> QED
      BY <3>1, <3>2
  <2> QED
    BY <1>1, <2>1, <2>2, <2>3
<1>5. NodeInv(node', {}, {}) /\ node'.app = node.app /\ Rest'
  BY <1>1, <1>4 DEF Inv, Rest
<1> QED
  BY <1>1, <1>5, TakesInv

LEMMA RoutingPassInv == ASSUME Inv, RoutingPass  PROVE Inv'
<1>1. awake' = FALSE /\ UNCHANGED <<queue, ring, expired, nbrs>>
  BY DEF RoutingPass
<1>2. PICK s1 \in {node} \cup UNION {Handed(node, b) : b \in Deliverable} :
        /\ LocalPass(node, s1)
        /\ \E G \in Granted(s1) : \E to \in [G -> nbrs] :
             /\ \A b \in G : to[b] \in Targets(s1, b)
             /\ node' = Enqueue(s1, G, to)
  BY DEF RoutingPass
<1>a. PICK G \in Granted(s1) : \E to \in [G -> nbrs] : node' = Enqueue(s1, G, to)
  BY <1>2
<1>3. PICK to \in [G -> nbrs] : node' = Enqueue(s1, G, to)
  BY <1>a
<1>4. G \in SUBSET Waiting(s1) /\ to \in [G -> Peers]
  <2>1. nbrs \subseteq Peers
    BY DEF Inv, Rest
  <2> QED
    BY <1>3, <2>1 DEF Granted
<1>5. /\ NodeInv(s1, {}, {})
      /\ \A c \in Bundles : s1.app[c] = node.app[c] \/ node.app[c] = "none"
  <2>1. CASE s1 = node
    BY <2>1 DEF Inv
  <2>2. ASSUME NEW b \in Deliverable, s1 \in Handed(node, b)
        PROVE  /\ NodeInv(s1, {}, {})
               /\ \A c \in Bundles : s1.app[c] = node.app[c] \/ node.app[c] = "none"
    BY <2>2, HandedInv DEF Inv
  <2> QED
    BY <1>2, <2>1, <2>2
<1>6. NodeInv(node', {}, {}) /\ node'.app = s1.app
  BY <1>3, <1>4, <1>5, EnqueueInv
<1>7. Queued(node'.app, queue)
  BY <1>5, <1>6 DEF Inv, Queued
<1>8. reg' \in [Blocks -> Registration]
  <2>1. CASE UNCHANGED reg
    BY <2>1 DEF Inv, Rest
  <2>2. ASSUME NEW b \in Deliverable, NEW r \in Serving(b), reg' = [reg EXCEPT ![r].busy = TRUE]
        PROVE  reg' \in [Blocks -> Registration]
    <3>1. reg[r] \in Registration /\ reg \in [Blocks -> Registration]
      BY DEF Serving, Inv, Rest
    <3>2. [reg[r] EXCEPT !.busy = TRUE] \in Registration
      BY <3>1 DEF Registration
    <3> QED
      BY <2>2, <3>1, <3>2
  <2> QED
    BY <1>2, <2>1, <2>2 DEF LocalPass
<1> QED
  BY <1>1, <1>6, <1>7, <1>8 DEF Inv, Rest

LEMMA ExpiredAttemptInv ==
  ASSUME Inv, "expired_held" \notin Faults, NEW b \in Bundles, ExpiredAttempt(b)  PROVE Inv' /\ SameGiven
<1>1. /\ node.ticket[b].to # None /\ b \notin node.locked /\ node' = Dropped(node, b)
      /\ UNCHANGED <<queue, reg, ring, expired, nbrs, awake>>
  BY DEF ExpiredAttempt
<1>2. NodeInv(node', {}, {}) /\ node'.app = node.app
  BY <1>1, DroppedInv DEF Inv
<1> QED
  BY <1>1, <1>2 DEF Inv, Rest, SameGiven, Given

LEMMA UnencodedAttemptInv == ASSUME Inv, NEW b \in Bundles, UnencodedAttempt(b)  PROVE Inv' /\ SameGiven
<1>1. /\ node.ticket[b].to # None /\ node' = Read(node, b)
      /\ UNCHANGED <<queue, reg, ring, expired, nbrs, awake>>
  BY DEF UnencodedAttempt
<1>2. NodeInv(node', {}, {}) /\ node'.app = node.app
  BY <1>1, ReadInv DEF Inv, Alike
<1> QED
  BY <1>1, <1>2 DEF Inv, Rest, SameGiven, Given

LEMMA AttemptInv ==
  ASSUME Inv, NEW b \in Bundles, NEW o \in {"ok", "retry", "fail", "fatal"}, Attempt(b, o)
  PROVE  Inv' /\ SameGiven
<1> DEFINE s == Encoded(node, b)
           s1 == Unread(s, b)
           tk == [s1.ticket[b] EXCEPT !.pend = TRUE]
           t == PutTicket(s1, b, tk)
<1>1. /\ node.ticket[b].to # None /\ UNCHANGED <<queue, reg, ring, expired, nbrs>>
      /\ \/ node' = t /\ UNCHANGED awake
         \/ node' = s /\ UNCHANGED awake
         \/ node' = Sent(s, b, "fail") /\ awake' = TRUE
         \/ node' = Sent(s, b, "error") /\ awake' = TRUE
  BY DEF Attempt
<1>2. NodeInv(s, {}, {}) /\ Alike(s, node) /\ s.ticket[b].to # None
  BY <1>1, EncodedInv DEF Inv, Alike
<1> HIDE DEF s
<1>3. NodeInv(s1, {}, {}) /\ Alike(s1, s) /\ s1.ticket[b].to # None
  BY <1>2, UnreadInv DEF Alike
<1> HIDE DEF s1
<1>4. s1.ticket[b] \in Ticket
  BY <1>3 DEF NodeInv, IsNode
<1>5. tk \in Ticket /\ tk.to = s1.ticket[b].to /\ (s1.ticket[b].reads <=> tk.reads)
  BY <1>4, TicketType
<1> HIDE DEF tk
<1>6. NodeInv(t, {}, {}) /\ t.app = s1.app
  <2>1. NodeInv(t, {}, {})
    BY <1>3, <1>5, SameReferenceInv
  <2> QED
    BY <1>3, <2>1, PutTicketFrame DEF NodeInv
<1>7. /\ NodeInv(Sent(s, b, "fail"), {}, {}) /\ Sent(s, b, "fail").app = s.app
      /\ NodeInv(Sent(s, b, "error"), {}, {}) /\ Sent(s, b, "error").app = s.app
  BY <1>2, SentInv
<1> HIDE DEF t
<1>8. s.app = node.app /\ s1.app = node.app /\ t.app = node.app
  BY <1>2, <1>3, <1>6 DEF Alike
<1>9. awake' \in BOOLEAN
  BY <1>1 DEF Inv, Rest
<1>10. NodeInv(node', {}, {}) /\ node'.app = node.app
  <2>1. CASE node' = t
    BY <1>6, <1>8, <2>1
  <2>2. CASE node' = s
    BY <1>2, <1>8, <2>2
  <2>3. CASE node' = Sent(s, b, "fail") \/ node' = Sent(s, b, "error")
    BY <1>7, <1>8, <2>3
  <2> QED
    BY <1>1, <2>1, <2>2, <2>3
<1> QED
  BY <1>1, <1>9, <1>10 DEF Inv, Rest, SameGiven, Given

LEMMA AnswerInv == ASSUME Inv, NEW b \in Bundles, NEW status, Answer(b, status)  PROVE Inv' /\ SameGiven
<1>1. /\ node.ticket[b].to # None /\ node' = Sent(node, b, status) /\ awake' = TRUE
      /\ UNCHANGED <<queue, reg, ring, expired, nbrs>>
  BY DEF Answer
<1>2. NodeInv(node', {}, {}) /\ node'.app = node.app
  BY <1>1, SentInv DEF Inv
<1> QED
  BY <1>1, <1>2 DEF Inv, Rest, SameGiven, Given

LEMMA NeighbourUpInv == ASSUME Inv, NEW n \in Peers, NeighbourUp(n)  PROVE Inv'
<1>1. nbrs' = nbrs \cup {n} /\ queue' = Post(queue, "beacon", None)
      /\ UNCHANGED <<node, reg, ring, expired, awake>>
  BY DEF NeighbourUp
<1>2. IsQueue(queue') /\ Queued(node.app, queue')
  BY <1>1, PostInv DEF Inv
<1> QED
  BY <1>1, <1>2 DEF Inv, Rest

LEMMA NeighbourDownInv == ASSUME Inv, NEW n \in Peers, NeighbourDown(n)  PROVE Inv' /\ SameGiven
<1>1. /\ nbrs' = nbrs \ {n} /\ node' = AllFailed(node, Unsent(n))
      /\ awake' = (awake \/ Unsent(n) # {}) /\ UNCHANGED <<queue, reg, ring, expired>>
  BY DEF NeighbourDown
<1>2. NodeInv(node', {}, {}) /\ node'.app = node.app
  BY <1>1, AllFailedInv DEF Inv, Unsent
<1> QED
  BY <1>1, <1>2 DEF Inv, Rest, SameGiven, Given

LEMMA ExpireInv == ASSUME Inv, NEW b \in Bundles, Expire(b)  PROVE Inv'
  BY DEF Inv, Rest, Expire

LEMMA PruneInv == ASSUME Inv, Prune  PROVE Inv' /\ SameGiven
<1>1. node' \in Pruned(node) /\ UNCHANGED <<queue, reg, ring, expired, nbrs, awake>>
  BY DEF Prune
<1>2. NodeInv(node', {}, {}) /\ node'.app = node.app
  <2> DEFINE X == {}
  <2>1. NodeInv(node, X, {}) /\ X \cap node.stored = {}
    BY DEF Inv
  <2> HIDE DEF X
  <2>2. NodeInv(node', X, {}) /\ Smaller(node', node)
    BY <1>1, <2>1, PrunedInv
  <2> QED
    BY <2>2 DEF X, Smaller
<1> QED
  BY <1>1, <1>2 DEF Inv, Rest, SameGiven, Given

LEMMA InitInv == ASSUME Init  PROVE Inv
<1>1. IsNode(node)
  <2>1. << >> \in Seq(Nodes) /\ << >> \in Seq(Answerers) /\ Len(<< >>) = 0
    OBVIOUS
  <2> QED
    BY <2>1, NoTicketType DEF Init, IsNode
<1>2. /\ node.stored = {} /\ node.locked = {} /\ node.routed = {}
      /\ \A b \in Bundles : node.ref[b] = 0 /\ node.flags[b] = {} /\ node.ticket[b] = NoTicket
      /\ \A b \in Bundles : node.app[b] = IF Header[b].src = Self THEN "new" ELSE "none"
  BY DEF Init
<1>3. NoTicket.to = None /\ ~NoTicket.reads
  BY DEF NoTicket
<1>4. Counted(node, {})
  BY <1>2, <1>3 DEF Counted, Held, One
<1>5. Ticketing(node, {}) /\ Locking(node) /\ Holding(node)
  BY <1>2, <1>3 DEF Ticketing, Locking, Holding
<1>6. IsQueue(queue) /\ Queued(node.app, queue)
  BY DEF Init, IsQueue, Queued
<1>7. Rest
  <2>1. reg \in [Blocks -> Registration]
    BY RegistrationAssumption DEF Init
  <2>2. ring \in Seq(Bundles) /\ Len(ring) = 0
    BY DEF Init
  <2>3. Len(ring) <= RingLen
    BY <2>2
  <2>4. expired = {} /\ nbrs = {} /\ awake = FALSE
    BY DEF Init
  <2> QED
    BY <2>1, <2>2, <2>3, <2>4 DEF Rest
<1> QED
  BY <1>1, <1>4, <1>5, <1>6, <1>7 DEF Inv, NodeInv

\* Every step of the node preserves the invariant, unless the convergence layer meets a
\* bundle that has expired while a service has it.
LEMMA NextInv == ASSUME Inv, "expired_held" \notin Faults, [Next]_vars  PROVE Inv'
<1>1. CASE AgentStep
  BY <1>1, AgentBeaconInv, AgentCallInv, AgentSendInv, AgentStoredInv, AgentDoneInv DEF AgentStep
<1>2. CASE RoutingPass
  BY <1>2, RoutingPassInv
<1>3. CASE Arrives
  BY <1>3, AppSendInv, ReceiveInv DEF Arrives
<1>4. CASE Topology
  BY <1>4, NeighbourUpInv, NeighbourDownInv DEF Topology
<1>5. CASE Called
  <2>1. PICK c \in AppCalls : AppCall(c[1], c[2])
    BY <1>5 DEF Called
  <2>2. c[1] \in Calls /\ c[2] \in Services
    BY EnvironmentAssumption
  <2> QED
    BY <2>1, <2>2, AppCallInv
<1>6. CASE Prune
  BY <1>6, PruneInv
<1>7. ASSUME NEW b \in Bundles, Works(b)  PROVE Inv'
  BY <1>7, ExpiredAttemptInv, UnencodedAttemptInv, AttemptInv DEF Works
<1>8. ASSUME NEW b \in Bundles, AppDone(b) \/ Expire(b)  PROVE Inv'
  BY <1>8, AppDoneInv, ExpireInv
<1>9. ASSUME NEW b \in Bundles, NEW status \in {"ok", "nack", "tempnack"}, Answer(b, status)
      PROVE  Inv'
  BY <1>9, AnswerInv
<1>10. CASE UNCHANGED vars
  BY <1>10 DEF vars, Inv, Rest
<1> QED
  BY <1>1, <1>2, <1>3, <1>4, <1>5, <1>6, <1>7, <1>8, <1>9, <1>10 DEF Next

(***************************************************************************)
(* The theorems                                                            *)
(***************************************************************************)
LEMMA SpecInv == ASSUME "expired_held" \notin Faults  PROVE Spec => []Inv
<1>1. Init => Inv
  BY InitInv
<1>2. Inv /\ [Next]_vars => Inv'
  BY NextInv
<1> QED
  BY <1>1, <1>2, PTL DEF Spec

\* Every count stays a natural number, every entry within its places, and every queue
\* and list within its bound.
THEOREM TypesHold == ASSUME "expired_held" \notin Faults  PROVE Spec => []TypeOK
<1>1. Inv => TypeOK
  BY DEF Inv, NodeInv, IsQueue, Events, Rest, TypeOK
<1> QED
  BY <1>1, SpecInv, PTL

\* The count of a bundle's slot is the number of those who will give it back, for any
\* number of bundles, in any order of deliveries, answers, failures and deletions.
THEOREM ReferencesAgree == ASSUME "expired_held" \notin Faults  PROVE Spec => []RefsAgree
<1>1. Inv => RefsAgree
  <2> SUFFICES ASSUME Inv, NEW b \in Bundles  PROVE RefAgrees(node, b)
    BY DEF RefsAgree
  <2>1. /\ node.ref[b] = One(b \in node.stored) + One(node.ticket[b].reads) + One(Held(node, b)) + One(b \in {})
        /\ node.ref[b] \in Nat /\ One(b \in {}) = 0
    BY DEF Inv, NodeInv, IsNode, Counted, One
  <2>2. \A condition : One(condition) \in Nat
    BY DEF One
  <2> QED
    BY <2>1, <2>2 DEF RefAgrees
<1> QED
  BY <1>1, SpecInv, PTL

\* Routing's flag and the convergence layer's ticket never disagree, so no bundle is
\* left in transit for ever, and no ticket outlives its bundle.
THEOREM TicketsAgree == ASSUME "expired_held" \notin Faults  PROVE Spec => []InTransitHasTicket
<1>1. Inv => InTransitHasTicket
  BY DEF Inv, NodeInv, Ticketing, Locking, InTransitHasTicket
<1> QED
  BY <1>1, SpecInv, PTL

\* A bundle that a service has is neither deleted nor handed out once more.
THEOREM GivenStays == ASSUME "expired_held" \notin Faults  PROVE Spec => []GivenIsLocked
<1>1. Inv => GivenIsLocked
  BY DEF Inv, NodeInv, Holding, Locking, GivenIsLocked, Given
<1> QED
  BY <1>1, SpecInv, PTL
=============================================================================
