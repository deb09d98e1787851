------------------------ MODULE BundleHistory_proofs ------------------------
(***************************************************************************)
(* Proofs about what has happened to a bundle: nobody is sent or given it  *)
(* again, it is kept until it is served, what is stored is announced, and  *)
(* a service is busy as long as it has a bundle.                           *)
(***************************************************************************)
EXTENDS BundleFlow_proofs, FiniteSetTheorems, WellFoundedInduction

(***************************************************************************)
(* What the history depends on: where a bundle is, what routing still      *)
(* wants to do with it, who has it and who has answered.                   *)
(***************************************************************************)
Records == [stored : SUBSET Bundles, locked : SUBSET Bundles, routed : SUBSET Bundles,
            ref : [Bundles -> Nat], flags : [Bundles -> SUBSET Flag],
            sentTo : [Bundles -> Seq(Nodes)], from : [Bundles -> Peers \cup {None}],
            ticket : [Bundles -> Ticket],
            app : [Bundles -> {"new", "sending", "none", "inbox", "done", "lost"}],
            answered : [Bundles -> Seq(Answerers)]]
Wants(s) == [c \in Bundles |-> s.flags[c] \cap {"local", "forward"}]
\* No ticket is given to a bundle, and no bundle to a service; nor is any bundle left
\* waiting for its announcement.
NothingGiven(s, t) ==
  \A c \in Bundles : /\ s.ticket[c].to = None => t.ticket[c].to = None
                     /\ Given(t, c) => Given(s, c)
Unannounced(s) == s.stored \ s.routed
NothingNew(s, t) == NothingGiven(s, t) /\ Unannounced(t) \subseteq Unannounced(s)
SamePast(s, t) ==
  /\ t.stored = s.stored /\ t.routed = s.routed /\ Wants(t) = Wants(s)
  /\ t.sentTo = s.sentTo /\ t.answered = s.answered
Same(s, t) == SamePast(s, t) /\ NothingNew(s, t)
\* Other flags of b.
Rewants(s, t, b, F) ==
  /\ NothingNew(s, t) /\ t.stored = s.stored /\ t.routed = s.routed
  /\ Wants(t) = [Wants(s) EXCEPT ![b] = F \cap {"local", "forward"}]
  /\ t.sentTo = s.sentTo /\ t.answered = s.answered
\* b is deleted.
Drops(s, t, b) ==
  /\ NothingNew(s, t) /\ t.stored = s.stored \ {b} /\ t.routed = s.routed \ {b}
  /\ Wants(t) = [Wants(s) EXCEPT ![b] = {}]
  /\ t.sentTo = [s.sentTo EXCEPT ![b] = <<>>] /\ t.answered = s.answered

LEMMA NodeIsRecord == ASSUME NEW s, IsNode(s)  PROVE s \in Records
  BY DEF IsNode, Records

LEMMA SameTrans == ASSUME NEW s, NEW t, NEW u, Same(s, t), Same(t, u)  PROVE Same(s, u)
  BY DEF Same, SamePast, NothingNew, NothingGiven, Unannounced

LEMMA NothingNewTrans ==
  ASSUME NEW s, NEW t, NEW u, NothingNew(s, t), NothingNew(t, u)  PROVE NothingNew(s, u)
  BY DEF NothingNew, NothingGiven, Unannounced

LEMMA NothingGivenTrans ==
  ASSUME NEW s, NEW t, NEW u, NothingGiven(s, t), NothingGiven(t, u)  PROVE NothingGiven(s, u)
  BY DEF NothingGiven

LEMMA SameAsItself == ASSUME NEW s  PROVE Same(s, s) /\ NothingNew(s, s)
  BY DEF Same, SamePast, NothingNew, NothingGiven, Unannounced

\* The functions a record is made of, with one value changed.
LEMMA RecordFields ==
  ASSUME NEW s \in Records, NEW b \in Bundles
  PROVE  /\ \A r \in Nat : [s.ref EXCEPT ![b] = r] \in [Bundles -> Nat]
         /\ s.ref[b] \in Nat /\ s.ticket[b] \in Ticket /\ s.flags[b] \in SUBSET Flag
         /\ s.sentTo[b] \in Seq(Nodes) /\ s.answered[b] \in Seq(Answerers)
         /\ Wants(s) \in [Bundles -> SUBSET {"local", "forward"}]
         /\ Wants(s)[b] = s.flags[b] \cap {"local", "forward"}
  BY DEF Records, Wants

LEMMA RefSame ==
  ASSUME NEW s \in Records, NEW b \in Bundles
  PROVE  /\ Inc(s, b) \in Records /\ Same(s, Inc(s, b)) /\ Inc(s, b).ticket = s.ticket
         /\ Inc(s, b).flags = s.flags /\ Inc(s, b).locked = s.locked
         /\ Dec(s, b) \in Records /\ Same(s, Dec(s, b)) /\ Dec(s, b).ticket = s.ticket
         /\ Dec(s, b).flags = s.flags /\ Dec(s, b).locked = s.locked
<1>1. /\ [s.ref EXCEPT ![b] = @ + 1] \in [Bundles -> Nat]
      /\ [s.ref EXCEPT ![b] = Lower(@)] \in [Bundles -> Nat]
  BY DEF Records, Lower
<1>2. Inc(s, b) \in Records /\ Dec(s, b) \in Records
  BY <1>1 DEF Records, Inc, Dec
<1> QED
  BY <1>2 DEF Records, Same, SamePast, NothingNew, NothingGiven, Unannounced, Given, Wants, Inc, Dec

LEMMA TicketSame ==
  ASSUME NEW s \in Records, NEW b \in Bundles, NEW tk \in Ticket,
         tk.to # None => s.ticket[b].to # None
  PROVE  /\ PutTicket(s, b, tk) \in Records /\ Same(s, PutTicket(s, b, tk))
         /\ PutTicket(s, b, tk).ticket = [s.ticket EXCEPT ![b] = tk]
         /\ PutTicket(s, b, tk).flags = s.flags /\ PutTicket(s, b, tk).locked = s.locked
  BY DEF Records, Same, SamePast, NothingNew, NothingGiven, Unannounced, Given, Wants, PutTicket

LEMMA AppSame ==
  ASSUME NEW s \in Records, NEW b \in Bundles,
         NEW a \in {"new", "sending", "none", "inbox", "done", "lost"},
         a \in {"inbox", "done"} => Given(s, b)
  PROVE  /\ PutApp(s, b, a) \in Records /\ Same(s, PutApp(s, b, a))
         /\ PutApp(s, b, a).flags = s.flags /\ PutApp(s, b, a).ticket = s.ticket
         /\ PutApp(s, b, a).app = [s.app EXCEPT ![b] = a]
  BY DEF Records, Same, SamePast, NothingNew, NothingGiven, Unannounced, Given, Wants, PutApp

LEMMA FromSame ==
  ASSUME NEW s \in Records, NEW b \in Bundles, NEW n \in Peers \cup {None}
  PROVE  SetFrom(s, b, n) \in Records /\ Same(s, SetFrom(s, b, n))
  BY DEF Records, Same, SamePast, NothingNew, NothingGiven, Unannounced, Given, Wants, SetFrom

LEMMA FreeTicketSame ==
  ASSUME NEW s \in Records, NEW b \in Bundles
  PROVE  /\ FreeTicket(s, b) \in Records /\ Same(s, FreeTicket(s, b))
         /\ FreeTicket(s, b).flags = s.flags /\ FreeTicket(s, b).locked = s.locked
<1> DEFINE t == PutTicket(s, b, NoTicket)
<1>1. t \in Records /\ Same(s, t) /\ t.flags = s.flags /\ t.locked = s.locked
  BY TicketSame, NoTicketType DEF NoTicket
<1> HIDE DEF t
<1>2. /\ Dec(t, b) \in Records /\ Same(t, Dec(t, b))
      /\ Dec(t, b).flags = t.flags /\ Dec(t, b).locked = t.locked
  BY <1>1, RefSame
<1>3. FreeTicket(s, b) \in {t, Dec(t, b)}
  BY DEF FreeTicket, t
<1> QED
  BY <1>1, <1>2, <1>3, SameTrans

LEMMA FlagsRewant ==
  ASSUME NEW s \in Records, NEW b \in Bundles, NEW F \in SUBSET Flag
  PROVE  /\ PutFlags(s, b, F) \in Records /\ Rewants(s, PutFlags(s, b, F), b, F)
         /\ PutFlags(s, b, F).flags = [s.flags EXCEPT ![b] = F]
         /\ PutFlags(s, b, F).ticket = s.ticket /\ PutFlags(s, b, F).locked = s.locked
  BY DEF Records, Rewants, NothingNew, NothingGiven, Unannounced, Given, Wants, PutFlags

LEMMA ForgetDrops ==
  ASSUME NEW s \in Records, NEW b \in Bundles
  PROVE  Forget(s, b) \in Records /\ Drops(s, Forget(s, b), b)
<1> DEFINE t == FreeTicket(s, b)
           f == PutFlags(t, b, {})
           u == Unroute(t, b)
           d == Dec(u, b)
<1>1. t \in Records /\ Same(s, t)
  BY FreeTicketSame
<1> HIDE DEF t
<1>2. f \in Records /\ Rewants(t, f, b, {})
  BY <1>1, FlagsRewant
<1>3. u = [f EXCEPT !.routed = @ \ {b}, !.sentTo = [t.sentTo EXCEPT ![b] = <<>>]]
  BY DEF Unroute
<1> HIDE DEF f, u
<1>4. [t.sentTo EXCEPT ![b] = <<>>] \in [Bundles -> Seq(Nodes)]
  <2>1. <<>> \in Seq(Nodes) /\ t.sentTo \in [Bundles -> Seq(Nodes)]
    BY <1>1 DEF Records
  <2> QED
    BY <2>1
<1>5. /\ NothingGiven(f, u) /\ u \in Records /\ u.stored = f.stored /\ u.routed = f.routed \ {b} /\ Wants(u) = Wants(f)
      /\ u.sentTo = [t.sentTo EXCEPT ![b] = <<>>] /\ u.answered = f.answered
  BY <1>2, <1>3, <1>4 DEF Records, Wants, NothingGiven, Given
<1>6. d \in Records /\ Same(u, d)
  BY <1>5, RefSame
<1>7. Forget(s, b) = [d EXCEPT !.stored = @ \ {b}]
  BY DEF Forget, t, u
<1> HIDE DEF d
<1> DEFINE g == Forget(s, b)
<1>8. /\ NothingGiven(d, g) /\ g \in Records /\ g.stored = d.stored \ {b} /\ g.routed = d.routed /\ g.flags = d.flags
      /\ g.sentTo = d.sentTo /\ g.answered = d.answered
  <2>1. g = [d EXCEPT !.stored = @ \ {b}]
    BY <1>7
  <2> HIDE DEF g
  <2>2. /\ g \in Records /\ g.stored = d.stored \ {b} /\ g.routed = d.routed /\ g.flags = d.flags
        /\ g.sentTo = d.sentTo /\ g.answered = d.answered
        /\ g.ticket = d.ticket /\ g.app = d.app
    BY <1>6, <2>1 DEF Records
  <2>3. NothingGiven(d, g)
    BY <2>2 DEF NothingGiven, Given
  <2> QED
    BY <2>2, <2>3
<1> HIDE DEF g
<1>9. Drops(s, g, b)
  <2>1. Wants(g) = Wants(d)
    BY <1>8 DEF Wants
  <2>2. NothingGiven(s, g)
    BY <1>1, <1>2, <1>5, <1>6, <1>8, NothingGivenTrans DEF Same, Rewants, NothingNew
  <2> QED
    BY <1>1, <1>2, <1>5, <1>6, <1>8, <2>1, <2>2 DEF Same, SamePast, Rewants, Drops, NothingNew, Unannounced
<1> QED
  BY <1>8, <1>9 DEF g

\* A bundle is deleted, or it is not.
MayDrop(s, t, b) == Same(s, t) \/ (b \in s.stored /\ Drops(s, t, b))

LEMMA DeleteMayDrop ==
  ASSUME NEW s \in Records, NEW b \in Bundles
  PROVE  /\ Delete(s, b) \in Records /\ MayDrop(s, Delete(s, b), b)
         /\ b \in s.stored \ s.locked => Drops(s, Delete(s, b), b)
<1>1. Same(s, s)
  BY SameAsItself
<1> QED
  BY <1>1, ForgetDrops DEF Delete, MayDrop

LEMMA CheckKeepMayDrop ==
  ASSUME NEW s \in Records, NEW b \in Bundles
  PROVE  /\ CheckKeep(s, b) \in Records
         /\ \/ Same(s, CheckKeep(s, b))
            \/ /\ Drops(s, CheckKeep(s, b), b)
               /\ b \in s.stored \cap s.routed /\ Wants(s)[b] = {}
<1>1. Same(s, s) /\ Wants(s)[b] = s.flags[b] \cap {"local", "forward"}
  BY RecordFields, SameAsItself
<1> QED
  BY <1>1, DeleteMayDrop DEF CheckKeep, MayDrop

(***************************************************************************)
(* The invariant.  A bundle is forwarded as long as all peers that have    *)
(* answered have a place in its entry and none of them is its destination, *)
(* and is delivered here as long as this node is not among its receivers.  *)
(***************************************************************************)
Past(s, c) ==
  /\ c \notin s.routed => Wants(s)[c] = {} /\ s.sentTo[c] = <<>>
  /\ c \in s.stored \ s.routed => s.answered[c] = <<>>
  /\ c \in s.routed =>
       /\ c \in Recorded => Len(s.sentTo[c]) <= Len(s.answered[c])
       /\ "forward" \in Wants(s)[c] =>
            \A n \in Range(s.answered[c]) \cap Peers : n \in Range(s.sentTo[c]) /\ n # Header[c].dst
       /\ "local" \in Wants(s)[c] => Self \notin Range(s.answered[c])
History(s) == s.routed \subseteq s.stored /\ \A c \in Bundles : Past(s, c)
Fits(s) == IsFiniteSet(s.stored) /\ Cardinality(s.stored) <= StoreSize

LEMMA SameHistory ==
  ASSUME NEW s, NEW t, SamePast(s, t), History(s)
  PROVE  History(t)
  BY DEF SamePast, History, Past

LEMMA DropsHistory ==
  ASSUME NEW s \in Records, NEW t, NEW b \in Bundles, Drops(s, t, b), History(s)
  PROVE  History(t)
<1>1. t.routed \subseteq t.stored
  BY DEF Drops, History
<1>2. /\ Wants(s) \in [Bundles -> SUBSET {"local", "forward"}]
      /\ s.sentTo \in [Bundles -> Seq(Nodes)]
  BY RecordFields DEF Records
<1> SUFFICES ASSUME NEW c \in Bundles  PROVE Past(t, c)
  BY <1>1 DEF History
<1>3. Past(s, c)
  BY DEF History
<1>4. CASE c = b
  BY <1>2, <1>4 DEF Drops, Past
<1>5. CASE c # b
  <2>1. /\ Wants(t)[c] = Wants(s)[c] /\ t.sentTo[c] = s.sentTo[c] /\ t.answered[c] = s.answered[c]
        /\ c \in t.stored <=> c \in s.stored
        /\ c \in t.routed <=> c \in s.routed
    BY <1>2, <1>5 DEF Drops
  <2> QED
    BY <1>3, <2>1 DEF Past
<1> QED
  BY <1>4, <1>5

\* One bundle less.
LEMMA DropsFits ==
  ASSUME NEW s, NEW t, NEW b, b \in s.stored, Drops(s, t, b), Fits(s)
  PROVE  Fits(t) /\ Cardinality(t.stored) = Cardinality(s.stored) - 1
<1>1. IsFiniteSet(s.stored) /\ Cardinality(s.stored) \in Nat
  BY FS_CardinalityType DEF Fits
<1>2. IsFiniteSet(t.stored) /\ Cardinality(t.stored) = Cardinality(s.stored) - 1
  BY <1>1, FS_RemoveElement DEF Drops
<1> QED
  BY <1>1, <1>2, SizeAssumption DEF Fits

LEMMA MayDropHistory ==
  ASSUME NEW s \in Records, NEW t, NEW b \in Bundles, MayDrop(s, t, b), History(s), Fits(s)
  PROVE  /\ History(t) /\ Fits(t) /\ NothingNew(s, t) /\ t.answered = s.answered
         /\ t.stored \subseteq s.stored /\ s.stored \ t.stored \subseteq {b}
<1>1. CASE Same(s, t)
  BY <1>1, SameHistory DEF Same, SamePast, Fits
<1>2. CASE b \in s.stored /\ Drops(s, t, b)
  BY <1>2, DropsHistory, DropsFits DEF Drops
<1> QED
  BY <1>1, <1>2 DEF MayDrop

(***************************************************************************)
(* Storage                                                                 *)
(***************************************************************************)
LEMMA PrunedHistory ==
  ASSUME NEW s \in Records, History(s), Fits(s), NEW t \in Pruned(s)
  PROVE  /\ t \in Records /\ History(t) /\ Fits(t)
         /\ t.stored \subseteq s.stored /\ s.stored \ t.stored \subseteq expired
         /\ NothingNew(s, t) /\ t.answered = s.answered
<1>1. CASE t = s
  BY <1>1, SameAsItself
<1>2. ASSUME NEW b \in Overdue(s), t = Delete(s, b)
      PROVE  /\ t \in Records /\ History(t) /\ Fits(t)
             /\ t.stored \subseteq s.stored /\ s.stored \ t.stored \subseteq expired
             /\ NothingNew(s, t) /\ t.answered = s.answered
  <2>1. b \in Bundles /\ b \in expired
    BY DEF Overdue, Records
  <2>2. t \in Records /\ MayDrop(s, t, b)
    BY <1>2, <2>1, DeleteMayDrop
  <2> QED
    BY <2>1, <2>2, MayDropHistory
<1> QED
  BY <1>1, <1>2 DEF Pruned

\* Why c had to go when b came.
Yields(s, c, b) ==
  c \in expired \/ (Cardinality(s.stored) = StoreSize /\ Header[c].prio <= Header[b].prio)

LEMMA MadeRoomHistory ==
  ASSUME NEW s \in Records, History(s), Fits(s), NEW b \in Bundles, NEW r \in MadeRoom(s, b)
  PROVE  /\ r.node \in Records /\ History(r.node) /\ Fits(r.node) /\ r.node.stored \subseteq s.stored
         /\ NothingNew(s, r.node) /\ r.node.answered = s.answered /\ (r.ok => Cardinality(r.node.stored) < StoreSize)
         /\ \A c \in s.stored \ r.node.stored : Yields(s, c, b)
<1>1. PICK p \in Pruned(s) :
        r \in IF Cardinality(p.stored) < StoreSize THEN {Room(p, TRUE)}
              ELSE {Room(p, FALSE)} \cup {Room(Delete(p, v), TRUE) : v \in Victims(p, b)}
  BY DEF MadeRoom
<1>2. /\ p \in Records /\ History(p) /\ Fits(p)
      /\ p.stored \subseteq s.stored /\ s.stored \ p.stored \subseteq expired /\ NothingNew(s, p)
      /\ p.answered = s.answered
  BY PrunedHistory
<1>3. CASE r = Room(p, FALSE) \/ (Cardinality(p.stored) < StoreSize /\ r = Room(p, TRUE))
  BY <1>2, <1>3 DEF Room, Yields
<1>4. ASSUME ~(Cardinality(p.stored) < StoreSize), NEW v \in Victims(p, b),
             r = Room(Delete(p, v), TRUE)
      PROVE  /\ r.node \in Records /\ History(r.node) /\ Fits(r.node) /\ r.node.stored \subseteq s.stored
             /\ NothingNew(s, r.node) /\ r.node.answered = s.answered /\ (r.ok => Cardinality(r.node.stored) < StoreSize)
             /\ \A c \in s.stored \ r.node.stored : Yields(s, c, b)
  <2> DEFINE t == Delete(p, v)
  <2>1. v \in Bundles /\ v \in p.stored \ p.locked /\ Header[v].prio <= Header[b].prio
    BY <1>2 DEF Victims, Records
  <2>2. t \in Records /\ Drops(p, t, v)
    BY <1>2, <2>1, DeleteMayDrop
  <2>3. r.node = t
    BY <1>4 DEF Room
  <2> HIDE DEF t
  <2>4. History(t) /\ Fits(t) /\ Cardinality(t.stored) = Cardinality(p.stored) - 1
    BY <1>2, <2>1, <2>2, DropsHistory, DropsFits
  <2>5. Cardinality(p.stored) \in Nat /\ Cardinality(p.stored) = StoreSize
    BY <1>2, <1>4, FS_CardinalityType, SizeAssumption DEF Fits
  <2>6. Cardinality(s.stored) = StoreSize
    <3>1. Cardinality(s.stored) \in Nat /\ Cardinality(p.stored) <= Cardinality(s.stored)
      BY <1>2, FS_Subset, FS_CardinalityType DEF Fits
    <3> QED
      BY <2>5, <3>1, SizeAssumption DEF Fits
  <2>7. t.stored = p.stored \ {v} /\ NothingNew(s, t) /\ t.answered = p.answered
    BY <1>2, <2>2, NothingNewTrans DEF Drops
  <2>8. Cardinality(t.stored) < StoreSize
    BY <2>4, <2>5, SizeAssumption
  <2> QED
    BY <1>2, <2>1, <2>2, <2>3, <2>4, <2>6, <2>7, <2>8 DEF Yields
<1> QED
  BY <1>1, <1>3, <1>4

LEMMA StoredHistory ==
  ASSUME NEW s \in Records, History(s), Fits(s), Cardinality(s.stored) < StoreSize,
         NEW b \in Bundles, b \notin s.stored
  PROVE  /\ Stored(s, b) \in Records /\ History(Stored(s, b)) /\ Fits(Stored(s, b))
         /\ Stored(s, b).stored = s.stored \cup {b} /\ NothingGiven(s, Stored(s, b))
         /\ \A c \in Bundles : c # b => Stored(s, b).answered[c] = s.answered[c]
<1> DEFINE t == Stored(s, b)
<1>1. /\ [s.ref EXCEPT ![b] = 1] \in [Bundles -> Nat]
      /\ [s.answered EXCEPT ![b] = <<>>] \in [Bundles -> Seq(Answerers)]
      /\ s.stored \cup {b} \in SUBSET Bundles
  <2>1. /\ <<>> \in Seq(Answerers) /\ s.answered \in [Bundles -> Seq(Answerers)]
        /\ s.ref \in [Bundles -> Nat] /\ s.stored \in SUBSET Bundles
    BY DEF Records
  <2> QED
    BY <2>1
<1>2. /\ NothingGiven(s, t)
      /\ t \in Records /\ t.stored = s.stored \cup {b} /\ t.routed = s.routed /\ Wants(t) = Wants(s)
      /\ t.sentTo = s.sentTo /\ t.answered = [s.answered EXCEPT ![b] = <<>>]
  BY <1>1 DEF Records, Wants, NothingGiven, Given, Stored
<1>3. IsFiniteSet(s.stored) /\ Cardinality(s.stored) \in Nat
  BY FS_CardinalityType DEF Fits
<1> HIDE DEF t
<1>4. Fits(t)
  <2> DEFINE S == s.stored \cup {b}
  <2>1. IsFiniteSet(S) /\ Cardinality(S) = Cardinality(s.stored) + 1
    BY <1>3, FS_AddElement
  <2>2. t.stored = S
    BY <1>2
  <2> HIDE DEF S
  <2> QED
    BY <1>3, <2>1, <2>2, SizeAssumption DEF Fits
<1>5. History(t)
  <2>1. t.routed \subseteq t.stored /\ b \notin t.routed
    BY <1>2 DEF History
  <2> SUFFICES ASSUME NEW c \in Bundles  PROVE Past(t, c)
    BY <2>1 DEF History
  <2>2. Past(s, c) /\ s.answered \in [Bundles -> Seq(Answerers)]
    BY DEF History, Records
  <2>3. CASE c = b
    BY <1>2, <2>1, <2>2, <2>3 DEF Past
  <2>4. CASE c # b
    <3>1. t.answered[c] = s.answered[c] /\ (c \in t.stored <=> c \in s.stored)
      BY <1>2, <2>2, <2>4
    <3> QED
      BY <1>2, <2>2, <3>1 DEF Past
  <2> QED
    BY <2>3, <2>4
<1> QED
  BY <1>2, <1>4, <1>5 DEF t

LEMMA SavedHistory ==
  ASSUME NEW s \in Records, History(s), Fits(s), NEW b \in Bundles, b \notin s.stored,
         NEW r \in Saved(s, b)
  PROVE  /\ r.node \in Records /\ History(r.node) /\ Fits(r.node)
         /\ r.ok => b \in r.node.stored \ r.node.routed
         /\ r.node.stored \subseteq s.stored \cup {b}
         /\ NothingGiven(s, r.node) /\ (~r.ok => NothingNew(s, r.node))
         /\ ~r.ok => r.node.stored \subseteq s.stored
         /\ Unannounced(r.node) \subseteq Unannounced(s) \cup {b}
         /\ \A c \in Bundles : (~r.ok \/ c # b) => r.node.answered[c] = s.answered[c]
         /\ \A c \in s.stored \ r.node.stored : Yields(s, c, b)
<1>1. PICK m \in MadeRoom(s, b) :
        r \in IF ~m.ok THEN {m}
              ELSE {Room(Stored(m.node, b), TRUE)}
                   \cup IF "no_memory" \in Faults THEN {Room(m.node, FALSE)} ELSE {}
  BY DEF Saved
<1>2. /\ m.node \in Records /\ History(m.node) /\ Fits(m.node) /\ m.node.stored \subseteq s.stored
      /\ NothingNew(s, m.node) /\ m.node.answered = s.answered /\ (m.ok => Cardinality(m.node.stored) < StoreSize)
      /\ \A c \in s.stored \ m.node.stored : Yields(s, c, b)
  BY MadeRoomHistory
<1>3. CASE ~m.ok /\ r = m
  BY <1>2, <1>3 DEF NothingNew
<1>4. CASE r = Room(m.node, FALSE)
  BY <1>2, <1>4 DEF Room, NothingNew
<1>5. CASE m.ok /\ r = Room(Stored(m.node, b), TRUE)
  <2>1. r.node = Stored(m.node, b) /\ b \notin m.node.stored
    BY <1>2, <1>5 DEF Room
  <2>2. /\ Stored(m.node, b) \in Records /\ History(Stored(m.node, b)) /\ Fits(Stored(m.node, b))
        /\ Stored(m.node, b).stored = m.node.stored \cup {b} /\ NothingGiven(m.node, Stored(m.node, b))
        /\ \A c \in Bundles : c # b => Stored(m.node, b).answered[c] = m.node.answered[c]
    BY <1>2, <1>5, <2>1, StoredHistory
  <2>3. b \notin m.node.routed /\ Stored(m.node, b).routed = m.node.routed
    BY <1>2, <2>1 DEF History, Records, Stored
  <2>4. r.ok
    BY <1>5 DEF Room
  <2> QED
    BY <1>2, <2>1, <2>2, <2>3, <2>4, NothingGivenTrans DEF NothingNew, Unannounced
<1> QED
  BY <1>1, <1>3, <1>4, <1>5

(***************************************************************************)
(* Answers                                                                 *)
(***************************************************************************)
LEMMA RangeOfAppend ==
  ASSUME NEW S, NEW q \in Seq(S), NEW x \in S
  PROVE  /\ Range(Append(q, x)) = Range(q) \cup {x} /\ Append(q, x) \in Seq(S)
         /\ Len(Append(q, x)) = Len(q) + 1 /\ Len(q) \in Nat
<1> DEFINE r == Append(q, x)
<1>1. r \in Seq(S) /\ Len(r) = Len(q) + 1 /\ Len(q) \in Nat
  OBVIOUS
<1>2. DOMAIN q = 1 .. Len(q) /\ DOMAIN r = 1 .. Len(q) + 1
  OBVIOUS
<1>3. \A i \in DOMAIN q : i \in DOMAIN r /\ r[i] = q[i]
  OBVIOUS
<1>4. Len(q) + 1 \in DOMAIN r /\ r[Len(q) + 1] = x
  OBVIOUS
<1> HIDE DEF r
<1>5. Range(r) \subseteq Range(q) \cup {x}
  <2> SUFFICES ASSUME NEW i \in DOMAIN r  PROVE r[i] \in Range(q) \cup {x}
    BY DEF Range
  <2>1. i \in DOMAIN q \/ i = Len(q) + 1
    BY <1>1, <1>2
  <2> QED
    BY <1>3, <1>4, <2>1 DEF Range
<1>6. Range(q) \cup {x} \subseteq Range(r)
  BY <1>3, <1>4 DEF Range
<1> QED
  BY <1>1, <1>5, <1>6 DEF r

\* Nothing changes but what is known of b.
Others(s, t, b) ==
  /\ t.stored = s.stored /\ t.routed = s.routed /\ NothingNew(s, t)
  /\ \A c \in Bundles : c # b => /\ Wants(t)[c] = Wants(s)[c] /\ t.sentTo[c] = s.sentTo[c]
                                 /\ t.answered[c] = s.answered[c]

LEMMA OthersHistory ==
  ASSUME NEW s, NEW t, NEW b \in Bundles, Others(s, t, b), History(s), Past(t, b)
  PROVE  History(t)
<1>1. t.routed \subseteq t.stored
  BY DEF Others, History
<1> SUFFICES ASSUME NEW c \in Bundles, c # b  PROVE Past(t, c)
  BY <1>1 DEF History
<1>2. Past(s, c)
  BY DEF History
<1> QED
  BY <1>2 DEF Others, Past

LEMMA RewantsOthers ==
  ASSUME NEW s \in Records, NEW t, NEW b \in Bundles, NEW F, Rewants(s, t, b, F)
  PROVE  /\ Others(s, t, b) /\ Wants(t)[b] = F \cap {"local", "forward"}
         /\ t.sentTo = s.sentTo /\ t.answered = s.answered
<1>1. Wants(s) \in [Bundles -> SUBSET {"local", "forward"}]
  BY RecordFields
<1> QED
  BY <1>1 DEF Rewants, Others

\* An answer of n is remembered.
LEMMA AnsweredOthers ==
  ASSUME NEW s \in Records, NEW b \in Bundles, NEW n \in Answerers
  PROVE  LET t == Answered(s, b, n)
         IN /\ t \in Records /\ Others(s, t, b)
            /\ Wants(t)[b] = Wants(s)[b] /\ t.sentTo = s.sentTo /\ t.flags = s.flags
            /\ t.ticket = s.ticket /\ t.locked = s.locked
            /\ Range(t.answered[b]) \subseteq Range(s.answered[b]) \cup {n}
            /\ Len(t.answered[b]) \in Nat /\ Len(t.answered[b]) >= Len(s.answered[b])
            /\ b \in Recorded => \/ /\ Len(t.answered[b]) = Len(s.answered[b]) + 1
                                    /\ n \in Range(t.answered[b])
                                 \/ n = None /\ Len(t.answered[b]) > NeiMem
<1> DEFINE t == Answered(s, b, n)
           q == Append(s.answered[b], n)
<1>1. s.answered[b] \in Seq(Answerers) /\ Len(s.answered[b]) \in Nat
  BY RecordFields
<1>2. /\ q \in Seq(Answerers) /\ Len(q) = Len(s.answered[b]) + 1
      /\ Range(q) = Range(s.answered[b]) \cup {n}
  BY <1>1, RangeOfAppend
<1>3. CASE b \notin Recorded \/ (n = None /\ Len(s.answered[b]) > NeiMem)
  <2>1. t = s /\ NothingNew(s, s)
    BY <1>3, SameAsItself DEF Answered
  <2> QED
    BY <1>1, <1>3, <2>1 DEF Others
<1>4. CASE ~(b \notin Recorded \/ (n = None /\ Len(s.answered[b]) > NeiMem))
  <2>1. t = [s EXCEPT !.answered = [s.answered EXCEPT ![b] = q]]
    BY <1>4 DEF Answered
  <2> HIDE DEF t, q
  <2>2. [s.answered EXCEPT ![b] = q] \in [Bundles -> Seq(Answerers)]
    BY <1>2 DEF Records
  <2>3. /\ t \in Records /\ t.stored = s.stored /\ t.routed = s.routed /\ t.flags = s.flags
        /\ t.sentTo = s.sentTo /\ t.answered = [s.answered EXCEPT ![b] = q]
        /\ t.ticket = s.ticket /\ t.locked = s.locked /\ t.app = s.app
    BY <2>1, <2>2 DEF Records
  <2>4. Wants(t) = Wants(s) /\ NothingNew(s, t)
    BY <2>3 DEF Wants, NothingNew, NothingGiven, Unannounced, Given
  <2>5. t.answered[b] = q /\ \A c \in Bundles : c # b => t.answered[c] = s.answered[c]
    BY <2>2, <2>3 DEF Records
  <2> HIDE DEF t
  <2>6. Others(s, t, b)
    BY <2>3, <2>4, <2>5 DEF Others
  <2> QED
    BY <1>1, <1>2, <2>3, <2>4, <2>5, <2>6 DEF t
<1> QED
  BY <1>3, <1>4

LEMMA ReceiverOthers ==
  ASSUME NEW s \in Records, NEW b \in Bundles, NEW n \in Nodes
  PROVE  LET t == NoteReceiver(s, b, n)
         IN /\ t \in Records /\ Others(s, t, b)
            /\ Wants(t) = Wants(s) /\ t.answered = s.answered /\ t.flags = s.flags
            /\ Range(t.sentTo[b]) = Range(s.sentTo[b]) \cup {n}
            /\ Len(t.sentTo[b]) = Len(s.sentTo[b]) + 1 /\ Len(s.sentTo[b]) \in Nat
<1> DEFINE t == NoteReceiver(s, b, n)
           q == Append(s.sentTo[b], n)
<1>1. s.sentTo[b] \in Seq(Nodes) /\ s.sentTo \in [Bundles -> Seq(Nodes)]
  BY RecordFields DEF Records
<1>2. /\ q \in Seq(Nodes) /\ Len(q) = Len(s.sentTo[b]) + 1 /\ Len(s.sentTo[b]) \in Nat
      /\ Range(q) = Range(s.sentTo[b]) \cup {n}
  BY <1>1, RangeOfAppend
<1>3. t = [s EXCEPT !.sentTo = [s.sentTo EXCEPT ![b] = q]]
  BY DEF NoteReceiver
<1> HIDE DEF t, q
<1>4. [s.sentTo EXCEPT ![b] = q] \in [Bundles -> Seq(Nodes)]
  BY <1>1, <1>2
<1>5. /\ t \in Records /\ t.stored = s.stored /\ t.routed = s.routed /\ t.flags = s.flags
      /\ t.answered = s.answered /\ t.sentTo = [s.sentTo EXCEPT ![b] = q]
      /\ t.ticket = s.ticket /\ t.app = s.app
  BY <1>3, <1>4 DEF Records
<1>6. Wants(t) = Wants(s) /\ NothingNew(s, t)
  BY <1>5 DEF Wants, NothingNew, NothingGiven, Unannounced, Given
<1>7. t.sentTo[b] = q /\ \A c \in Bundles : c # b => t.sentTo[c] = s.sentTo[c]
  BY <1>1, <1>5
<1>8. Others(s, t, b)
  BY <1>5, <1>6, <1>7 DEF Others
<1> QED
  BY <1>2, <1>5, <1>6, <1>7, <1>8 DEF t

LEMMA AnnounceHistory ==
  ASSUME NEW s \in Records, NEW b \in Bundles, History(s), CanAnnounce(s, b)
  PROVE  LET t == Announce(s, b)
         IN History(t) /\ t.stored = s.stored /\ t.routed = s.routed \cup {b} /\ NothingNew(s, t)
<1> DEFINE t == Announce(s, b)
           f == PutFlags(s, b, FreshFlags(b))
<1>1. FreshFlags(b) \in SUBSET Flag
  BY FreshFlagsType
<1>2. f \in Records /\ Rewants(s, f, b, FreshFlags(b))
  BY <1>1, FlagsRewant
<1>3. t = [f EXCEPT !.routed = @ \cup {b}]
  BY DEF Announce
<1> HIDE DEF t, f
<1>4. /\ t.stored = f.stored /\ t.routed = f.routed \cup {b} /\ t.flags = f.flags
      /\ t.sentTo = f.sentTo /\ t.answered = f.answered /\ NothingNew(f, t)
  BY <1>2, <1>3 DEF Records, NothingNew, NothingGiven, Unannounced, Given
<1>5. Wants(t) = Wants(f) /\ Others(s, f, b) /\ f.sentTo = s.sentTo /\ f.answered = s.answered
  BY <1>2, <1>4, RewantsOthers DEF Wants
<1>6. /\ t.stored = s.stored /\ t.routed = s.routed \cup {b} /\ NothingNew(s, t)
      /\ t.sentTo = s.sentTo /\ t.answered = s.answered
      /\ \A c \in Bundles : c # b => Wants(t)[c] = Wants(s)[c]
  BY <1>4, <1>5, NothingNewTrans DEF Others
<1>7. b \in s.stored \ s.routed /\ Past(s, b) /\ s.routed \subseteq s.stored
  BY DEF CanAnnounce, History
<1>8. s.answered[b] = <<>> /\ s.sentTo[b] = <<>>
  BY <1>7 DEF Past
<1>9. Len(<<>>) <= Len(<<>>) /\ Range(<<>>) = {}
  BY DEF Range
<1>10. ASSUME NEW c \in Bundles  PROVE Past(t, c)
  <2>1. CASE c = b
    BY <1>6, <1>8, <1>9, <2>1 DEF Past
  <2>2. CASE c # b
    <3>1. Past(s, c)
      BY DEF History
    <3> QED
      BY <1>6, <2>2, <3>1 DEF Past
  <2> QED
    BY <2>1, <2>2
<1> QED
  BY <1>6, <1>7, <1>10 DEF History, t

LEMMA OthersTrans ==
  ASSUME NEW s, NEW t, NEW u, NEW b, Others(s, t, b), Others(t, u, b)
  PROVE  Others(s, u, b)
  BY NothingNewTrans DEF Others

LEMMA CheckKeepHistory ==
  ASSUME NEW s \in Records, NEW b \in Bundles, History(s)
  PROVE  LET t == CheckKeep(s, b)
         IN /\ t \in Records /\ History(t) /\ NothingNew(s, t) /\ t.answered = s.answered
            /\ t.stored \subseteq s.stored /\ s.stored \ t.stored \subseteq {b}
            /\ b \in s.stored \ t.stored => b \in s.routed /\ Wants(s)[b] = {}
<1> DEFINE t == CheckKeep(s, b)
<1>1. /\ t \in Records
      /\ \/ Same(s, t)
         \/ Drops(s, t, b) /\ b \in s.stored \cap s.routed /\ Wants(s)[b] = {}
  BY CheckKeepMayDrop
<1> HIDE DEF t
<1>2. History(t)
  BY <1>1, SameHistory, DropsHistory DEF Same
<1>3. /\ NothingNew(s, t) /\ t.answered = s.answered
      /\ t.stored = s.stored \/ t.stored = s.stored \ {b}
  BY <1>1 DEF Same, SamePast, Drops
<1>4. b \in s.stored \ t.stored => b \in s.routed /\ Wants(s)[b] = {}
  BY <1>1 DEF Same, SamePast
<1> QED
  BY <1>1, <1>2, <1>3, <1>4 DEF t

\* s is u with an answer about b; the bundle is forwarded no more.
LEMMA StopForwardingHistory ==
  ASSUME NEW u \in Records, NEW s \in Records, NEW b \in Bundles, History(u), Others(u, s, b),
         b \in u.routed, Len(s.sentTo[b]) <= Len(s.answered[b]) \/ b \notin Recorded,
         "local" \in Wants(s)[b] => Self \notin Range(s.answered[b])
  PROVE  LET t == StopForwarding(s, b)
         IN /\ t \in Records /\ History(t) /\ NothingNew(u, t) /\ t.answered = s.answered
            /\ t.stored \subseteq u.stored /\ u.stored \ t.stored \subseteq {b}
            /\ b \in u.stored \ t.stored => Wants(s)[b] \subseteq {"forward"}
<1> DEFINE F == s.flags[b] \ {"forward"}
           v == PutFlags(s, b, F)
           t == CheckKeep(v, b)
<1>1. F \in SUBSET Flag /\ Wants(s)[b] = s.flags[b] \cap {"local", "forward"}
  BY RecordFields
<1>2. F \cap {"local", "forward"} = Wants(s)[b] \ {"forward"}
  BY <1>1
<1> HIDE DEF F
<1>3. v \in Records /\ Rewants(s, v, b, F)
  BY <1>1, FlagsRewant
<1> HIDE DEF v
<1>4. /\ Others(s, v, b) /\ Wants(v)[b] = Wants(s)[b] \ {"forward"}
      /\ v.sentTo = s.sentTo /\ v.answered = s.answered
  BY <1>2, <1>3, RewantsOthers
<1>5. Others(u, v, b)
  BY <1>4, OthersTrans
<1>6. b \in v.routed /\ b \in v.stored
  BY <1>5 DEF Others, History
<1>7. Past(v, b)
  BY <1>4, <1>6 DEF Past
<1>8. History(v)
  BY <1>5, <1>7, OthersHistory
<1>9. /\ t \in Records /\ History(t) /\ NothingNew(v, t) /\ t.answered = v.answered
      /\ t.stored \subseteq v.stored /\ v.stored \ t.stored \subseteq {b}
      /\ b \in v.stored \ t.stored => Wants(v)[b] = {}
  BY <1>3, <1>8, CheckKeepHistory
<1>10. StopForwarding(s, b) = t
  BY DEF StopForwarding, v, F
<1> HIDE DEF t
<1>11. NothingNew(u, t) /\ v.stored = u.stored
  BY <1>5, <1>9, NothingNewTrans DEF Others
<1> QED
  BY <1>4, <1>9, <1>10, <1>11

(***************************************************************************)
(* An answer, or a delivery, may end a bundle that has got where it is     *)
(* wanted.                                                                 *)
(***************************************************************************)
Satisfied(s, t, b) ==
  \/ Header[b].dst \in Range(t.answered[b])
  \/ /\ b \in s.routed
     /\ "local" \in Wants(s)[b] => Self \in Range(t.answered[b])
     /\ "forward" \in Wants(s)[b] => Len(t.answered[b]) > NeiMem
Ends(s, t, b) ==
  /\ t \in Records /\ History(t) /\ NothingNew(s, t)
  /\ t.stored \subseteq s.stored /\ s.stored \ t.stored \subseteq {b}
  /\ b \in Recorded /\ b \in s.stored \ t.stored => Satisfied(s, t, b)

LEMMA SameEnds ==
  ASSUME NEW s \in Records, NEW t \in Records, NEW b, Same(s, t), History(s)
  PROVE  Ends(s, t, b)
<1>1. History(t)
  BY SameHistory DEF Same
<1> QED
  BY <1>1 DEF Ends, Same, SamePast

LEMMA EndsAfterSame ==
  ASSUME NEW s, NEW t, NEW u, NEW b, Same(s, t), Ends(t, u, b)
  PROVE  Ends(s, u, b)
<1>1. NothingNew(s, u)
  BY NothingNewTrans DEF Same, Ends
<1>2. t.stored = s.stored /\ t.routed = s.routed /\ Wants(t) = Wants(s)
  BY DEF Same, SamePast
<1> QED
  BY <1>1, <1>2 DEF Ends, Satisfied

LEMMA SameAfterEnds ==
  ASSUME NEW s, NEW t, NEW u \in Records, NEW b, Ends(s, t, b), Same(t, u)
  PROVE  Ends(s, u, b)
<1>1. NothingNew(s, u) /\ History(u)
  BY NothingNewTrans, SameHistory DEF Same, Ends
<1>2. t.stored = u.stored /\ t.answered = u.answered
  BY DEF Same, SamePast
<1> QED
  BY <1>1, <1>2 DEF Ends, Satisfied

\* x of NeiMem places are taken and y answers have come, then w and z.
LEMMA PlacesSuffice ==
  ASSUME NEW x \in Nat, NEW y \in Nat, NEW z \in Nat, NEW w \in {x, x + 1},
         x < NeiMem, x <= y, z = y + 1 \/ z > NeiMem
  PROVE  w <= z
  BY SizeAssumption

\* What AnsweredBy finds: whoever answers under his name is not the destination, or
\* is and has the bundle.
LEMMA AnsweredByHistory ==
  ASSUME NEW s \in Records, NEW b \in Bundles, History(s), b \in s.routed,
         NEW n \in Peers, NEW m \in {n, None}, NEW status,
         m = None <=> (~IsKnown(n) \/ (status = "nack" /\ n = Header[b].dst))
  PROVE  Ends(s, AnsweredBy(Answered(s, b, m), b, n, status), b)
<1> DEFINE a == Answered(s, b, m)
           t == AnsweredBy(a, b, n, status)
<1> SUFFICES Ends(s, t, b)
  OBVIOUS
<1>0. /\ m \in Answerers /\ m # Self /\ n \in Nodes /\ n # None /\ None \notin Peers
  BY NameAssumption DEF Answerers, Nodes
<1>1. /\ a \in Records /\ Others(s, a, b)
      /\ Wants(a)[b] = Wants(s)[b] /\ a.sentTo = s.sentTo
      /\ Range(a.answered[b]) \subseteq Range(s.answered[b]) \cup {m}
      /\ Len(a.answered[b]) \in Nat /\ Len(a.answered[b]) >= Len(s.answered[b])
      /\ b \in Recorded => \/ /\ Len(a.answered[b]) = Len(s.answered[b]) + 1
                              /\ m \in Range(a.answered[b])
                           \/ m = None /\ Len(a.answered[b]) > NeiMem
  BY <1>0, AnsweredOthers
<1>2. /\ b \in Recorded => Len(s.sentTo[b]) <= Len(s.answered[b])
      /\ "forward" \in Wants(s)[b] =>
           \A p \in Range(s.answered[b]) \cap Peers : p \in Range(s.sentTo[b]) /\ p # Header[b].dst
      /\ "local" \in Wants(s)[b] => Self \notin Range(s.answered[b])
  BY DEF History, Past
<1>3. Len(s.sentTo[b]) \in Nat /\ Len(s.answered[b]) \in Nat
  <2>1. s.sentTo[b] \in Seq(Nodes) /\ s.answered[b] \in Seq(Answerers)
    BY RecordFields
  <2> QED
    BY <2>1
<1> HIDE DEF a
<1>4. /\ Len(a.sentTo[b]) <= Len(a.answered[b]) \/ b \notin Recorded
      /\ "local" \in Wants(a)[b] => Self \notin Range(a.answered[b])
  <2>1. Len(a.sentTo[b]) <= Len(a.answered[b]) \/ b \notin Recorded
    BY <1>1, <1>2, <1>3
  <2>2. "local" \in Wants(a)[b] => Self \notin Range(a.answered[b])
    BY <1>0, <1>1, <1>2
  <2> QED
    BY <2>1, <2>2
<1>5. b \in a.routed /\ b \in a.stored /\ b \in s.stored
  BY <1>1 DEF Others, History
<1>6. CASE Header[b].dst = n /\ IsKnown(n) /\ status # "nack"
  <2> DEFINE f == FreeTicket(a, b)
  <2>1. f \in Records /\ Same(a, f)
    BY <1>1, FreeTicketSame
  <2>2. t = StopForwarding(f, b)
    BY <1>6 DEF AnsweredBy
  <2> HIDE DEF f
  <2>3. Others(a, f, b) /\ Wants(f) = Wants(a) /\ f.sentTo = a.sentTo /\ f.answered = a.answered
    BY <2>1 DEF Same, SamePast, Others
  <2>4. Others(s, f, b)
    BY <1>1, <2>3, OthersTrans
  <2>5. /\ t \in Records /\ History(t) /\ NothingNew(s, t) /\ t.answered = f.answered
        /\ t.stored \subseteq s.stored /\ s.stored \ t.stored \subseteq {b}
    BY <1>4, <2>1, <2>2, <2>3, <2>4, StopForwardingHistory
  <2>6. b \in Recorded => Header[b].dst \in Range(t.answered[b])
    BY <1>0, <1>1, <1>6, <2>3, <2>5
  <2> HIDE DEF t
  <2> QED
    BY <2>5, <2>6 DEF Ends, Satisfied
<1>7. CASE ~(Header[b].dst = n /\ IsKnown(n) /\ status # "nack") /\ ~HasPlace(a, b)
  <2> DEFINE f == StopForwarding(a, b)
  <2>1. t = FreeTicket(f, b)
    BY <1>7 DEF AnsweredBy
  <2>2. /\ f \in Records /\ History(f) /\ NothingNew(s, f) /\ f.answered = a.answered
        /\ f.stored \subseteq s.stored /\ s.stored \ f.stored \subseteq {b}
        /\ b \in s.stored \ f.stored => Wants(a)[b] \subseteq {"forward"}
    BY <1>1, <1>4, StopForwardingHistory
  <2> HIDE DEF f
  <2>3. b \in Recorded => Len(a.answered[b]) > NeiMem
    <3>1. Len(s.sentTo[b]) >= NeiMem
      BY <1>1, <1>3, <1>7, SizeAssumption DEF HasPlace
    <3> QED
      BY <1>1, <1>2, <1>3, <3>1, SizeAssumption
  <2>4. Ends(s, f, b)
    BY <1>1, <2>2, <2>3 DEF Ends, Satisfied
  <2>5. t \in Records /\ Same(f, t)
    BY <2>1, <2>2, FreeTicketSame
  <2> HIDE DEF t
  <2> QED
    BY <2>4, <2>5, SameAfterEnds
<1>8. CASE ~(Header[b].dst = n /\ IsKnown(n) /\ status # "nack") /\ HasPlace(a, b)
  <2> DEFINE v == IF IsKnown(n) THEN NoteReceiver(a, b, n) ELSE a
  <2>1. t = FreeTicket(v, b)
    BY <1>8 DEF AnsweredBy
  <2>2. /\ v \in Records /\ Others(a, v, b) /\ Wants(v) = Wants(a) /\ v.answered = a.answered
        /\ Range(a.sentTo[b]) \subseteq Range(v.sentTo[b])
        /\ IsKnown(n) => (n \in Range(v.sentTo[b]) /\ Len(v.sentTo[b]) = Len(a.sentTo[b]) + 1)
        /\ ~IsKnown(n) => Len(v.sentTo[b]) = Len(a.sentTo[b])
    <3>1. CASE IsKnown(n)
      <4> DEFINE r == NoteReceiver(a, b, n)
      <4>1. v = r
        BY <3>1
      <4>2. /\ r \in Records /\ Others(a, r, b) /\ Wants(r) = Wants(a) /\ r.answered = a.answered
            /\ Range(r.sentTo[b]) = Range(a.sentTo[b]) \cup {n}
            /\ Len(r.sentTo[b]) = Len(a.sentTo[b]) + 1
        <5>1. a \in Records /\ n \in Nodes
          BY <1>0, <1>1
        <5>2. LET w == NoteReceiver(a, b, n)
              IN /\ w \in Records /\ Others(a, w, b)
                 /\ Wants(w) = Wants(a) /\ w.answered = a.answered /\ w.flags = a.flags
                 /\ Range(w.sentTo[b]) = Range(a.sentTo[b]) \cup {n}
                 /\ Len(w.sentTo[b]) = Len(a.sentTo[b]) + 1 /\ Len(a.sentTo[b]) \in Nat
          BY <5>1, ReceiverOthers
        <5> QED
          BY <5>2
      <4> HIDE DEF v, r
      <4>3. ~IsKnown(n) => Len(v.sentTo[b]) = Len(a.sentTo[b])
        BY <3>1
      <4>4. n \in Range(r.sentTo[b]) /\ Range(a.sentTo[b]) \subseteq Range(r.sentTo[b])
        BY <4>2
      <4> QED
        BY <4>1, <4>2, <4>3, <4>4
    <3>2. CASE ~IsKnown(n)
      BY <1>1, <3>2, SameAsItself DEF Others
    <3> QED
      BY <3>1, <3>2
  <2> HIDE DEF v
  <2>3. b \in Recorded => Len(v.sentTo[b]) <= Len(v.answered[b])
    <3> SUFFICES ASSUME b \in Recorded  PROVE Len(v.sentTo[b]) <= Len(a.answered[b])
      BY <2>2
    <3>1. Len(s.sentTo[b]) < NeiMem /\ Len(v.sentTo[b]) \in {Len(s.sentTo[b]), Len(s.sentTo[b]) + 1}
      BY <1>1, <1>8, <2>2 DEF HasPlace
    <3>2. Len(a.answered[b]) = Len(s.answered[b]) + 1 \/ Len(a.answered[b]) > NeiMem
      BY <1>1
    <3>3. Len(s.sentTo[b]) <= Len(s.answered[b]) /\ Len(a.answered[b]) \in Nat
      BY <1>1, <1>2
    <3> QED
      BY <1>3, <3>1, <3>2, <3>3, PlacesSuffice
  <2>4. m = n => IsKnown(n) /\ n # Header[b].dst
    BY <1>0, <1>8
  <2>5. "forward" \in Wants(v)[b] =>
          \A p \in Range(v.answered[b]) \cap Peers : p \in Range(v.sentTo[b]) /\ p # Header[b].dst
    BY <1>0, <1>1, <1>2, <2>2, <2>4
  <2>6. Past(v, b)
    BY <1>1, <1>4, <1>5, <2>2, <2>3, <2>5 DEF Past, Others
  <2>7. Others(s, v, b)
    BY <1>1, <2>2, OthersTrans
  <2>8. History(v)
    BY <2>6, <2>7, OthersHistory
  <2>9. Ends(s, v, b)
    BY <2>2, <2>7, <2>8 DEF Ends, Others
  <2>10. t \in Records /\ Same(v, t)
    BY <2>1, <2>2, FreeTicketSame
  <2> HIDE DEF t
  <2> QED
    BY <2>9, <2>10, SameAfterEnds
<1> QED
  BY <1>6, <1>7, <1>8

\* Flags that say nothing of what routing wants.
LEMMA FlagsSame ==
  ASSUME NEW s \in Records, NEW b \in Bundles, NEW F \in SUBSET Flag,
         F \cap {"local", "forward"} = s.flags[b] \cap {"local", "forward"}
  PROVE  PutFlags(s, b, F) \in Records /\ Same(s, PutFlags(s, b, F))
<1> DEFINE t == PutFlags(s, b, F)
<1>1. t \in Records /\ Rewants(s, t, b, F)
  BY FlagsRewant
<1> HIDE DEF t
<1>2. Wants(s) \in [Bundles -> SUBSET {"local", "forward"}] /\ Wants(s)[b] = F \cap {"local", "forward"}
  BY RecordFields
<1>3. Wants(t) = Wants(s)
  BY <1>1, <1>2 DEF Rewants
<1> QED
  BY <1>1, <1>3 DEF Rewants, Same, SamePast, t

LEMMA SentHistory ==
  ASSUME NEW s \in Records, NEW b \in Bundles, History(s), s.ticket[b].to # None,
         NEW status
  PROVE  LET t == Sent(s, b, status)
         IN /\ t \in Records /\ History(t) /\ NothingNew(s, t) /\ t.stored \subseteq s.stored
            /\ status # "error" => Ends(s, t, b)
<1> DEFINE n == s.ticket[b].to
           F == s.flags[b] \ {"transit"}
           s1 == PutFlags(s, b, F)
           t == Sent(s, b, status)
<1> SUFFICES /\ t \in Records /\ History(t) /\ NothingNew(s, t) /\ t.stored \subseteq s.stored
             /\ status # "error" => Ends(s, t, b)
  OBVIOUS
<1>1. n \in Peers
  <2>1. s.ticket[b] \in Ticket
    BY RecordFields
  <2> QED
    BY <2>1 DEF Ticket
<1>2. F \in SUBSET Flag /\ F \cap {"local", "forward"} = s.flags[b] \cap {"local", "forward"}
  BY RecordFields
<1>3. s1 \in Records /\ Same(s, s1)
  BY <1>2, FlagsSame
<1> HIDE DEF n, s1, t
<1>4. CASE b \notin s.routed
  <2>1. t = FreeTicket(s, b)
    BY <1>4 DEF Sent, t
  <2>2. t \in Records /\ Same(s, t)
    BY <2>1, FreeTicketSame
  <2> QED
    BY <2>2, SameEnds DEF Ends
<1>5. CASE b \in s.routed /\ status \in {"fail", "tempnack"}
  <2>1. t = FreeTicket(s1, b)
    BY <1>5 DEF Sent, t, s1
  <2>2. t \in Records /\ Same(s, t)
    BY <1>3, <2>1, FreeTicketSame, SameTrans
  <2> QED
    BY <2>2, SameEnds DEF Ends
<1>6. CASE b \in s.routed /\ status = "error"
  <2> DEFINE v == PutFlags(s, b, {})
             k == CheckKeep(v, b)
  <2>1. t = FreeTicket(k, b)
    BY <1>6 DEF Sent, t
  <2>2. v \in Records /\ Rewants(s, v, b, {})
    BY FlagsRewant
  <2> HIDE DEF v
  <2>3. Others(s, v, b) /\ Wants(v)[b] = {} /\ v.sentTo = s.sentTo /\ v.answered = s.answered
    BY <2>2, RewantsOthers
  <2>4. History(v)
    <3>1. Past(s, b) /\ s.routed \subseteq s.stored
      BY DEF History
    <3>2. Past(v, b)
      BY <1>6, <2>3, <3>1 DEF Past, Others
    <3> QED
      BY <2>3, <3>2, OthersHistory
  <2>5. k \in Records /\ History(k) /\ NothingNew(v, k) /\ k.stored \subseteq v.stored
    BY <2>2, <2>4, CheckKeepHistory
  <2> HIDE DEF k
  <2>6. t \in Records /\ Same(k, t)
    BY <2>1, <2>5, FreeTicketSame
  <2>7. NothingNew(s, t) /\ History(t)
    BY <2>3, <2>5, <2>6, NothingNewTrans, SameHistory DEF Others, Same
  <2>8. t.stored \subseteq s.stored
    BY <2>3, <2>5, <2>6 DEF Others, Same, SamePast
  <2> QED
    BY <1>6, <2>6, <2>7, <2>8
<1>7. CASE b \in s.routed /\ status \notin {"fail", "tempnack", "error"}
  <2> DEFINE nameless == ~IsKnown(n) \/ (status = "nack" /\ n = Header[b].dst)
             m == IF nameless THEN None ELSE n
  <2>1. t = AnsweredBy(Answered(s1, b, m), b, n, status)
    BY <1>7 DEF Sent, t, s1, n
  <2>2. m \in {n, None} /\ (m = None <=> nameless)
    BY <1>1, NameAssumption DEF Nodes
  <2>3. History(s1) /\ b \in s1.routed
    BY <1>3, <1>7, SameHistory DEF Same, SamePast
  <2> HIDE DEF m
  <2>4. Ends(s1, t, b)
    BY <1>1, <1>3, <2>1, <2>2, <2>3, AnsweredByHistory
  <2>5. Ends(s, t, b)
    BY <1>3, <2>4, EndsAfterSame
  <2> QED
    BY <2>5 DEF Ends
<1> QED
  BY <1>4, <1>5, <1>6, <1>7

LEMMA LockedSame ==
  ASSUME NEW s \in Records, NEW L \in SUBSET Bundles
  PROVE  LET t == [s EXCEPT !.locked = L] IN t \in Records /\ Same(s, t)
  BY DEF Records, Same, SamePast, NothingNew, NothingGiven, Unannounced, Given, Wants

\* The service here has processed b: it is not wanted here any more.
LEMMA ProcessedOthers ==
  ASSUME NEW s \in Records, NEW b \in Bundles
  PROVE  LET a == PutApp(s, b, "none")
             s1 == PutFlags(a, b, s.flags[b] \ {"delivery", "local"})
             s2 == Dec([s1 EXCEPT !.locked = @ \ {b}], b)
         IN /\ s2 \in Records /\ Others(s, s2, b) /\ Wants(s2)[b] = Wants(s)[b] \ {"local"}
            /\ s2.sentTo = s.sentTo /\ s2.answered = s.answered
<1> DEFINE a == PutApp(s, b, "none")
           F == s.flags[b] \ {"delivery", "local"}
           s1 == PutFlags(a, b, F)
           L == s1.locked \ {b}
           l == [s1 EXCEPT !.locked = L]
           s2 == Dec(l, b)
<1>1. a \in Records /\ Same(s, a)
  BY AppSame
<1>2. /\ F \in SUBSET Flag /\ Wants(s)[b] = s.flags[b] \cap {"local", "forward"}
      /\ F \cap {"local", "forward"} = Wants(s)[b] \ {"local"}
  BY RecordFields
<1> HIDE DEF a, F
<1>3. s1 \in Records /\ Rewants(a, s1, b, F)
  BY <1>1, <1>2, FlagsRewant
<1> HIDE DEF s1
<1>4. L \in SUBSET Bundles
  BY <1>3 DEF Records
<1>5. l \in Records /\ Same(s1, l)
  BY <1>3, <1>4, LockedSame
<1>6. [s1 EXCEPT !.locked = @ \ {b}] = l
  OBVIOUS
<1> HIDE DEF l
<1>7. s2 \in Records /\ Same(l, s2)
  BY <1>5, RefSame
<1> HIDE DEF s2
<1>8. Same(s1, s2)
  BY <1>5, <1>7, SameTrans
<1>9. /\ Others(a, s1, b) /\ Wants(s1)[b] = Wants(s)[b] \ {"local"}
      /\ s1.sentTo = a.sentTo /\ s1.answered = a.answered
  BY <1>1, <1>2, <1>3, RewantsOthers
<1>10. Others(s, a, b) /\ Others(s1, s2, b)
  BY <1>1, <1>8 DEF Same, SamePast, Others
<1>11. Others(s, s2, b)
  BY <1>9, <1>10, OthersTrans
<1>12. /\ Wants(s2)[b] = Wants(s)[b] \ {"local"}
       /\ s2.sentTo = s.sentTo /\ s2.answered = s.answered
  BY <1>1, <1>8, <1>9 DEF Same, SamePast
<1> QED
  BY <1>6, <1>7, <1>11, <1>12 DEF a, F, s1, s2

LEMMA DeliveredHistory ==
  ASSUME NEW s \in Records, NEW b \in Bundles, History(s), b \in s.routed
  PROVE  Ends(s, Delivered(s, b), b)
<1> DEFINE s1 == PutFlags(PutApp(s, b, "none"), b, s.flags[b] \ {"delivery", "local"})
           s2 == Dec([s1 EXCEPT !.locked = @ \ {b}], b)
           s3 == Answered(s2, b, Self)
           t == Delivered(s, b)
<1> SUFFICES Ends(s, t, b)
  OBVIOUS
<1>0. Self \in Answerers /\ Self \in Nodes /\ Self # None /\ Self \notin Peers
  BY NameAssumption DEF Answerers, Nodes
<1>1. /\ s2 \in Records /\ Others(s, s2, b) /\ Wants(s2)[b] = Wants(s)[b] \ {"local"}
      /\ s2.sentTo = s.sentTo /\ s2.answered = s.answered
  BY ProcessedOthers
<1>2. t = IF HasPlace(s3, b) THEN CheckKeep(NoteReceiver(s3, b, Self), b) ELSE StopForwarding(s3, b)
  BY DEF Delivered
<1> HIDE DEF s2, t
<1>3. /\ s3 \in Records /\ Others(s2, s3, b)
      /\ Wants(s3)[b] = Wants(s2)[b] /\ s3.sentTo = s2.sentTo
      /\ Range(s3.answered[b]) \subseteq Range(s2.answered[b]) \cup {Self}
      /\ Len(s3.answered[b]) \in Nat /\ Len(s3.answered[b]) >= Len(s2.answered[b])
      /\ b \in Recorded => \/ /\ Len(s3.answered[b]) = Len(s2.answered[b]) + 1
                              /\ Self \in Range(s3.answered[b])
                           \/ Self = None /\ Len(s3.answered[b]) > NeiMem
  <2>1. s2 \in Records /\ Self \in Answerers
    BY <1>0, <1>1
  <2> QED
    BY <2>1, AnsweredOthers
<1> HIDE DEF s3
<1>4. /\ Others(s, s3, b) /\ Wants(s3)[b] = Wants(s)[b] \ {"local"} /\ s3.sentTo = s.sentTo
      /\ Range(s3.answered[b]) \subseteq Range(s.answered[b]) \cup {Self}
      /\ b \in Recorded => /\ Len(s3.answered[b]) = Len(s.answered[b]) + 1
                           /\ Self \in Range(s3.answered[b])
  BY <1>0, <1>1, <1>3, OthersTrans
<1>5. /\ b \in Recorded => Len(s.sentTo[b]) <= Len(s.answered[b])
      /\ "forward" \in Wants(s)[b] =>
           \A p \in Range(s.answered[b]) \cap Peers : p \in Range(s.sentTo[b]) /\ p # Header[b].dst
  BY DEF History, Past
<1>6. Len(s.sentTo[b]) \in Nat /\ Len(s.answered[b]) \in Nat
  <2>1. s.sentTo[b] \in Seq(Nodes) /\ s.answered[b] \in Seq(Answerers)
    BY RecordFields
  <2> QED
    BY <2>1
<1>7. b \in s3.routed /\ b \in s3.stored /\ b \in s.stored
  BY <1>4 DEF Others, History
<1>8. CASE HasPlace(s3, b)
  <2> DEFINE v == NoteReceiver(s3, b, Self)
  <2>1. /\ v \in Records /\ Others(s3, v, b)
        /\ Wants(v) = Wants(s3) /\ v.answered = s3.answered
        /\ Range(v.sentTo[b]) = Range(s3.sentTo[b]) \cup {Self}
        /\ Len(v.sentTo[b]) = Len(s3.sentTo[b]) + 1
    <3>1. s3 \in Records /\ Self \in Nodes
      BY <1>0, <1>3
    <3>2. LET r == NoteReceiver(s3, b, Self)
          IN /\ r \in Records /\ Others(s3, r, b)
             /\ Wants(r) = Wants(s3) /\ r.answered = s3.answered /\ r.flags = s3.flags
             /\ Range(r.sentTo[b]) = Range(s3.sentTo[b]) \cup {Self}
             /\ Len(r.sentTo[b]) = Len(s3.sentTo[b]) + 1 /\ Len(s3.sentTo[b]) \in Nat
      BY <3>1, ReceiverOthers
    <3> QED
      BY <3>2
  <2>2. t = CheckKeep(v, b)
    BY <1>2, <1>8
  <2> HIDE DEF v
  <2>3. Others(s, v, b)
    BY <1>4, <2>1, OthersTrans
  <2>4. b \in Recorded => Len(v.sentTo[b]) <= Len(v.answered[b])
    BY <1>4, <1>5, <1>6, <2>1
  <2>5. "forward" \in Wants(v)[b] =>
          \A p \in Range(v.answered[b]) \cap Peers : p \in Range(v.sentTo[b]) /\ p # Header[b].dst
    BY <1>0, <1>4, <1>5, <2>1
  <2>6. "local" \notin Wants(v)[b] /\ b \in v.routed /\ b \in v.stored
    BY <1>4, <1>7, <2>1 DEF Others
  <2>7. Past(v, b)
    BY <2>4, <2>5, <2>6 DEF Past
  <2>8. History(v)
    BY <2>3, <2>7, OthersHistory
  <2>9. /\ t \in Records /\ History(t) /\ NothingNew(v, t) /\ t.answered = v.answered
        /\ t.stored \subseteq v.stored /\ v.stored \ t.stored \subseteq {b}
        /\ b \in v.stored \ t.stored => Wants(v)[b] = {}
    BY <2>1, <2>2, <2>8, CheckKeepHistory
  <2>10. NothingNew(s, t) /\ v.stored = s.stored
    BY <2>3, <2>9, NothingNewTrans DEF Others
  <2>11. b \in Recorded /\ b \in s.stored \ t.stored => Satisfied(s, t, b)
    BY <1>4, <2>1, <2>9, <2>10 DEF Satisfied
  <2> QED
    BY <2>9, <2>10, <2>11 DEF Ends
<1>9. CASE ~HasPlace(s3, b)
  <2>1. t = StopForwarding(s3, b)
    BY <1>2, <1>9
  <2>2. Len(s3.sentTo[b]) <= Len(s3.answered[b]) \/ b \notin Recorded
    BY <1>4, <1>5, <1>6
  <2>3. /\ t \in Records /\ History(t) /\ NothingNew(s, t) /\ t.answered = s3.answered
        /\ t.stored \subseteq s.stored /\ s.stored \ t.stored \subseteq {b}
        /\ b \in s.stored \ t.stored => Wants(s3)[b] \subseteq {"forward"}
    BY <1>3, <1>4, <2>1, <2>2, StopForwardingHistory
  <2>4. b \in Recorded => Len(t.answered[b]) > NeiMem /\ Self \in Range(t.answered[b])
    BY <1>4, <1>5, <1>6, <1>9, <2>3, SizeAssumption DEF HasPlace
  <2>5. b \in Recorded /\ b \in s.stored \ t.stored => Satisfied(s, t, b)
    BY <2>4 DEF Satisfied
  <2> QED
    BY <2>3, <2>5 DEF Ends
<1> QED
  BY <1>8, <1>9

(***************************************************************************)
(* What else the handlers are made of                                      *)
(***************************************************************************)
LEMMA FitsSubset ==
  ASSUME NEW s, NEW t, Fits(s), t.stored \subseteq s.stored
  PROVE  Fits(t)
<1>1. /\ IsFiniteSet(t.stored) /\ Cardinality(t.stored) <= Cardinality(s.stored)
      /\ Cardinality(s.stored) \in Nat /\ Cardinality(t.stored) \in Nat
  BY FS_Subset, FS_CardinalityType DEF Fits
<1> QED
  BY <1>1, SizeAssumption DEF Fits

\* What is deleted has no history any more, whatever has been noted before.
LEMMA DropsOthersHistory ==
  ASSUME NEW s \in Records, NEW u \in Records, NEW t, NEW b \in Bundles,
         History(s), Others(s, u, b), Drops(u, t, b)
  PROVE  History(t)
<1>1. /\ Wants(u) \in [Bundles -> SUBSET {"local", "forward"}]
      /\ u.sentTo \in [Bundles -> Seq(Nodes)]
  BY RecordFields DEF Records
<1>2. t.routed \subseteq t.stored
  BY DEF Others, Drops, History
<1> SUFFICES ASSUME NEW c \in Bundles  PROVE Past(t, c)
  BY <1>2 DEF History
<1>3. CASE c = b
  BY <1>1, <1>3 DEF Drops, Past
<1>4. CASE c # b
  <2>1. /\ Wants(t)[c] = Wants(s)[c] /\ t.sentTo[c] = s.sentTo[c] /\ t.answered[c] = s.answered[c]
        /\ c \in t.stored <=> c \in s.stored
        /\ c \in t.routed <=> c \in s.routed
    BY <1>1, <1>4 DEF Drops, Others
  <2>2. Past(s, c)
    BY DEF History
  <2> QED
    BY <2>1, <2>2 DEF Past
<1> QED
  BY <1>3, <1>4

\* A report of the delivery of a bundle names its destination among the answers.
LEMMA ReportedHistory ==
  ASSUME NEW s \in Records, NEW b \in Bundles, History(s)
  PROVE  LET t == Reported(s, b)
         IN /\ t \in Records /\ History(t) /\ NothingNew(s, t) /\ t.stored \subseteq s.stored
            /\ \A c \in s.stored \ t.stored : c \in Recorded => Satisfied(s, t, c)
<1> DEFINE r == Header[b].report
           t == Reported(s, b)
<1>1. r = None \/ r \in Bundles
  BY HeaderAssumption
<1>2. CASE r = None \/ r \notin s.stored \ s.locked
  <2>1. t = s
    BY <1>2 DEF Reported, Told, Delete
  <2> QED
    BY <2>1, SameAsItself
<1>3. CASE r # None /\ r \in s.stored \ s.locked
  <2> DEFINE d == Header[r].dst
             u == Answered(s, r, d)
  <2>1. r \in Bundles /\ d \in Answerers /\ d # None
    BY <1>1, <1>3, HeaderAssumption DEF Answerers
  <2>2. t = Delete(u, r)
    BY <1>3 DEF Reported, Told
  <2> HIDE DEF r, d, u, t
  <2>3. LET v == Answered(s, r, d)
        IN /\ v \in Records /\ Others(s, v, r)
           /\ Wants(v)[r] = Wants(s)[r] /\ v.sentTo = s.sentTo /\ v.flags = s.flags
           /\ v.ticket = s.ticket /\ v.locked = s.locked
           /\ Range(v.answered[r]) \subseteq Range(s.answered[r]) \cup {d}
           /\ Len(v.answered[r]) \in Nat /\ Len(v.answered[r]) >= Len(s.answered[r])
           /\ r \in Recorded => \/ /\ Len(v.answered[r]) = Len(s.answered[r]) + 1
                                   /\ d \in Range(v.answered[r])
                                \/ d = None /\ Len(v.answered[r]) > NeiMem
    BY <2>1, AnsweredOthers
  <2>4. /\ u \in Records /\ Others(s, u, r) /\ u.locked = s.locked
        /\ r \in Recorded => d \in Range(u.answered[r])
    BY <2>1, <2>3 DEF u
  <2>5. r \in u.stored \ u.locked
    BY <1>3, <2>4 DEF Others
  <2>6. t \in Records /\ Drops(u, t, r)
    BY <2>1, <2>2, <2>4, <2>5, DeleteMayDrop
  <2>7. History(t)
    BY <2>1, <2>4, <2>6, DropsOthersHistory
  <2>8. NothingNew(s, t) /\ t.stored = s.stored \ {r} /\ t.answered = u.answered
    BY <2>4, <2>6, NothingNewTrans DEF Others, Drops
  <2>9. \A c \in s.stored \ t.stored : c \in Recorded => Satisfied(s, t, c)
    BY <2>4, <2>8 DEF Satisfied, d
  <2> QED
    BY <2>6, <2>7, <2>8, <2>9 DEF t
<1> QED
  BY <1>2, <1>3

LEMMA ReadSame ==
  ASSUME NEW s \in Records, NEW b \in Bundles
  PROVE  /\ Read(s, b) \in Records /\ Same(s, Read(s, b))
         /\ Unread(s, b) \in Records /\ Same(s, Unread(s, b))
         /\ Read(s, b).ticket[b].to = s.ticket[b].to /\ Unread(s, b).ticket[b].to = s.ticket[b].to
<1> DEFINE on == [s.ticket[b] EXCEPT !.reads = TRUE]
           off == [s.ticket[b] EXCEPT !.reads = FALSE]
           p == PutTicket(s, b, on)
           q == PutTicket(s, b, off)
<1>1. /\ s.ticket \in [Bundles -> Ticket]
      /\ on \in Ticket /\ on.to = s.ticket[b].to /\ off \in Ticket /\ off.to = s.ticket[b].to
  <2>1. s.ticket \in [Bundles -> Ticket] /\ s.ticket[b] \in Ticket
    BY RecordFields DEF Records
  <2>2. on \in Ticket /\ on.to = s.ticket[b].to
    BY <2>1 DEF Ticket
  <2>3. off \in Ticket /\ off.to = s.ticket[b].to
    BY <2>1 DEF Ticket
  <2> QED
    BY <2>1, <2>2, <2>3
<1> HIDE DEF on, off
<1>2. p \in Records /\ Same(s, p) /\ p.ticket = [s.ticket EXCEPT ![b] = on]
  BY <1>1, TicketSame
<1>3. q \in Records /\ Same(s, q) /\ q.ticket = [s.ticket EXCEPT ![b] = off]
  BY <1>1, TicketSame
<1> HIDE DEF p, q
<1>4. Inc(p, b) \in Records /\ Same(p, Inc(p, b)) /\ Inc(p, b).ticket = p.ticket
  BY <1>2, RefSame
<1>5. Dec(q, b) \in Records /\ Same(q, Dec(q, b)) /\ Dec(q, b).ticket = q.ticket
  BY <1>3, RefSame
<1>6. Read(s, b) \in {s, Inc(p, b)} /\ Unread(s, b) \in {s, Dec(q, b)}
  BY DEF Read, Unread, p, q, on, off
<1>7. Same(s, Inc(p, b)) /\ Same(s, Dec(q, b)) /\ Same(s, s)
  BY <1>2, <1>3, <1>4, <1>5, SameTrans, SameAsItself
<1>8. Inc(p, b).ticket[b].to = s.ticket[b].to /\ Dec(q, b).ticket[b].to = s.ticket[b].to
  BY <1>1, <1>2, <1>3, <1>4, <1>5
<1> QED
  BY <1>4, <1>5, <1>6, <1>7, <1>8

LEMMA EncodedSame ==
  ASSUME NEW s \in Records, NEW b \in Bundles
  PROVE  /\ Encoded(s, b) \in Records /\ Same(s, Encoded(s, b))
         /\ Encoded(s, b).ticket[b].to = s.ticket[b].to
<1> DEFINE r == Read(s, b)
           u == Unread(r, b)
           tk == [u.ticket[b] EXCEPT !.multi = TRUE]
           p == PutTicket(u, b, tk)
<1>1. r \in Records /\ Same(s, r) /\ r.ticket[b].to = s.ticket[b].to
  BY ReadSame
<1> HIDE DEF r
<1>2. u \in Records /\ Same(r, u) /\ u.ticket[b].to = r.ticket[b].to
  <2>1. r \in Records
    BY <1>1
  <2> HIDE DEF u
  <2>2. Unread(r, b) \in Records /\ Same(r, Unread(r, b)) /\ Unread(r, b).ticket[b].to = r.ticket[b].to
    BY <2>1, ReadSame
  <2> QED
    BY <2>2 DEF u
<1> HIDE DEF u
<1>3. u.ticket \in [Bundles -> Ticket] /\ tk \in Ticket /\ tk.to = u.ticket[b].to
  <2>1. u.ticket \in [Bundles -> Ticket]
    BY <1>2 DEF Records
  <2>2. u.ticket[b] \in Ticket
    BY <2>1
  <2>3. tk \in Ticket /\ tk.to = u.ticket[b].to
    BY <2>2 DEF Ticket
  <2> QED
    BY <2>1, <2>3
<1> HIDE DEF tk
<1>4. p \in Records /\ Same(u, p) /\ p.ticket = [u.ticket EXCEPT ![b] = tk]
  BY <1>2, <1>3, TicketSame
<1>5. Encoded(s, b) \in {s, r, p}
  BY DEF Encoded, r, u, tk
<1> HIDE DEF p
<1>6. Same(s, p) /\ p.ticket[b].to = s.ticket[b].to
  BY <1>1, <1>2, <1>3, <1>4, SameTrans
<1> QED
  BY <1>1, <1>4, <1>5, <1>6, SameAsItself

LEMMA DroppedMayDrop ==
  ASSUME NEW s \in Records, NEW b \in Bundles, History(s), Fits(s)
  PROVE  LET t == Dropped(s, b)
         IN /\ t \in Records /\ History(t) /\ Fits(t) /\ NothingNew(s, t)
            /\ t.stored \subseteq s.stored /\ s.stored \ t.stored \subseteq {b}
<1> DEFINE r == Read(s, b)
           d == Dec(r, b)
           t == Delete(d, b)
<1>1. r \in Records /\ Same(s, r)
  BY ReadSame
<1> HIDE DEF r
<1>2. d \in Records /\ Same(s, d)
  BY <1>1, RefSame, SameTrans
<1> HIDE DEF d
<1>3. t \in Records /\ MayDrop(d, t, b)
  BY <1>2, DeleteMayDrop
<1>4. Dropped(s, b) = t
  BY DEF Dropped, r, d
<1> HIDE DEF t
<1>5. History(d) /\ Fits(d) /\ d.stored = s.stored /\ NothingNew(s, d)
  BY <1>2, SameHistory DEF Same, SamePast, Fits
<1>6. /\ History(t) /\ Fits(t) /\ NothingNew(d, t)
      /\ t.stored \subseteq d.stored /\ d.stored \ t.stored \subseteq {b}
  BY <1>2, <1>3, <1>5, MayDropHistory
<1> QED
  BY <1>3, <1>4, <1>5, <1>6, NothingNewTrans

LEMMA AllFailedSame ==
  ASSUME NEW s \in Records, NEW F
  PROVE  Same(s, AllFailed(s, F))
<1> DEFINE t == AllFailed(s, F)
<1>1. /\ t.stored = s.stored /\ t.routed = s.routed /\ t.sentTo = s.sentTo
      /\ t.answered = s.answered /\ t.app = s.app
      /\ t.ticket = [b \in Bundles |-> IF b \in F THEN NoTicket ELSE s.ticket[b]]
      /\ t.flags = [b \in Bundles |-> IF b \in F THEN s.flags[b] \ {"transit"} ELSE s.flags[b]]
  BY DEF Records, AllFailed
<1> HIDE DEF t
<1>2. Wants(t) = Wants(s)
  BY <1>1 DEF Wants
<1>3. NothingNew(s, t)
  BY <1>1 DEF NothingNew, NothingGiven, Unannounced, Given, NoTicket
<1> QED
  BY <1>1, <1>2, <1>3 DEF Same, SamePast, t

(***************************************************************************)
(* What a step does, if it is not the routing task's                       *)
(***************************************************************************)
HistoryInv == Inv /\ History(node) /\ Fits(node)
\* Needs every answer to be remembered, and a MAC that does not fail for good.
Kept ==
  (Recorded = Bundles /\ "fatal" \notin Faults) =>
    \A c \in node.stored \ node'.stored : c \in expired \/ Evictable(c) \/ Served(c)
HistoryStep == History(node') /\ Fits(node') /\ NothingNew(node, node') /\ Kept
\* b may have been stored, and not been announced yet.
ArrivalStep(b) ==
  /\ History(node') /\ Fits(node') /\ NothingGiven(node, node') /\ Kept
  /\ Unannounced(node') \subseteq Unannounced(node) \cup {b}

LEMMA NodeRecord == ASSUME Inv  PROVE node \in Records
  BY NodeIsRecord DEF Inv, NodeInv

LEMMA SameStep == ASSUME HistoryInv, Same(node, node')  PROVE HistoryStep
<1>1. History(node')
  BY SameHistory DEF HistoryInv, Same
<1> QED
  BY <1>1 DEF HistoryInv, Same, SamePast, Fits, Kept, HistoryStep

LEMMA UnchangedStep == ASSUME HistoryInv, node' = node  PROVE HistoryStep
<1>1. Same(node, node')
  BY SameAsItself
<1> QED
  BY <1>1, SameStep

\* An answer says more than that the bundle leaves.
LEMMA SatisfiedServed ==
  ASSUME Inv, NEW b \in Bundles, Satisfied(node, node', b)
  PROVE  Served(b)
<1>1. Wants(node)[b] = node.flags[b] \cap {"local", "forward"}
  BY NodeRecord, RecordFields
<1> QED
  BY <1>1 DEF Satisfied, Served

LEMMA EndsStep ==
  ASSUME HistoryInv, NEW b \in Bundles, Ends(node, node', b)
  PROVE  HistoryStep
<1>1. Fits(node')
  BY FitsSubset DEF HistoryInv, Ends
<1>2. Kept
  BY SatisfiedServed DEF HistoryInv, Ends, Kept
<1> QED
  BY <1>1, <1>2 DEF Ends, HistoryStep

\* c gave way to b, which was not stored.
LEMMA YieldsEvictable ==
  ASSUME HistoryInv, NEW s, s.stored \subseteq node.stored, NEW b \in Bundles, b \notin s.stored,
         NEW c, Yields(s, c, b)
  PROVE  c \in expired \/ Evictable(c)
<1>1. CASE Cardinality(s.stored) = StoreSize /\ Header[c].prio <= Header[b].prio
  <2>1. /\ IsFiniteSet(node.stored) /\ Cardinality(node.stored) <= StoreSize
        /\ Cardinality(node.stored) \in Nat
    BY FS_CardinalityType DEF HistoryInv, Fits
  <2>2. /\ Cardinality(s.stored) <= Cardinality(node.stored)
        /\ Cardinality(node.stored) = Cardinality(s.stored) => node.stored = s.stored
    BY <2>1, FS_Subset
  <2>3. node.stored = s.stored
    BY <1>1, <2>1, <2>2, SizeAssumption
  <2> QED
    BY <1>1, <2>3 DEF Evictable
<1> QED
  BY <1>1 DEF Yields

LEMMA NewBundleHistory ==
  ASSUME NEW s \in Records, NEW b \in Bundles, History(s), NewBundle(s, b)
  PROVE  /\ History(node') /\ node'.stored = s.stored /\ NothingNew(s, node')
         /\ "no_memory" \notin Faults => b \notin Unannounced(node')
<1>1. CASE node' = s /\ (~CanAnnounce(s, b) \/ "no_memory" \in Faults)
  BY <1>1, SameAsItself DEF CanAnnounce, Unannounced
<1>2. CASE CanAnnounce(s, b) /\ node' = Announce(s, b)
  BY <1>2, AnnounceHistory DEF Unannounced
<1> QED
  BY <1>1, <1>2 DEF NewBundle

LEMMA AppSendHistory ==
  ASSUME HistoryInv, NEW b \in Bundles, AppSend(b)  PROVE HistoryStep
<1> DEFINE i == Inc(node, b)
           a == IF HasSpace THEN "sending" ELSE "lost"
<1>1. node' = PutApp(i, b, a)
  BY DEF AppSend
<1>2. node \in Records
  BY NodeRecord DEF HistoryInv
<1>3. i \in Records /\ Same(node, i)
  BY <1>2, RefSame
<1> HIDE DEF i
<1>4. a \in {"sending", "lost"}
  OBVIOUS
<1> HIDE DEF a
<1>5. Same(i, node')
  BY <1>1, <1>3, <1>4, AppSame
<1> QED
  BY <1>3, <1>5, SameTrans, SameStep

LEMMA AppDoneHistory ==
  ASSUME HistoryInv, NEW b \in Bundles, AppDone(b)  PROVE HistoryStep
<1> DEFINE a == IF HasSpace THEN "done" ELSE "lost"
<1>1. node' = PutApp(node, b, a) /\ Given(node, b)
  BY DEF AppDone, Given
<1>2. node \in Records
  BY NodeRecord DEF HistoryInv
<1>3. a \in {"done", "lost"}
  OBVIOUS
<1> HIDE DEF a
<1>4. Same(node, node')
  BY <1>1, <1>2, <1>3, AppSame
<1> QED
  BY <1>4, SameStep

\* What comes in may end the bundle it reports on, and make others give way.
LEMMA ReceiveHistory ==
  ASSUME HistoryInv, NEW b \in Bundles, NEW n \in Peers, Receive(b, n)
  PROVE  /\ ArrivalStep(b)
         /\ \/ NothingNew(node, node') /\ UNCHANGED queue
            \/ queue' = Post(queue, "stored", b)
<1> DEFINE s == Reported(node, b)
<1>1. node \in Records /\ History(node) /\ Fits(node) /\ Inv
  BY NodeRecord DEF HistoryInv
<1>2. /\ s \in Records /\ History(s) /\ NothingNew(node, s) /\ s.stored \subseteq node.stored
      /\ \A c \in node.stored \ s.stored : c \in Recorded => Satisfied(node, s, c)
  BY <1>1, ReportedHistory
<1>3. IF IsForMe(b) \/ IsSeen(b) THEN Reject(s)
      ELSE IF b \in s.stored THEN Accept(s, b)
      ELSE \E r \in Saved(s, b) : IF r.ok THEN Accept(SetFrom(r.node, b, n), b) ELSE Reject(r.node)
  BY DEF Receive
<1> HIDE DEF s
<1>4. Fits(s)
  BY <1>1, <1>2, FitsSubset
<1> DEFINE arrives == /\ ArrivalStep(b)
                      /\ \/ NothingNew(node, node') /\ UNCHANGED queue
                         \/ queue' = Post(queue, "stored", b)
<1>5. ASSUME Reject(s) \/ Accept(s, b)  PROVE arrives
  <2>1. node' = s /\ (UNCHANGED queue \/ queue' = Post(queue, "stored", b))
    BY <1>5 DEF Reject, Accept
  <2>2. Kept
    BY <1>1, <1>2, <2>1, SatisfiedServed DEF Kept, Records
  <2> QED
    BY <1>2, <1>4, <2>1, <2>2 DEF ArrivalStep, NothingNew
<1>6. ASSUME b \notin s.stored, NEW r \in Saved(s, b),
             IF r.ok THEN Accept(SetFrom(r.node, b, n), b) ELSE Reject(r.node)
      PROVE  arrives
  <2>0. /\ r.ok => node' = SetFrom(r.node, b, n) /\ queue' = Post(queue, "stored", b)
        /\ ~r.ok => node' = r.node /\ UNCHANGED queue
    BY <1>6 DEF Reject, Accept
  <2>1. /\ r.node \in Records /\ History(r.node) /\ Fits(r.node)
        /\ r.ok => b \in r.node.stored \ r.node.routed
        /\ r.node.stored \subseteq s.stored \cup {b}
        /\ NothingGiven(s, r.node) /\ (~r.ok => NothingNew(s, r.node))
        /\ Unannounced(r.node) \subseteq Unannounced(s) \cup {b}
        /\ \A c \in Bundles : (~r.ok \/ c # b) => r.node.answered[c] = s.answered[c]
        /\ \A c \in s.stored \ r.node.stored : Yields(s, c, b)
    BY <1>2, <1>4, <1>6, SavedHistory
  <2>2. Same(r.node, node')
    BY <2>0, <2>1, FromSame, SameAsItself
  <2>3. /\ History(node') /\ Fits(node') /\ NothingGiven(node, node')
        /\ Unannounced(node') \subseteq Unannounced(node) \cup {b}
        /\ ~r.ok => NothingNew(node, node')
    <3>1. History(node') /\ Fits(node')
      BY <2>1, <2>2, SameHistory DEF Same, SamePast, Fits
    <3>2. NothingGiven(node, node')
      BY <1>2, <2>1, <2>2, NothingGivenTrans DEF Same, NothingNew
    <3>3. Unannounced(node') \subseteq Unannounced(node) \cup {b}
      BY <1>2, <2>1, <2>2 DEF Same, NothingNew
    <3>4. ~r.ok => NothingNew(node, node')
      BY <1>2, <2>1, <2>2, NothingNewTrans DEF Same
    <3> QED
      BY <3>1, <3>2, <3>3, <3>4
  <2>4. ASSUME Recorded = Bundles, NEW c \in node.stored \ node'.stored
        PROVE  c \in expired \/ Evictable(c) \/ Served(c)
    <3>1. c \in Bundles /\ node'.stored = r.node.stored /\ node'.answered = r.node.answered
      BY <1>1, <2>2 DEF Records, Same, SamePast
    <3>2. CASE c \in s.stored
      <4>1. Yields(s, c, b)
        BY <2>1, <2>4, <3>1, <3>2
      <4> QED
        BY <1>2, <1>6, <4>1, YieldsEvictable
    <3>3. CASE c \notin s.stored
      <4>1. Satisfied(node, s, c)
        BY <1>2, <2>4, <3>1, <3>3
      <4>2. node'.answered[c] = s.answered[c]
        BY <2>1, <2>4, <3>1
      <4>3. Satisfied(node, node', c)
        BY <4>1, <4>2 DEF Satisfied
      <4> QED
        BY <1>1, <3>1, <4>3, SatisfiedServed
    <3> QED
      BY <3>2, <3>3
  <2> QED
    BY <2>0, <2>3, <2>4 DEF ArrivalStep, Kept
<1> QED
  BY <1>3, <1>5, <1>6

LEMMA AgentSendHistory ==
  ASSUME HistoryInv, NEW b \in Bundles, AgentSend(b)
  PROVE  ArrivalStep(b) /\ ("no_memory" \notin Faults => NothingNew(node, node'))
<1> DEFINE s == PutApp(node, b, "none")
<1>1. node \in Records /\ History(node) /\ Fits(node) /\ Inv
  BY NodeRecord DEF HistoryInv
<1>2. PICK r \in Saved(s, b) :
        IF r.ok THEN NewBundle(SetFrom(r.node, b, None), b)
        ELSE node' = Dec(r.node, b) /\ UNCHANGED awake
  BY DEF AgentSend
<1>3. s \in Records /\ Same(node, s)
  BY <1>1, AppSame
<1> HIDE DEF s
<1>4. b \notin node.stored
  <2>1. node.app[b] = "sending"
    BY <1>1, HeadOfQueue DEF AgentSend
  <2> QED
    BY <1>1, <2>1 DEF Inv, NodeInv, Holding
<1>5. History(s) /\ Fits(s) /\ s.stored = node.stored
  BY <1>1, <1>3, SameHistory DEF Same, SamePast, Fits
<1>6. /\ r.node \in Records /\ History(r.node) /\ Fits(r.node)
      /\ r.ok => b \in r.node.stored \ r.node.routed
      /\ r.node.stored \subseteq s.stored \cup {b}
      /\ NothingGiven(s, r.node) /\ (~r.ok => NothingNew(s, r.node))
      /\ Unannounced(r.node) \subseteq Unannounced(s) \cup {b}
      /\ \A c \in Bundles : (~r.ok \/ c # b) => r.node.answered[c] = s.answered[c]
      /\ \A c \in s.stored \ r.node.stored : Yields(s, c, b)
  BY <1>2, <1>3, <1>4, <1>5, SavedHistory
<1>7. /\ History(node') /\ node'.stored = r.node.stored /\ NothingNew(r.node, node')
      /\ r.ok /\ "no_memory" \notin Faults => b \notin Unannounced(node')
  <2>1. CASE r.ok
    <3> DEFINE f == SetFrom(r.node, b, None)
    <3>1. f \in Records /\ Same(r.node, f)
      BY <1>6, FromSame
    <3>2. NewBundle(f, b)
      BY <1>2, <2>1
    <3> HIDE DEF f
    <3>3. History(f) /\ f.stored = r.node.stored
      BY <1>6, <3>1, SameHistory DEF Same, SamePast
    <3>4. /\ History(node') /\ node'.stored = f.stored /\ NothingNew(f, node')
          /\ "no_memory" \notin Faults => b \notin Unannounced(node')
      BY <3>1, <3>2, <3>3, NewBundleHistory
    <3> QED
      BY <3>1, <3>3, <3>4, NothingNewTrans DEF Same
  <2>2. CASE ~r.ok
    <3>1. node' = Dec(r.node, b)
      BY <1>2, <2>2
    <3>2. Same(r.node, node')
      BY <1>6, <3>1, RefSame
    <3> QED
      BY <1>6, <2>2, <3>2, SameHistory DEF Same, SamePast
  <2> QED
    BY <2>1, <2>2
<1>8. Fits(node') /\ NothingGiven(node, node')
  BY <1>3, <1>6, <1>7, NothingGivenTrans DEF Fits, Same, NothingNew
<1>10. Unannounced(node') \subseteq Unannounced(node) \cup {b}
  BY <1>3, <1>6, <1>7 DEF Same, NothingNew
<1>11. "no_memory" \notin Faults => NothingNew(node, node')
  <2>1. CASE r.ok
    BY <1>7, <1>8, <1>10, <2>1 DEF NothingNew
  <2>2. CASE ~r.ok
    BY <1>3, <1>6, <1>7, <2>2, NothingNewTrans DEF Same
  <2> QED
    BY <2>1, <2>2
<1>9. ASSUME NEW c \in node.stored \ node'.stored  PROVE c \in expired \/ Evictable(c)
  <2>1. Yields(s, c, b)
    BY <1>5, <1>6, <1>7, <1>9
  <2> QED
    BY <1>4, <1>5, <2>1, YieldsEvictable
<1> QED
  BY <1>7, <1>8, <1>9, <1>10, <1>11 DEF ArrivalStep, Kept

LEMMA AgentStoredHistory ==
  ASSUME HistoryInv, NEW b \in Bundles, AgentStored(b)  PROVE HistoryStep
<1>1. node \in Records /\ History(node) /\ Fits(node)
  BY NodeRecord DEF HistoryInv
<1>2. History(node') /\ node'.stored = node.stored /\ NothingNew(node, node')
  BY <1>1, NewBundleHistory DEF AgentStored
<1> QED
  BY <1>1, <1>2 DEF HistoryStep, Kept, Fits

LEMMA AgentDoneHistory ==
  ASSUME HistoryInv, NEW b \in Bundles, AgentDone(b)  PROVE HistoryStep
<1>1. node \in Records /\ History(node)
  BY NodeRecord DEF HistoryInv
<1>2. CASE node.ref[b] = 0 \/ b \notin node.routed
  <2> DEFINE a == IF node.ref[b] = 0 THEN "none" ELSE "lost"
  <2>1. node' = PutApp(node, b, a)
    BY <1>2 DEF AgentDone
  <2>2. a \in {"none", "lost"}
    OBVIOUS
  <2> HIDE DEF a
  <2>3. Same(node, node')
    BY <1>1, <2>1, <2>2, AppSame
  <2> QED
    BY <2>3, SameStep
<1>3. CASE ~(node.ref[b] = 0 \/ b \notin node.routed)
  <2>1. node' = Delivered(node, b)
    BY <1>3 DEF AgentDone
  <2>2. Ends(node, node', b)
    BY <1>1, <1>3, <2>1, DeliveredHistory
  <2> QED
    BY <2>2, EndsStep
<1> QED
  BY <1>2, <1>3

LEMMA ExpiredAttemptHistory ==
  ASSUME HistoryInv, NEW b \in Bundles, ExpiredAttempt(b)  PROVE HistoryStep
<1>1. node \in Records /\ History(node) /\ Fits(node)
  BY NodeRecord DEF HistoryInv
<1>2. node' = Dropped(node, b) /\ b \in expired
  BY DEF ExpiredAttempt, IsOverdue
<1>3. /\ History(node') /\ Fits(node') /\ NothingNew(node, node')
      /\ node.stored \ node'.stored \subseteq {b}
  BY <1>1, <1>2, DroppedMayDrop
<1> QED
  BY <1>2, <1>3 DEF HistoryStep, Kept

LEMMA UnencodedAttemptHistory ==
  ASSUME HistoryInv, NEW b \in Bundles, UnencodedAttempt(b)  PROVE HistoryStep
<1>1. node \in Records /\ node' = Read(node, b)
  BY NodeRecord DEF HistoryInv, UnencodedAttempt
<1>2. Same(node, node')
  BY <1>1, ReadSame
<1> QED
  BY <1>2, SameStep

LEMMA SentStep ==
  ASSUME HistoryInv, NEW b \in Bundles, NEW s \in Records, Same(node, s), s.ticket[b].to # None,
         NEW status, status = "error" => "fatal" \in Faults, node' = Sent(s, b, status)
  PROVE  HistoryStep
<1>1. History(s) /\ s.stored = node.stored
  BY SameHistory DEF HistoryInv, Same, SamePast
<1>2. /\ History(node') /\ NothingNew(s, node') /\ node'.stored \subseteq s.stored
      /\ status # "error" => Ends(s, node', b)
  BY <1>1, SentHistory
<1>3. CASE status = "error"
  <2>1. Fits(node')
    BY <1>1, <1>2, FitsSubset DEF HistoryInv
  <2>2. NothingNew(node, node')
    BY <1>2, NothingNewTrans DEF Same
  <2> QED
    BY <1>2, <1>3, <2>1, <2>2 DEF HistoryStep, Kept
<1>4. CASE status # "error"
  <2>1. Ends(node, node', b)
    BY <1>2, <1>4, EndsAfterSame
  <2> QED
    BY <2>1, EndsStep
<1> QED
  BY <1>3, <1>4

LEMMA AttemptHistory ==
  ASSUME HistoryInv, NEW b \in Bundles, NEW o \in {"ok", "retry", "fail", "fatal"}, Attempt(b, o)
  PROVE  HistoryStep
<1> DEFINE s == Encoded(node, b)
           u == Unread(s, b)
           tk == [u.ticket[b] EXCEPT !.pend = TRUE]
<1>1. node \in Records /\ node.ticket[b].to # None /\ (o = "fatal" => "fatal" \in Faults)
  BY NodeRecord DEF HistoryInv, Attempt
<1>2. /\ o = "ok" => node' = PutTicket(u, b, tk)
      /\ o = "retry" => node' = s
      /\ o = "fail" => node' = Sent(s, b, "fail")
      /\ o = "fatal" => node' = Sent(s, b, "error")
  BY DEF Attempt
<1> HIDE DEF tk
<1>3. s \in Records /\ Same(node, s) /\ s.ticket[b].to # None
  BY <1>1, EncodedSame
<1> HIDE DEF s
<1>4. u \in Records /\ Same(s, u) /\ u.ticket[b].to # None
  BY <1>3, ReadSame
<1> HIDE DEF u
<1>5. CASE o = "ok"
  <2>1. u.ticket[b] \in Ticket
    BY <1>4, RecordFields
  <2>2. tk \in Ticket
    BY <2>1 DEF tk, Ticket
  <2>3. node' = PutTicket(u, b, tk)
    BY <1>2, <1>5
  <2>4. Same(u, node')
    BY <1>4, <2>2, <2>3, TicketSame
  <2> QED
    BY <1>3, <1>4, <2>4, SameTrans, SameStep
<1>6. CASE o = "retry"
  BY <1>2, <1>3, <1>6, SameStep
<1>7. CASE o = "fail"
  BY <1>2, <1>3, <1>7, SentStep
<1>8. CASE o = "fatal"
  BY <1>1, <1>2, <1>3, <1>8, SentStep
<1> QED
  BY <1>5, <1>6, <1>7, <1>8

LEMMA AnswerHistory ==
  ASSUME HistoryInv, NEW b \in Bundles, NEW status \in {"ok", "nack", "tempnack"}, Answer(b, status)
  PROVE  HistoryStep
<1>1. node \in Records /\ node.ticket[b].to # None /\ node' = Sent(node, b, status)
  BY NodeRecord DEF HistoryInv, Answer
<1> QED
  BY <1>1, SameAsItself, SentStep

LEMMA NeighbourDownHistory ==
  ASSUME HistoryInv, NEW n \in Peers, NeighbourDown(n)  PROVE HistoryStep
<1>1. node \in Records /\ node' = AllFailed(node, Unsent(n))
  BY NodeRecord DEF HistoryInv, NeighbourDown
<1>2. Same(node, node')
  BY <1>1, AllFailedSame
<1> QED
  BY <1>2, SameStep

LEMMA PruneHistory == ASSUME HistoryInv, Prune  PROVE HistoryStep
<1>1. node \in Records /\ History(node) /\ Fits(node) /\ node' \in Pruned(node)
  BY NodeRecord DEF HistoryInv, Prune
<1>2. /\ History(node') /\ Fits(node') /\ NothingNew(node, node')
      /\ node.stored \ node'.stored \subseteq expired
  BY <1>1, PrunedHistory
<1> QED
  BY <1>2 DEF HistoryStep, Kept

(***************************************************************************)
(* The routing task                                                        *)
(***************************************************************************)
LEMMA HandedPast ==
  ASSUME NEW s \in Records, NEW b \in Bundles, NEW t \in Handed(s, b)
  PROVE  /\ t \in Records /\ SamePast(s, t) /\ t.ticket = s.ticket
         /\ \A c \in Bundles : c # b => t.app[c] = s.app[c]
<1> DEFINE i == Inc(s, b)
           F == s.flags[b] \cup {"delivery"}
           f == PutFlags(i, b, F)
           L == f.locked \cup {b}
           d == [f EXCEPT !.locked = L]
<1>1. PICK a \in {"inbox", "lost"} : t = PutApp(d, b, a)
  BY DEF Handed, Deliver
<1>2. i \in Records /\ Same(s, i) /\ i.ticket = s.ticket /\ i.flags = s.flags
  BY RefSame
<1>3. i.app = s.app
  BY DEF Records, Inc
<1>4. F \in SUBSET Flag /\ F \cap {"local", "forward"} = s.flags[b] \cap {"local", "forward"}
  BY RecordFields DEF Flag
<1> HIDE DEF i, F
<1>5. f \in Records /\ Same(i, f) /\ f.ticket = i.ticket
  <2>1. i \in Records /\ F \cap {"local", "forward"} = i.flags[b] \cap {"local", "forward"}
    BY <1>2, <1>4
  <2>2. f \in Records /\ Same(i, f)
    BY <1>4, <2>1, FlagsSame
  <2>3. f.ticket = i.ticket
    BY <1>4, <2>1, FlagsRewant
  <2> QED
    BY <2>2, <2>3
<1>6. f.app = i.app
  BY <1>2 DEF Records, PutFlags
<1> HIDE DEF f
<1>7. L \in SUBSET Bundles
  BY <1>5 DEF Records
<1> HIDE DEF L
<1>8. d \in Records /\ Same(f, d) /\ d.ticket = f.ticket /\ d.app = f.app
  <2>1. d \in Records /\ Same(f, d)
    BY <1>5, <1>7, LockedSame
  <2>2. d.ticket = f.ticket /\ d.app = f.app
    BY <1>5 DEF Records
  <2> QED
    BY <2>1, <2>2
<1> HIDE DEF d
<1>9. /\ t \in Records /\ SamePast(d, t) /\ t.ticket = d.ticket /\ t.app = [d.app EXCEPT ![b] = a]
  BY <1>1, <1>8 DEF Records, SamePast, Wants, PutApp
<1>10. Same(s, d)
  BY <1>2, <1>5, <1>8, SameTrans
<1>11. SamePast(s, t)
  BY <1>9, <1>10 DEF Same, SamePast
<1>12. \A c \in Bundles : c # b => t.app[c] = s.app[c]
  BY <1>3, <1>6, <1>8, <1>9 DEF Records
<1> QED
  BY <1>2, <1>5, <1>8, <1>9, <1>11, <1>12

LEMMA EnqueuePast ==
  ASSUME NEW s \in Records, NEW G, NEW to
  PROVE  LET t == Enqueue(s, G, to)
         IN /\ SamePast(s, t) /\ t.app = s.app
            /\ t.ticket = [b \in Bundles |-> IF b \in G THEN [NoTicket EXCEPT !.to = to[b]]
                                             ELSE s.ticket[b]]
<1> DEFINE t == Enqueue(s, G, to)
<1>1. /\ t.stored = s.stored /\ t.routed = s.routed /\ t.sentTo = s.sentTo
      /\ t.answered = s.answered /\ t.app = s.app
      /\ t.ticket = [b \in Bundles |-> IF b \in G THEN [NoTicket EXCEPT !.to = to[b]]
                                       ELSE s.ticket[b]]
      /\ t.flags = [b \in Bundles |-> s.flags[b] \cup IF b \in G THEN {"transit"} ELSE {}]
  BY DEF Records, Enqueue
<1> HIDE DEF t
<1>2. Wants(t) = Wants(s)
  BY <1>1 DEF Wants
<1> QED
  BY <1>1, <1>2 DEF SamePast, t

\* A peer that has answered has a place, so it is no target; nor is it the destination.
LEMMA TargetIsNew ==
  ASSUME NEW s \in Records, NEW b \in s.routed, History(s), "forward" \in s.flags[b],
         nbrs \subseteq Peers, NEW n \in Targets(s, b)
  PROVE  n \notin Range(s.answered[b])
<1>1. b \in Bundles
  BY DEF Records
<1>2. "forward" \in Wants(s)[b]
  BY <1>1, RecordFields
<1>3. \A p \in Range(s.answered[b]) \cap Peers : p \in Range(s.sentTo[b]) /\ p # Header[b].dst
  BY <1>1, <1>2 DEF History, Past
<1> QED
  BY <1>3 DEF Targets

Unrepeated ==
  \A b \in Bundles :
    /\ Sends(b) => node'.ticket[b].to \notin Range(node.answered[b])
    /\ Delivers(b) => Self \notin Range(node.answered[b])

LEMMA RoutingPassHistory ==
  ASSUME HistoryInv, RoutingPass
  PROVE  /\ History(node') /\ Fits(node') /\ node'.stored = node.stored
         /\ node'.routed = node.routed /\ Unrepeated
<1>1. node \in Records /\ History(node) /\ Fits(node) /\ nbrs \subseteq Peers
  BY NodeRecord DEF HistoryInv, Inv, Rest
<1>2. PICK s1 \in {node} \cup UNION {Handed(node, b) : b \in Deliverable} :
        \E G \in Granted(s1) : \E to \in [G -> nbrs] :
          /\ \A b \in G : to[b] \in Targets(s1, b)
          /\ node' = Enqueue(s1, G, to)
  BY DEF RoutingPass
<1>3. PICK G \in Granted(s1) : \E to \in [G -> nbrs] :
          /\ \A b \in G : to[b] \in Targets(s1, b)
          /\ node' = Enqueue(s1, G, to)
  BY <1>2
<1>4. PICK to \in [G -> nbrs] :
          /\ \A b \in G : to[b] \in Targets(s1, b)
          /\ node' = Enqueue(s1, G, to)
  BY <1>3
<1>5. Deliverable \subseteq Bundles
  BY <1>1 DEF Deliverable, Records
<1>6. /\ s1 \in Records /\ SamePast(node, s1) /\ s1.ticket = node.ticket
      /\ \A b \in Bundles : s1.app[b] # node.app[b] => b \in Deliverable
  <2>1. CASE s1 = node
    BY <1>1, <2>1 DEF SamePast
  <2>2. ASSUME NEW b \in Deliverable, s1 \in Handed(node, b)
        PROVE  /\ s1 \in Records /\ SamePast(node, s1) /\ s1.ticket = node.ticket
               /\ \A c \in Bundles : s1.app[c] # node.app[c] => c \in Deliverable
    <3>1. /\ s1 \in Records /\ SamePast(node, s1) /\ s1.ticket = node.ticket
          /\ \A c \in Bundles : c # b => s1.app[c] = node.app[c]
      BY <1>1, <1>5, <2>2, HandedPast
    <3> QED
      BY <3>1
  <2> QED
    BY <1>2, <2>1, <2>2
<1>7. /\ SamePast(s1, node') /\ node'.app = s1.app
      /\ node'.ticket = [b \in Bundles |-> IF b \in G THEN [NoTicket EXCEPT !.to = to[b]]
                                           ELSE s1.ticket[b]]
  BY <1>4, <1>6, EnqueuePast
<1>8. /\ History(s1) /\ History(node') /\ s1.answered = node.answered
      /\ node'.stored = node.stored /\ node'.routed = node.routed
  BY <1>1, <1>6, <1>7, SameHistory DEF SamePast
<1>9. ASSUME NEW b \in Bundles, Sends(b)
      PROVE  node'.ticket[b].to \notin Range(node.answered[b])
  <2>1. b \in G /\ node'.ticket[b] = [NoTicket EXCEPT !.to = to[b]]
    BY <1>6, <1>7, <1>9 DEF Sends
  <2>2. node'.ticket[b].to = to[b]
    BY <2>1 DEF NoTicket
  <2>3. b \in s1.routed /\ "forward" \in s1.flags[b]
    BY <2>1 DEF Granted, Waiting
  <2> QED
    BY <1>1, <1>4, <1>6, <1>8, <2>1, <2>2, <2>3, TargetIsNew
<1>10. ASSUME NEW b \in Bundles, Delivers(b)
       PROVE  Self \notin Range(node.answered[b])
  <2>1. b \in Deliverable
    BY <1>6, <1>7, <1>10 DEF Delivers, Given
  <2>2. b \in node.routed /\ "local" \in Wants(node)[b]
    BY <1>1, <2>1, RecordFields DEF Deliverable
  <2> QED
    BY <1>1, <2>2 DEF History, Past
<1> QED
  BY <1>1, <1>8, <1>9, <1>10 DEF Fits, Unrepeated

(***************************************************************************)
(* All steps                                                               *)
(***************************************************************************)
LEMMA InitHistory == ASSUME Init  PROVE HistoryInv
<1>1. /\ node.stored = {} /\ node.routed = {} /\ node.flags = [b \in Bundles |-> {}]
      /\ node.sentTo = [b \in Bundles |-> <<>>] /\ node.answered = [b \in Bundles |-> <<>>]
  BY DEF Init
<1>2. Wants(node) = [b \in Bundles |-> {}]
  BY <1>1 DEF Wants
<1>3. History(node)
  BY <1>1, <1>2 DEF History, Past
<1>4. Fits(node)
  BY <1>1, FS_EmptySet, SizeAssumption DEF Fits
<1> QED
  BY <1>3, <1>4, InitInv DEF HistoryInv

\* A step of the routing task is no repetition; any other step sends and delivers
\* nothing new.
LEMMA NextHistory ==
  ASSUME HistoryInv, "expired_held" \notin Faults, [Next]_vars
  PROVE  HistoryInv' /\ Unrepeated /\ Kept
<1>1. ASSUME HistoryStep \/ \E b \in Bundles : ArrivalStep(b)
      PROVE  History(node') /\ Fits(node') /\ Unrepeated /\ Kept
  <2>1. History(node') /\ Fits(node') /\ Kept /\ NothingGiven(node, node')
    BY <1>1 DEF HistoryStep, ArrivalStep, NothingNew
  <2> QED
    BY <2>1 DEF Unrepeated, NothingGiven, Sends, Delivers
<1>2. Inv'
  BY NextInv DEF HistoryInv
<1> DEFINE arrives == \E b \in Bundles : ArrivalStep(b)
<1> SUFFICES HistoryStep \/ arrives \/ (History(node') /\ Fits(node') /\ Unrepeated /\ Kept)
  BY <1>1, <1>2 DEF HistoryInv
<1>3. CASE AgentStep
  <2>1. CASE AgentBeacon \/ \E v \in Services : AgentCall(v)
    BY <2>1, UnchangedStep DEF AgentBeacon, AgentCall
  <2>2. CASE \E b \in Bundles : AgentSend(b) \/ AgentStored(b) \/ AgentDone(b)
    BY <2>2, AgentSendHistory, AgentStoredHistory, AgentDoneHistory
  <2> QED
    BY <1>3, <2>1, <2>2 DEF AgentStep
<1>4. CASE RoutingPass
  BY <1>4, RoutingPassHistory DEF Kept
<1>5. CASE Arrives
  BY <1>5, AppSendHistory, ReceiveHistory DEF Arrives
<1>6. CASE Topology
  <2>1. ASSUME NEW n \in Peers, NeighbourUp(n)  PROVE HistoryStep
    BY <2>1, UnchangedStep DEF NeighbourUp
  <2> QED
    BY <1>6, <2>1, NeighbourDownHistory DEF Topology
<1>7. CASE Called
  BY <1>7, UnchangedStep DEF Called, AppCall
<1>8. CASE Prune
  BY <1>8, PruneHistory
<1>9. ASSUME NEW b \in Bundles, Works(b)  PROVE HistoryStep
  BY <1>9, ExpiredAttemptHistory, UnencodedAttemptHistory, AttemptHistory DEF Works
<1>10. ASSUME NEW b \in Bundles, AppDone(b)  PROVE HistoryStep
  BY <1>10, AppDoneHistory
<1>11. ASSUME NEW b \in Bundles, Expire(b)  PROVE HistoryStep
  BY <1>11, UnchangedStep DEF Expire
<1>12. ASSUME NEW b \in Bundles, NEW status \in {"ok", "nack", "tempnack"}, Answer(b, status)
       PROVE  HistoryStep
  BY <1>12, AnswerHistory
<1>13. CASE UNCHANGED vars
  BY <1>13, UnchangedStep DEF vars
<1> QED
  BY <1>3, <1>4, <1>5, <1>6, <1>7, <1>8, <1>9, <1>10, <1>11, <1>12, <1>13 DEF Next

(***************************************************************************)
(* Announcements                                                           *)
(***************************************************************************)
\* Bundles whose announcement is in the queue.
Coming(q) == {b \in Bundles : \E i \in DOMAIN q : q[i] = Event("stored", b)}

LEMMA ComingPost ==
  ASSUME NEW q, IsQueue(q), NEW kind, NEW about, Event(kind, about) \in Events
  PROVE  /\ Coming(q) \subseteq Coming(Post(q, kind, about))
         /\ kind = "stored" /\ about \in Bundles /\ Len(q) < QueueLen
              => about \in Coming(Post(q, kind, about))
<1> DEFINE e == Event(kind, about)
           p == Append(q, e)
<1>1. CASE Len(q) < QueueLen
  <2>1. /\ DOMAIN p = 1 .. Len(q) + 1 /\ DOMAIN q = 1 .. Len(q) /\ Len(q) \in Nat
        /\ p[Len(q) + 1] = e /\ \A i \in 1 .. Len(q) : p[i] = q[i]
    BY DEF IsQueue
  <2> HIDE DEF p
  <2>2. Coming(q) \subseteq Coming(p)
    BY <2>1 DEF Coming
  <2>3. kind = "stored" /\ about \in Bundles => about \in Coming(p)
    <3>1. Len(q) + 1 \in DOMAIN p
      BY <2>1
    <3> QED
      BY <2>1, <3>1 DEF Coming
  <2> QED
    BY <1>1, <2>2, <2>3 DEF Post, p
<1>2. CASE ~(Len(q) < QueueLen)
  BY <1>2 DEF Post
<1> QED
  BY <1>1, <1>2

\* Of the announcements, only the one that is taken is not in the queue any more.
LEMMA ComingTail ==
  ASSUME NEW q, IsQueue(q), q # <<>>, NEW c \in Coming(q), Head(q) # Event("stored", c)
  PROVE  c \in Coming(Tail(q))
<1> DEFINE p == Tail(q)
<1>1. /\ DOMAIN p = 1 .. Len(q) - 1 /\ DOMAIN q = 1 .. Len(q) /\ Len(q) \in Nat \ {0}
      /\ q[1] = Head(q) /\ \A i \in 1 .. Len(q) - 1 : p[i] = q[i + 1]
  BY DEF IsQueue
<1> HIDE DEF p
<1>2. PICK i \in DOMAIN q : q[i] = Event("stored", c)
  BY DEF Coming
<1>3. i # 1
  BY <1>1, <1>2
<1>4. i - 1 \in DOMAIN p /\ p[i - 1] = q[i]
  BY <1>1, <1>3
<1>5. c \in Coming(p)
  BY <1>2, <1>4 DEF Coming
<1> QED
  BY <1>5 DEF p

LEMMA TakesComing ==
  ASSUME HistoryInv, NEW kind \in (Kinds \cup Calls) \ {"stored"},
         NEW about \in Bundles \cup Services \cup {None}, Takes(kind, about)
  PROVE  Coming(queue) \subseteq Coming(queue')
<1>1. IsQueue(queue) /\ queue # <<>> /\ queue' = Tail(queue)
  BY DEF HistoryInv, Inv, Takes
<1> SUFFICES ASSUME NEW c \in Coming(queue)  PROVE c \in Coming(queue')
  OBVIOUS
<1>2. c \in Bundles
  BY DEF Coming
<1>3. Head(queue).kind = kind /\ Event("stored", c).kind = "stored"
  BY <1>2, EventType DEF Takes, Kinds
<1> QED
  BY <1>1, <1>3, ComingTail

LEMMA PostComing ==
  ASSUME HistoryInv, NEW kind \in Kinds \cup Calls, NEW about \in Bundles \cup Services \cup {None},
         queue' = Post(queue, kind, about)
  PROVE  Coming(queue) \subseteq Coming(queue')
<1>1. IsQueue(queue) /\ Event(kind, about) \in Events
  BY EventType DEF HistoryInv, Inv
<1> QED
  BY <1>1, ComingPost

\* Nothing is left without an announcement by a handler, but by a full queue, or by a
\* lack of memory for the entry.
IsAnnounced(s, q) == Unannounced(s) \subseteq Coming(q)

LEMMA StillAnnounced ==
  ASSUME IsAnnounced(node, queue), HistoryStep, Coming(queue) \subseteq Coming(queue')
  PROVE  IsAnnounced(node', queue')
  BY DEF IsAnnounced, HistoryStep, NothingNew

LEMMA AgentAnnounced ==
  ASSUME HistoryInv, IsAnnounced(node, queue), "no_memory" \notin Faults, AgentStep
  PROVE  IsAnnounced(node', queue')
<1>1. CASE AgentBeacon
  <2>1. Coming(queue) \subseteq Coming(queue')
    BY <1>1, TakesComing DEF AgentBeacon, Kinds
  <2> QED
    BY <1>1, <2>1, UnchangedStep, StillAnnounced DEF AgentBeacon
<1>2. ASSUME NEW v \in Services, AgentCall(v)  PROVE IsAnnounced(node', queue')
  <2>1. PICK kind \in Calls : Takes(kind, v)
    BY <1>2 DEF AgentCall, Calls
  <2>2. Coming(queue) \subseteq Coming(queue')
    BY <2>1, TakesComing DEF Calls
  <2> QED
    BY <1>2, <2>2, UnchangedStep, StillAnnounced DEF AgentCall
<1>3. ASSUME NEW b \in Bundles, AgentSend(b)  PROVE IsAnnounced(node', queue')
  <2>1. Coming(queue) \subseteq Coming(queue')
    BY <1>3, TakesComing DEF AgentSend, Kinds
  <2>2. NothingNew(node, node')
    BY <1>3, AgentSendHistory
  <2> QED
    BY <2>1, <2>2 DEF IsAnnounced, NothingNew
<1>4. ASSUME NEW b \in Bundles, AgentDone(b)  PROVE IsAnnounced(node', queue')
  <2>1. Coming(queue) \subseteq Coming(queue')
    BY <1>4, TakesComing DEF AgentDone, Kinds
  <2> QED
    BY <1>4, <2>1, AgentDoneHistory, StillAnnounced
<1>5. ASSUME NEW b \in Bundles, AgentStored(b)  PROVE IsAnnounced(node', queue')
  <2>1. node \in Records /\ History(node) /\ IsQueue(queue)
    BY NodeRecord DEF HistoryInv, Inv
  <2>2. NothingNew(node, node') /\ b \notin Unannounced(node')
    BY <1>5, <2>1, NewBundleHistory DEF AgentStored
  <2>3. ASSUME NEW c \in Coming(queue), c # b  PROVE c \in Coming(queue')
    <3>1. c \in Bundles
      BY DEF Coming
    <3>2. Event("stored", c).about = c /\ Event("stored", b).about = b
      BY <3>1, EventType DEF Kinds
    <3>3. queue # <<>> /\ Head(queue) = Event("stored", b) /\ queue' = Tail(queue)
      BY <1>5 DEF AgentStored, Takes
    <3> QED
      BY <2>1, <2>3, <3>2, <3>3, ComingTail
  <2> QED
    BY <2>2, <2>3 DEF IsAnnounced, NothingNew
<1> QED
  BY <1>1, <1>2, <1>3, <1>4, <1>5 DEF AgentStep

LEMMA ArrivesAnnounced ==
  ASSUME HistoryInv, IsAnnounced(node, queue), "queue_full" \notin Faults, Arrives
  PROVE  IsAnnounced(node', queue')
<1>1. ASSUME NEW b \in Bundles, AppSend(b)  PROVE IsAnnounced(node', queue')
  <2>1. Coming(queue) \subseteq Coming(queue')
    BY <1>1, PostComing DEF AppSend, Kinds
  <2> QED
    BY <1>1, <2>1, AppSendHistory, StillAnnounced
<1>2. ASSUME NEW b \in Bundles, NEW n \in Peers, Receive(b, n)  PROVE IsAnnounced(node', queue')
  <2>1. /\ Unannounced(node') \subseteq Unannounced(node) \cup {b}
        /\ \/ NothingNew(node, node') /\ UNCHANGED queue
           \/ queue' = Post(queue, "stored", b)
    BY <1>2, ReceiveHistory DEF ArrivalStep
  <2>2. CASE NothingNew(node, node') /\ UNCHANGED queue
    BY <2>2 DEF IsAnnounced, NothingNew
  <2>3. CASE queue' = Post(queue, "stored", b)
    <3>1. IsQueue(queue) /\ Len(queue) < QueueLen
      BY <1>2 DEF Receive, MayPost, HasSpace, HistoryInv, Inv
    <3>2. Event("stored", b) \in Events
      BY EventType DEF Kinds
    <3>3. Coming(queue) \subseteq Coming(queue') /\ b \in Coming(queue')
      BY <2>3, <3>1, <3>2, ComingPost
    <3> QED
      BY <2>1, <3>3 DEF IsAnnounced
  <2> QED
    BY <2>1, <2>2, <2>3
<1> QED
  BY <1>1, <1>2 DEF Arrives

LEMMA NextAnnounced ==
  ASSUME HistoryInv, IsAnnounced(node, queue), {"queue_full", "no_memory"} \cap Faults = {},
         [Next]_vars
  PROVE  IsAnnounced(node', queue')
<1>1. CASE AgentStep \/ Arrives
  BY <1>1, AgentAnnounced, ArrivesAnnounced
<1>2. CASE RoutingPass
  <2>1. node'.stored = node.stored /\ node'.routed = node.routed /\ queue' = queue
    BY <1>2, RoutingPassHistory DEF RoutingPass
  <2> QED
    BY <2>1 DEF IsAnnounced, Unannounced
<1>3. CASE Topology
  <2>1. ASSUME NEW n \in Peers, NeighbourUp(n)  PROVE IsAnnounced(node', queue')
    <3>1. Coming(queue) \subseteq Coming(queue')
      BY <2>1, PostComing DEF NeighbourUp, Kinds
    <3> QED
      BY <2>1, <3>1, UnchangedStep, StillAnnounced DEF NeighbourUp
  <2>2. ASSUME NEW n \in Peers, NeighbourDown(n)  PROVE IsAnnounced(node', queue')
    BY <2>2, NeighbourDownHistory, StillAnnounced DEF NeighbourDown
  <2> QED
    BY <1>3, <2>1, <2>2 DEF Topology
<1>4. CASE Called
  <2>1. PICK c \in AppCalls : AppCall(c[1], c[2])
    BY <1>4 DEF Called
  <2>2. c[1] \in Calls /\ c[2] \in Services
    BY EnvironmentAssumption
  <2>3. Coming(queue) \subseteq Coming(queue')
    BY <2>1, <2>2, PostComing DEF AppCall
  <2> QED
    BY <2>1, <2>3, UnchangedStep, StillAnnounced DEF AppCall
<1>5. CASE Prune
  BY <1>5, PruneHistory, StillAnnounced DEF Prune
<1>6. ASSUME NEW b \in Bundles, Works(b)  PROVE IsAnnounced(node', queue')
  <2>1. HistoryStep
    BY <1>6, ExpiredAttemptHistory, UnencodedAttemptHistory, AttemptHistory DEF Works
  <2>2. UNCHANGED queue
    BY <1>6 DEF Works, ExpiredAttempt, UnencodedAttempt, Attempt
  <2> QED
    BY <2>1, <2>2, StillAnnounced
<1>7. ASSUME NEW b \in Bundles, AppDone(b)  PROVE IsAnnounced(node', queue')
  <2>1. Coming(queue) \subseteq Coming(queue')
    BY <1>7, PostComing DEF AppDone, Kinds
  <2> QED
    BY <1>7, <2>1, AppDoneHistory, StillAnnounced
<1>8. ASSUME NEW b \in Bundles, Expire(b)  PROVE IsAnnounced(node', queue')
  BY <1>8, UnchangedStep, StillAnnounced DEF Expire
<1>9. ASSUME NEW b \in Bundles, NEW status \in {"ok", "nack", "tempnack"}, Answer(b, status)
      PROVE  IsAnnounced(node', queue')
  BY <1>9, AnswerHistory, StillAnnounced DEF Answer
<1>10. CASE UNCHANGED vars
  BY <1>10 DEF vars
<1> QED
  BY <1>1, <1>2, <1>3, <1>4, <1>5, <1>6, <1>7, <1>8, <1>9, <1>10 DEF Next

(***************************************************************************)
(* The theorems                                                            *)
(***************************************************************************)
LEMMA SpecHistory == ASSUME "expired_held" \notin Faults  PROVE Spec => []HistoryInv
<1>1. Init => HistoryInv
  BY InitHistory
<1>2. HistoryInv /\ [Next]_vars => HistoryInv'
  BY NextHistory
<1> QED
  BY <1>1, <1>2, PTL DEF Spec

\* Whoever has answered for a bundle, a peer or the service here, is not given it once
\* more, as long as it stays stored: for any number of peers, in any order of losses,
\* refusals and changes of the neighbourhood.
THEOREM NobodyTwice == ASSUME "expired_held" \notin Faults  PROVE Spec => NoRepeat
<1>1. HistoryInv /\ [Next]_vars => Unrepeated
  BY NextHistory
<1>2. Unrepeated =>
        \A b \in Bundles :
          /\ Sends(b) => node'.ticket[b].to \notin Range(node.answered[b])
          /\ Delivers(b) => Self \notin Range(node.answered[b])
  BY DEF Unrepeated
<1> QED
  BY <1>1, <1>2, SpecHistory, PTL DEF Spec, NoRepeat

\* No handler drops a bundle that is in date, still wanted somewhere, and not in the way
\* of one that is as urgent.
THEOREM LeavesServed ==
  ASSUME Recorded = Bundles, {"fatal", "expired_held"} \cap Faults = {}
  PROVE  Spec => KeptUntilServed
<1>1. HistoryInv /\ [Next]_vars =>
        \A b \in node.stored \ node'.stored : b \in expired \/ Evictable(b) \/ Served(b)
  BY NextHistory DEF Kept
<1>2. Spec => []HistoryInv
  <2>1. "expired_held" \notin Faults
    OBVIOUS
  <2> QED
    BY <2>1, SpecHistory
<1> QED
  BY <1>1, <1>2, PTL DEF Spec, KeptUntilServed

\* No bundle is forgotten in the storage: routing has an entry for it, or the event that
\* makes it have one is in the queue.
THEOREM StoredAnnounced ==
  ASSUME {"queue_full", "no_memory", "expired_held"} \cap Faults = {}
  PROVE  Spec => []Announced
<1>0. {"queue_full", "no_memory"} \cap Faults = {} /\ "expired_held" \notin Faults
  OBVIOUS
<1> DEFINE announced == IsAnnounced(node, queue)
<1>1. Spec => []HistoryInv
  BY <1>0, SpecHistory
<1>2. Init => announced
  BY DEF Init, IsAnnounced, Unannounced
<1>3. HistoryInv /\ announced /\ [Next]_vars => announced'
  BY <1>0, NextAnnounced
<1>4. announced => Announced
  BY DEF IsAnnounced, Unannounced, Coming, Announced
<1> HIDE DEF announced
<1> QED
  BY <1>1, <1>2, <1>3, <1>4, PTL DEF Spec
(***************************************************************************)
(* Services.  D is the set of bundles services have.                       *)
(***************************************************************************)
ServicesAgree(g, D) ==
  /\ \A r, q \in Blocks : g[r].srv # None /\ g[q].srv = g[r].srv => q = r
  /\ \A r \in Blocks : g[r].busy => g[r].active /\ \E b \in D : Header[b].srv = g[r].srv
  /\ \A b \in D : \E r \in Blocks : g[r].srv = Header[b].srv /\ g[r].busy
  /\ \A b, c \in D : Header[b].srv = Header[c].srv => b = c
GivenNow(s) == {b \in Bundles : Given(s, b)}
\* No service is taken back or made passive.
NoneLeaves(q) == \A i \in DOMAIN q : q[i].kind \notin {"passivate", "remove"}
ServiceInv == HistoryInv /\ ServicesAgree(reg, GivenNow(node)) /\ NoneLeaves(queue)

LEMMA FirstBlockIsFree == ASSUME FreeBlocks # {}  PROVE FirstBlock \in FreeBlocks
<1>1. FreeBlocks \subseteq Nat
  BY SizeAssumption DEF FreeBlocks, Blocks
<1>2. PICK r \in FreeBlocks : \A q \in FreeBlocks : ~(<<q, r>> \in OpToRel(<, Nat))
  BY <1>1, NatLessThanWellFounded, WFMin
<1>3. ASSUME NEW q \in FreeBlocks  PROVE ~(q < r)
  BY <1>1, <1>2 DEF OpToRel
<1>4. \A q \in FreeBlocks : r <= q
  BY <1>1, <1>3
<1> QED
  BY <1>4 DEF FirstBlock

\* The block a service gets is free, and a free block is not busy.
LEMMA RegisterAgrees ==
  ASSUME reg \in [Blocks -> Registration], NEW D \in SUBSET Bundles, ServicesAgree(reg, D),
         NEW v \in Services, Register(v)
  PROVE  ServicesAgree(reg', D)
<1>1. CASE UNCHANGED reg
  BY <1>1
<1>2. CASE ~Registered(v) /\ FreeBlocks # {}
  <2> DEFINE f == FirstBlock
             g == reg'
  <2>1. f \in Blocks /\ reg[f].srv = None
    BY <1>2, FirstBlockIsFree DEF FreeBlocks
  <2>2. g = [reg EXCEPT ![f].srv = v, ![f].active = TRUE]
    BY <1>2 DEF Register
  <2> HIDE DEF f
  <2>3. g[f].srv = v /\ g[f].active /\ g[f].busy = reg[f].busy
    BY <2>1, <2>2 DEF Registration
  <2>4. \A r \in Blocks : r # f => g[r] = reg[r]
    BY <2>1, <2>2
  <2>5. \A b \in Bundles : Header[b].srv \in Services
    BY HeaderAssumption
  <2>6. ~reg[f].busy
    BY <2>1, <2>5, NameAssumption DEF ServicesAgree
  <2>7. \A r \in Blocks : reg[r].srv # v
    BY <1>2 DEF Registered
  <2>8. v # None
    BY NameAssumption
  <2> HIDE DEF g
  <2>9. \A r, q \in Blocks : g[r].srv # None /\ g[q].srv = g[r].srv => q = r
    BY <2>3, <2>4, <2>7 DEF ServicesAgree
  <2>10. \A r \in Blocks : g[r].busy => g[r].active /\ \E b \in D : Header[b].srv = g[r].srv
    BY <2>3, <2>4, <2>6 DEF ServicesAgree
  <2>11. \A b \in D : \E r \in Blocks : g[r].srv = Header[b].srv /\ g[r].busy
    BY <2>4, <2>6 DEF ServicesAgree
  <2>12. ServicesAgree(g, D)
    BY <2>9, <2>10, <2>11 DEF ServicesAgree
  <2> QED
    BY <2>12 DEF g
<1> QED
  BY <1>1, <1>2 DEF Register

LEMMA SwitchAgrees ==
  ASSUME reg \in [Blocks -> Registration], NEW D, ServicesAgree(reg, D), NEW v, Switch(v, TRUE)
  PROVE  ServicesAgree(reg', D)
<1>1. \A r \in Blocks : /\ reg'[r].srv = reg[r].srv /\ reg'[r].busy = reg[r].busy
                        /\ reg[r].active => reg'[r].active
  BY DEF Switch, Registration
<1> QED
  BY <1>1 DEF ServicesAgree

\* The event of the service finds its block, which is the only one with that number.
LEMMA UnblockAgrees ==
  ASSUME reg \in [Blocks -> Registration], NEW D \in SUBSET Bundles, ServicesAgree(reg, D),
         \A v, w \in Services : AppOf[v] = AppOf[w] => v = w,
         NEW b \in D, Unblock(Header[b].srv)
  PROVE  ServicesAgree(reg', D \ {b})
<1> DEFINE v == Header[b].srv
           g == reg'
<1>1. v \in Services /\ v # None
  BY HeaderAssumption, NameAssumption
<1>2. PICK r \in Blocks : reg[r].srv = v /\ reg[r].busy
  BY DEF ServicesAgree
<1>3. reg[r].active
  BY <1>2 DEF ServicesAgree
<1>4. r \in BusyBlocks(v)
  BY <1>1, <1>2, <1>3 DEF BusyBlocks
<1>5. PICK q \in BusyBlocks(v) : g = [reg EXCEPT ![q].busy = FALSE]
  BY <1>4 DEF Unblock
<1>6. q \in Blocks /\ reg[q].srv # None /\ AppOf[reg[q].srv] = AppOf[v]
  BY <1>5 DEF BusyBlocks
<1>7. reg[q].srv \in Services
  BY <1>6 DEF Registration
<1>8. q = r
  BY <1>1, <1>2, <1>6, <1>7 DEF ServicesAgree
<1>9. /\ g[r].srv = v /\ ~g[r].busy
      /\ \A p \in Blocks : p # r => g[p] = reg[p]
      /\ \A p \in Blocks : g[p].srv = reg[p].srv
  BY <1>2, <1>5, <1>8 DEF Registration
<1> HIDE DEF g
<1>10. \A p, u \in Blocks : g[p].srv # None /\ g[u].srv = g[p].srv => u = p
  BY <1>9 DEF ServicesAgree
<1>11. ASSUME NEW p \in Blocks, g[p].busy
       PROVE  g[p].active /\ \E c \in D \ {b} : Header[c].srv = g[p].srv
  <2>1. p # r /\ g[p] = reg[p]
    BY <1>9, <1>11
  <2>2. PICK c \in D : Header[c].srv = reg[p].srv
    BY <1>11, <2>1 DEF ServicesAgree
  <2>3. c # b
    BY <1>1, <1>2, <2>1, <2>2 DEF ServicesAgree
  <2> QED
    BY <1>11, <2>1, <2>2, <2>3 DEF ServicesAgree
<1>12. ASSUME NEW c \in D \ {b}
       PROVE  \E p \in Blocks : g[p].srv = Header[c].srv /\ g[p].busy
  <2>1. PICK p \in Blocks : reg[p].srv = Header[c].srv /\ reg[p].busy
    BY DEF ServicesAgree
  <2>2. p # r
    BY <1>2, <2>1 DEF ServicesAgree
  <2> QED
    BY <1>9, <2>1, <2>2
<1>13. ServicesAgree(g, D \ {b})
  BY <1>10, <1>11, <1>12 DEF ServicesAgree
<1> QED
  BY <1>13 DEF g

LEMMA DeliverAgrees ==
  ASSUME reg \in [Blocks -> Registration], NEW D \in SUBSET Bundles, ServicesAgree(reg, D),
         NEW b \in Bundles, NEW r \in Serving(b), ~reg[r].busy,
         reg' = [reg EXCEPT ![r].busy = TRUE]
  PROVE  ServicesAgree(reg', D \cup {b})
<1> DEFINE g == reg'
<1>1. r \in Blocks /\ reg[r].srv = Header[b].srv /\ reg[r].active
  BY DEF Serving
<1>2. reg[r].srv # None
  BY <1>1, HeaderAssumption, NameAssumption
<1>3. /\ g[r].srv = Header[b].srv /\ g[r].busy /\ g[r].active
      /\ \A p \in Blocks : p # r => g[p] = reg[p]
      /\ \A p \in Blocks : g[p].srv = reg[p].srv
  BY <1>1 DEF Registration
<1> HIDE DEF g
<1>4. \A p, u \in Blocks : g[p].srv # None /\ g[u].srv = g[p].srv => u = p
  BY <1>3 DEF ServicesAgree
<1>5. \A p \in Blocks : g[p].busy => g[p].active /\ \E c \in D \cup {b} : Header[c].srv = g[p].srv
  BY <1>3 DEF ServicesAgree
<1>6. ASSUME NEW c \in D  PROVE Header[c].srv # Header[b].srv
  <2>1. PICK p \in Blocks : reg[p].srv = Header[c].srv /\ reg[p].busy
    BY DEF ServicesAgree
  <2> QED
    BY <1>1, <1>2, <2>1 DEF ServicesAgree
<1>7. \A c \in D \cup {b} : \E p \in Blocks : g[p].srv = Header[c].srv /\ g[p].busy
  <2>1. ASSUME NEW c \in D  PROVE \E p \in Blocks : g[p].srv = Header[c].srv /\ g[p].busy
    <3>1. PICK p \in Blocks : reg[p].srv = Header[c].srv /\ reg[p].busy
      BY DEF ServicesAgree
    <3>2. p # r
      BY <3>1
    <3> QED
      BY <1>3, <3>1, <3>2
  <2> QED
    BY <1>1, <1>3, <2>1
<1>8. \A c, d \in D \cup {b} : Header[c].srv = Header[d].srv => c = d
  BY <1>6 DEF ServicesAgree
<1>9. ServicesAgree(g, D \cup {b})
  BY <1>4, <1>5, <1>7, <1>8 DEF ServicesAgree
<1> QED
  BY <1>9 DEF g

LEMMA LeavesPost ==
  ASSUME NEW q, IsQueue(q), NoneLeaves(q), NEW kind \in Kinds \cup Calls,
         kind \notin {"passivate", "remove"}, NEW about \in Bundles \cup Services \cup {None}
  PROVE  NoneLeaves(Post(q, kind, about))
<1> DEFINE e == Event(kind, about)
           p == Append(q, e)
<1>1. e \in Events /\ e.kind = kind
  BY EventType
<1> HIDE DEF e
<1>2. CASE Len(q) < QueueLen
  <2>1. /\ DOMAIN p = 1 .. Len(q) + 1 /\ DOMAIN q = 1 .. Len(q) /\ Len(q) \in Nat
        /\ p[Len(q) + 1] = e /\ \A i \in 1 .. Len(q) : p[i] = q[i]
    BY <1>1 DEF IsQueue
  <2> HIDE DEF p
  <2>2. NoneLeaves(p)
    BY <1>1, <2>1 DEF NoneLeaves
  <2> QED
    BY <1>2, <2>2 DEF Post, p, e
<1>3. CASE ~(Len(q) < QueueLen)
  BY <1>3 DEF Post
<1> QED
  BY <1>2, <1>3

LEMMA LeavesTail ==
  ASSUME NEW kind, NEW about, Takes(kind, about), ServiceInv
  PROVE  NoneLeaves(queue') /\ (kind \in Kinds \cup Calls /\ about \in Bundles \cup Services \cup {None}
                                  => kind \notin {"passivate", "remove"})
<1> DEFINE p == Tail(queue)
<1>1. /\ DOMAIN p = 1 .. Len(queue) - 1 /\ DOMAIN queue = 1 .. Len(queue) /\ Len(queue) \in Nat \ {0}
      /\ queue[1] = Head(queue) /\ \A i \in 1 .. Len(queue) - 1 : p[i] = queue[i + 1]
  BY DEF Takes, ServiceInv, HistoryInv, Inv, IsQueue
<1>2. queue' = p /\ Head(queue) = Event(kind, about)
  BY DEF Takes
<1>3. NoneLeaves(queue)
  BY DEF ServiceInv
<1> HIDE DEF p
<1>4. NoneLeaves(p)
  BY <1>1, <1>3 DEF NoneLeaves
<1>5. Event(kind, about).kind \notin {"passivate", "remove"}
  BY <1>1, <1>2, <1>3 DEF NoneLeaves
<1> QED
  BY <1>2, <1>4, <1>5, EventType

\* Most steps leave the services and what they have alone.
LEMMA QuietServices ==
  ASSUME ServiceInv, UNCHANGED reg, SameGiven
  PROVE  ServicesAgree(reg', GivenNow(node'))
<1>1. GivenNow(node') = GivenNow(node)
  BY DEF SameGiven, GivenNow
<1> QED
  BY <1>1 DEF ServiceInv

LEMMA UnchangedGiven == ASSUME node' = node  PROVE SameGiven
  BY DEF SameGiven

\* An idle service is given one bundle, and becomes busy.
LEMMA RoutingPassServices ==
  ASSUME ServiceInv, RoutingPass, "app_full" \notin Faults
  PROVE  ServicesAgree(reg', GivenNow(node'))
<1>1. /\ node \in Records /\ reg \in [Blocks -> Registration]
      /\ ServicesAgree(reg, GivenNow(node)) /\ GivenNow(node) \in SUBSET Bundles
  BY NodeRecord DEF ServiceInv, HistoryInv, Inv, Rest, GivenNow
<1>2. PICK s1 \in {node} \cup UNION {Handed(node, b) : b \in Deliverable} :
        /\ LocalPass(node, s1)
        /\ \E G \in Granted(s1) : \E to \in [G -> nbrs] : node' = Enqueue(s1, G, to)
  BY DEF RoutingPass
<1>3. PICK G \in Granted(s1) : \E to \in [G -> nbrs] : node' = Enqueue(s1, G, to)
  BY <1>2
<1>4. PICK to \in [G -> nbrs] : node' = Enqueue(s1, G, to)
  BY <1>3
<1>5. ASSUME s1 \in Records  PROVE GivenNow(node') = GivenNow(s1)
  <2>1. /\ SamePast(s1, node') /\ node'.app = s1.app
        /\ node'.ticket = [b \in Bundles |-> IF b \in G THEN [NoTicket EXCEPT !.to = to[b]]
                                             ELSE s1.ticket[b]]
    BY <1>4, <1>5, EnqueuePast
  <2> QED
    BY <2>1 DEF GivenNow, Given
<1>6. CASE s1 = node /\ UNCHANGED reg
  BY <1>1, <1>5, <1>6
<1>7. ASSUME NEW b \in Deliverable, NEW r \in Serving(b), ~reg[r].busy, s1 \in Handed(node, b),
             reg' = [reg EXCEPT ![r].busy = TRUE]
      PROVE  ServicesAgree(reg', GivenNow(node'))
  <2>1. b \in Bundles
    BY <1>1 DEF Deliverable, Records
  <2>2. s1 \in Records /\ \A c \in Bundles : c # b => s1.app[c] = node.app[c]
    BY <1>1, <1>7, <2>1, HandedPast
  <2>3. s1.app[b] = "inbox"
    <3> DEFINE d == Deliver(node, b)
    <3>1. s1 = PutApp(d, b, "inbox")
      BY <1>7 DEF Handed
    <3>2. d.app = node.app /\ DOMAIN node.app = Bundles
      BY <1>1 DEF Deliver, PutFlags, Inc, Records
    <3>3. s1.app = [d.app EXCEPT ![b] = "inbox"]
      BY <1>1, <3>1 DEF PutApp, Deliver, PutFlags, Inc, Records
    <3> HIDE DEF d
    <3> QED
      BY <2>1, <3>2, <3>3
  <2>4. GivenNow(s1) = GivenNow(node) \cup {b}
    BY <2>1, <2>2, <2>3 DEF GivenNow, Given
  <2>5. ServicesAgree(reg', GivenNow(node) \cup {b})
    BY <1>1, <1>7, <2>1, DeliverAgrees
  <2> QED
    BY <1>5, <2>2, <2>4, <2>5
<1> QED
  BY <1>2, <1>6, <1>7 DEF LocalPass

LEMMA AgentServices ==
  ASSUME ServiceInv, \A v, w \in Services : AppOf[v] = AppOf[w] => v = w, AgentStep
  PROVE  ServicesAgree(reg', GivenNow(node')) /\ NoneLeaves(queue')
<1>1. /\ Inv /\ reg \in [Blocks -> Registration] /\ ServicesAgree(reg, GivenNow(node))
      /\ GivenNow(node) \in SUBSET Bundles
  BY DEF ServiceInv, HistoryInv, Inv, Rest, GivenNow
<1>2. CASE AgentBeacon
  BY <1>2, LeavesTail, QuietServices, UnchangedGiven DEF AgentBeacon
<1>3. ASSUME NEW v \in Services, AgentCall(v)
      PROVE  ServicesAgree(reg', GivenNow(node')) /\ NoneLeaves(queue')
  <2>1. node' = node
    BY <1>3 DEF AgentCall
  <2>2. CASE Takes("register", v) /\ Register(v)
    BY <1>1, <2>1, <2>2, RegisterAgrees, LeavesTail
  <2>3. CASE Takes("activate", v) /\ Switch(v, TRUE)
    BY <1>1, <2>1, <2>3, SwitchAgrees, LeavesTail
  <2>4. ~Takes("passivate", v) /\ ~Takes("remove", v)
    BY LeavesTail DEF Calls
  <2> QED
    BY <1>3, <2>2, <2>3, <2>4 DEF AgentCall
<1>4. ASSUME NEW b \in Bundles, AgentSend(b) \/ AgentStored(b)
      PROVE  ServicesAgree(reg', GivenNow(node')) /\ NoneLeaves(queue')
  <2>1. SameGiven
    BY <1>1, <1>4, AgentSendInv, AgentStoredInv
  <2>2. UNCHANGED reg /\ NoneLeaves(queue')
    BY <1>4, LeavesTail DEF AgentSend, AgentStored
  <2> QED
    BY <2>1, <2>2, QuietServices
<1>5. ASSUME NEW b \in Bundles, AgentDone(b)
      PROVE  ServicesAgree(reg', GivenNow(node')) /\ NoneLeaves(queue')
  <2>1. /\ Unblock(Header[b].srv) /\ Given(node, b) /\ ~Given(node', b)
        /\ \A c \in Bundles : c # b => (Given(node', c) <=> Given(node, c))
    BY <1>1, <1>5, AgentDoneInv
  <2>2. b \in GivenNow(node) /\ GivenNow(node') = GivenNow(node) \ {b}
    BY <2>1 DEF GivenNow
  <2>3. ServicesAgree(reg', GivenNow(node) \ {b})
    BY <1>1, <2>1, <2>2, UnblockAgrees
  <2> QED
    BY <1>5, <2>2, <2>3, LeavesTail DEF AgentDone
<1> QED
  BY <1>2, <1>3, <1>4, <1>5 DEF AgentStep

LEMMA NextServices ==
  ASSUME ServiceInv, \A v, w \in Services : AppOf[v] = AppOf[w] => v = w,
         \A c \in AppCalls : c[1] \notin {"passivate", "remove"},
         {"queue_full", "app_full", "expired_held"} \cap Faults = {}, [Next]_vars
  PROVE  ServiceInv'
<1> DEFINE agree == ServicesAgree(reg', GivenNow(node')) /\ NoneLeaves(queue')
<1>0. Inv /\ IsQueue(queue) /\ NoneLeaves(queue) /\ ServicesAgree(reg, GivenNow(node))
  BY DEF ServiceInv, HistoryInv, Inv
<1>1. ASSUME UNCHANGED <<queue, reg>>, SameGiven  PROVE agree
  BY <1>0, <1>1, QuietServices
<1>2. ASSUME UNCHANGED reg, SameGiven, NEW kind \in Kinds \cup Calls,
             kind \notin {"passivate", "remove"}, NEW about \in Bundles \cup Services \cup {None},
             queue' = Post(queue, kind, about)
      PROVE  agree
  BY <1>0, <1>2, QuietServices, LeavesPost
<1> HIDE DEF agree
<1> SUFFICES agree
  BY NextHistory DEF agree, ServiceInv
<1>3. CASE AgentStep
  BY <1>3, AgentServices DEF agree
<1>4. CASE RoutingPass
  BY <1>0, <1>4, RoutingPassServices DEF agree, RoutingPass
<1>5. ASSUME NEW b \in Bundles, AppSend(b)  PROVE agree
  BY <1>0, <1>2, <1>5, AppSendInv DEF AppSend, Kinds
<1>6. ASSUME NEW b \in Bundles, NEW n \in Peers, Receive(b, n)  PROVE agree
  <2>1. SameGiven /\ UNCHANGED reg
    BY <1>0, <1>6, ReceiveInv DEF Receive
  <2>2. queue' = queue \/ queue' = Post(queue, "stored", b)
    BY <1>6 DEF Receive, Accept, Reject
  <2> QED
    BY <1>1, <1>2, <2>1, <2>2 DEF Kinds
<1>7. CASE Topology
  <2>1. ASSUME NEW n \in Peers, NeighbourUp(n)  PROVE agree
    BY <1>2, <2>1, UnchangedGiven DEF NeighbourUp, Kinds
  <2>2. ASSUME NEW n \in Peers, NeighbourDown(n)  PROVE agree
    BY <1>0, <1>1, <2>2, NeighbourDownInv DEF NeighbourDown
  <2> QED
    BY <1>7, <2>1, <2>2 DEF Topology
<1>8. CASE Called
  <2>1. PICK c \in AppCalls : AppCall(c[1], c[2])
    BY <1>8 DEF Called
  <2>2. c[1] \in Calls /\ c[2] \in Services
    BY EnvironmentAssumption
  <2> QED
    BY <1>2, <2>1, <2>2, UnchangedGiven DEF AppCall
<1>9. CASE Prune
  BY <1>0, <1>1, <1>9, PruneInv DEF Prune
<1>10. ASSUME NEW b \in Bundles, Works(b)  PROVE agree
  <2>1. UNCHANGED <<queue, reg>>
    BY <1>10 DEF Works, ExpiredAttempt, UnencodedAttempt, Attempt
  <2>2. SameGiven
    BY <1>0, <1>10, ExpiredAttemptInv, UnencodedAttemptInv, AttemptInv DEF Works
  <2> QED
    BY <1>1, <2>1, <2>2
<1>11. ASSUME NEW b \in Bundles, AppDone(b)  PROVE agree
  BY <1>0, <1>2, <1>11, AppDoneInv DEF AppDone, Kinds
<1>12. ASSUME NEW b \in Bundles, Expire(b)  PROVE agree
  BY <1>1, <1>12, UnchangedGiven DEF Expire
<1>13. ASSUME NEW b \in Bundles, NEW status, Answer(b, status)  PROVE agree
  BY <1>0, <1>1, <1>13, AnswerInv DEF Answer
<1>14. CASE UNCHANGED vars
  BY <1>1, <1>14, UnchangedGiven DEF vars
<1> QED
  BY <1>3, <1>4, <1>5, <1>6, <1>7, <1>8, <1>9, <1>10, <1>11, <1>12, <1>13, <1>14 DEF Next, Arrives

\* A service has a bundle if and only if it is busy, and one at a time, whatever is lost,
\* evicted or out of date, as long as services have numbers of their own and stay.
THEOREM BusyAgrees ==
  ASSUME \A v, w \in Services : AppOf[v] = AppOf[w] => v = w,
         \A c \in AppCalls : c[1] \notin {"passivate", "remove"},
         \A r, q \in Blocks : Started[r].srv # None /\ Started[q].srv = Started[r].srv => q = r,
         {"queue_full", "app_full", "expired_held"} \cap Faults = {}
  PROVE  Spec => []BusyIffGiven
<1>1. Init => ServiceInv
  <2> SUFFICES ASSUME Init  PROVE ServiceInv
    OBVIOUS
  <2>1. reg = Started /\ queue = <<>> /\ \A b \in Bundles : node.app[b] \in {"new", "none"}
    BY DEF Init
  <2>2. \A r \in Blocks : ~reg[r].busy
    BY <2>1, RegistrationAssumption
  <2>3. GivenNow(node) = {}
    BY <2>1 DEF GivenNow, Given
  <2>4. ServicesAgree(reg, {})
    BY <2>1, <2>2 DEF ServicesAgree
  <2> QED
    BY <2>1, <2>3, <2>4, InitHistory DEF ServiceInv, NoneLeaves
<1>2. ServiceInv /\ [Next]_vars => ServiceInv'
  BY NextServices
<1>3. ServiceInv => BusyIffGiven
  <2> SUFFICES ASSUME ServiceInv, NEW r \in Blocks, reg[r].srv # None,
                      NEW given, given = {b \in Bundles : Given(node, b) /\ Header[b].srv = reg[r].srv}
               PROVE  Cardinality(given) = One(reg[r].busy)
    BY DEF BusyIffGiven
  <2>1. ServicesAgree(reg, GivenNow(node))
    BY DEF ServiceInv
  <2>2. CASE given = {}
    <3>1. ~reg[r].busy
      BY <2>1, <2>2 DEF ServicesAgree, GivenNow
    <3> QED
      BY <2>2, <3>1, FS_EmptySet DEF One
  <2>3. ASSUME NEW b \in given  PROVE Cardinality(given) = One(reg[r].busy)
    <3>1. given = {b}
      BY <2>1 DEF ServicesAgree, GivenNow
    <3>2. reg[r].busy
      BY <2>1 DEF ServicesAgree, GivenNow
    <3> QED
      BY <3>1, <3>2, FS_Singleton DEF One
  <2> QED
    BY <2>2, <2>3
<1> QED
  BY <1>1, <1>2, <1>3, PTL DEF Spec
=============================================================================
