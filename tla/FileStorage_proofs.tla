------------------------- MODULE FileStorage_proofs -------------------------
(***************************************************************************)
(* Proofs about FileStorage, for every number of tasks, bundles and        *)
(* blocks, every loss of power, and whichever accesses to the card fail.   *)
(***************************************************************************)
EXTENDS FileStorage, Lists_proofs, FiniteSetTheorems, FunctionTheorems, TLAPS

Seconds == 0 .. Wrap - 1

(***************************************************************************)
(* Deleting a bundle                                                       *)
(***************************************************************************)
\* What the fields of a storage are.
LEMMA StoreFields ==
  ASSUME NEW s \in Stores
  PROVE  /\ s = [list |-> s.list, card |-> s.card, freed |-> s.freed, fate |-> s.fate]
         /\ s.list \in Seq(Entry) /\ s.card \in [Bundles -> Seconds \cup {None}]
         /\ s.freed \in BOOLEAN /\ s.fate \in [Bundles -> Fates]
         /\ Len(s.list) \in Nat /\ DOMAIN s.list = 1 .. Len(s.list)
         /\ \A i \in DOMAIN s.list : s.list[i] \in Entry
         /\ Listed(s) \subseteq Bundles
<1>1. s.list \in Seq(Entry)
  BY DEF Stores
<1>2. /\ Len(s.list) \in Nat /\ DOMAIN s.list = 1 .. Len(s.list)
      /\ \A i \in DOMAIN s.list : s.list[i] \in Entry
  BY <1>1
<1>3. Listed(s) \subseteq Bundles
  BY <1>2 DEF Listed, Entry
<1> QED
  BY <1>1, <1>2, <1>3 DEF Stores, Seconds, Fates

LEMMA FirstOfIsThere ==
  ASSUME NEW s \in Stores, NEW b \in Listed(s)
  PROVE  FirstOf(s.list, b) \in 1 .. Len(s.list) /\ s.list[FirstOf(s.list, b)].num = b
<1> DEFINE T == {i \in DOMAIN s.list : s.list[i].num = b}
<1>1. T \subseteq 1 .. Len(s.list) /\ T \subseteq Nat
  BY StoreFields
<1>2. T # {}
  BY DEF Listed
<1>3. Min(T) \in T
  BY <1>1, <1>2, MinIsLeast
<1> QED
  BY <1>1, <1>3 DEF FirstOf

LEMMA RemovedFields ==
  ASSUME NEW s \in Stores, NEW b, NEW unlinked
  PROVE  Removed(s, b, unlinked)
           = [list  |-> RemoveAt(s.list, FirstOf(s.list, b)),
              card  |-> IF unlinked THEN [s.card EXCEPT ![b] = None] ELSE s.card,
              freed |-> TRUE,
              fate  |-> [s.fate EXCEPT ![b] = IF unlinked THEN "gone" ELSE "left"]]
<1> DEFINE list == RemoveAt(s.list, FirstOf(s.list, b))
           card == [s.card EXCEPT ![b] = None]
           fate(f) == [s.fate EXCEPT ![b] = f]
           yes == TRUE
<1>1. s = [list |-> s.list, card |-> s.card, freed |-> s.freed, fate |-> s.fate]
  BY StoreFields
<1>2. ASSUME NEW f
      PROVE  Unlisted(s, b, f)
               = [list |-> list, card |-> s.card, freed |-> yes, fate |-> fate(f)]
  <2>1. Unlisted(s, b, f) = [s EXCEPT !.list = list, !.freed = yes, !.fate = fate(f)]
    BY DEF Unlisted
  <2> HIDE DEF list, fate, yes
  <2> QED
    BY <1>1, <2>1
<1>3. CASE unlinked
  <2>1. Removed(s, b, unlinked) = [Unlisted(s, b, "gone") EXCEPT !.card = card]
    BY <1>3 DEF Removed
  <2> HIDE DEF list, fate, card, yes
  <2>2. Removed(s, b, unlinked)
          = [list |-> list, card |-> card, freed |-> yes, fate |-> fate("gone")]
    BY <1>2, <2>1
  <2> QED
    BY <1>3, <2>2 DEF list, fate, card, yes
<1>4. CASE ~unlinked
  <2>1. Removed(s, b, unlinked) = Unlisted(s, b, "left")
    BY <1>4 DEF Removed
  <2> QED
    BY <1>2, <1>4, <2>1
<1> QED
  BY <1>3, <1>4

LEMMA RemovedType ==
  ASSUME NEW s \in Stores, NEW b \in Listed(s), NEW unlinked
  PROVE  /\ Removed(s, b, unlinked) \in Stores
         /\ Len(Removed(s, b, unlinked).list) = Len(s.list) - 1
         /\ Listed(Removed(s, b, unlinked)) \subseteq Listed(s)
<1> DEFINE k == FirstOf(s.list, b)
           q == RemoveAt(s.list, k)
<1>1. s.list \in Seq(Entry) /\ k \in 1 .. Len(s.list)
  BY StoreFields, FirstOfIsThere
<1> HIDE DEF k
<1>2. q \in Seq(Entry)
  BY <1>1, RemoveAtType
<1>3. /\ DOMAIN q = 1 .. Len(s.list) - 1
      /\ \A i \in 1 .. Len(s.list) - 1 : q[i] = s.list[IF i < k THEN i ELSE i + 1]
  BY <1>1, RemoveAtElements
<1> HIDE DEF q
<1>4. Len(q) = Len(s.list) - 1 /\ DOMAIN s.list = 1 .. Len(s.list) /\ Len(s.list) \in Nat
  <2>1. Len(q) \in Nat /\ DOMAIN q = 1 .. Len(q) /\ Len(s.list) - 1 \in Nat
    BY <1>1, <1>2
  <2> QED
    BY <1>1, <1>3, <2>1
<1>5. \A i \in DOMAIN q : \E j \in DOMAIN s.list : q[i] = s.list[j]
  <2> SUFFICES ASSUME NEW i \in 1 .. Len(s.list) - 1
               PROVE  \E j \in 1 .. Len(s.list) : q[i] = s.list[j]
    BY <1>3, <1>4
  <2>1. (IF i < k THEN i ELSE i + 1) \in 1 .. Len(s.list)
    BY <1>4
  <2> QED
    BY <1>3, <2>1
<1> DEFINE card == IF unlinked THEN [s.card EXCEPT ![b] = None] ELSE s.card
           fate == [s.fate EXCEPT ![b] = IF unlinked THEN "gone" ELSE "left"]
<1>6. Removed(s, b, unlinked) = [list |-> q, card |-> card, freed |-> TRUE, fate |-> fate]
  BY RemovedFields DEF q, k
<1>7. card \in [Bundles -> Seconds \cup {None}]
  BY StoreFields
<1>8. fate \in [Bundles -> Fates]
  BY StoreFields DEF Fates
<1> HIDE DEF card, fate
<1>9. Removed(s, b, unlinked) \in Stores
  BY <1>2, <1>6, <1>7, <1>8 DEF Stores, Seconds
<1>10. Removed(s, b, unlinked).list = q
  BY <1>6
<1> QED
  BY <1>4, <1>5, <1>9, <1>10 DEF Listed

\* Making room deletes a listed bundle or two, each by its number.
Shrunk(s) == {s} \cup {Removed(s, b, unlinked) : b \in Listed(s), unlinked \in Unlinks}

LEMMA ShrunkType ==
  ASSUME NEW s \in Stores, NEW r \in Shrunk(s)
  PROVE  r \in Stores /\ Len(r.list) <= Len(s.list) /\ Listed(r) \subseteq Listed(s)
<1>1. Len(s.list) \in Nat
  BY StoreFields
<1> QED
  BY <1>1, RemovedType DEF Shrunk

LEMMA PrunedShrinks ==
  ASSUME NEW s \in Stores, NEW read, NEW unlinked \in Unlinks
  PROVE  Pruned(s, read, unlinked) \in Shrunk(s)
<1> DEFINE gone == Expiring(s, read, "done")
<1>1. CASE gone = {}
  BY <1>1 DEF Pruned, Shrunk
<1>2. CASE gone # {}
  <2>1. gone \subseteq Nat /\ gone \subseteq DOMAIN s.list
    BY StoreFields DEF Expiring
  <2>2. Min(gone) \in DOMAIN s.list
    BY <1>2, <2>1, MinIsLeast
  <2>3. Pruned(s, read, unlinked) = Removed(s, s.list[Min(gone)].num, unlinked)
    BY <1>2 DEF Pruned
  <2> HIDE DEF gone
  <2>4. s.list[Min(gone)].num \in Listed(s)
    BY <2>2 DEF Listed
  <2> QED
    BY <2>3, <2>4 DEF Shrunk
<1> QED
  BY <1>1, <1>2

LEMMA EvictedShrinks ==
  ASSUME NEW s \in Stores, NEW b, NEW read, NEW unlinked \in Unlinks,
         read \in Readings(s) \/ \A e \in Victims(s, b) : read[e.num] \in Reading,
         NEW r \in Evicted(s, b, read, unlinked)
  PROVE  r.store \in Shrunk(s) /\ r.outcome \in {"stuck", "sleeps", "full", "room"}
<1>1. \A e \in Victims(s, b) : e.num \in Listed(s)
  BY DEF Victims, Listed, Range
<1>2. \A e \in Victims(s, b) : read[e.num] \in Reading
  BY <1>1 DEF Readings
<1>3. \/ r \in {Room(s, "room"), Room(s, "full")}
      \/ \E e \in Victims(s, b) : r \in {Room(Removed(s, e.num, unlinked), "room"),
                                         Room(s, "sleeps"), Room(s, "stuck")}
  BY <1>2 DEF Evicted, Reading
<1>4. CASE r \in {Room(s, "room"), Room(s, "full"), Room(s, "sleeps"), Room(s, "stuck")}
  BY <1>4 DEF Shrunk, Room
<1>5. CASE \E e \in Victims(s, b) : r = Room(Removed(s, e.num, unlinked), "room")
  <2>1. PICK e \in Victims(s, b) : r = Room(Removed(s, e.num, unlinked), "room")
    BY <1>5
  <2> QED
    BY <1>1, <2>1 DEF Shrunk, Room
<1> QED
  BY <1>3, <1>4, <1>5

LEMMA MadeRoomShrinks ==
  ASSUME NEW s \in Stores, NEW b, NEW read \in Readings(s), NEW unlinked \in Unlinks,
         NEW r \in MadeRoom(s, b, read, unlinked)
  PROVE  /\ \E p \in Shrunk(s) : r.store \in Shrunk(p)
         /\ r.outcome \in {"stuck", "sleeps", "full", "room"}
<1> DEFINE p == Pruned(s, read, unlinked)
<1>1. CASE Sleeps(s, read)
  <2>1. r = Room(s, "sleeps") /\ s \in Shrunk(s)
    BY <1>1 DEF MadeRoom, Shrunk
  <2> QED
    BY <2>1 DEF Room
<1>2. CASE ~Sleeps(s, read)
  <2>1. p \in Shrunk(s) /\ r \in Evicted(p, b, read, unlinked)
    BY <1>2, PrunedShrinks DEF MadeRoom
  <2> HIDE DEF p
  <2>2. p \in Stores /\ Listed(p) \subseteq Listed(s)
    BY <2>1, ShrunkType
  <2>3. \A e \in Victims(p, b) : e.num \in Listed(p)
    BY DEF Victims, Listed, Range
  <2>4. \A e \in Victims(p, b) : read[e.num] \in Reading
    BY <2>2, <2>3 DEF Readings
  <2>5. r.store \in Shrunk(p) /\ r.outcome \in {"stuck", "sleeps", "full", "room"}
    BY <2>1, <2>2, <2>4, EvictedShrinks
  <2> QED
    BY <2>1, <2>5
<1> QED
  BY <1>1, <1>2

(***************************************************************************)
(* The part of a save that one task does without a wait                    *)
(***************************************************************************)
\* Where a save may be afterwards: it waits for room or sleeps, it is over, its file could
\* not be opened, or its file is to be closed.
Waits(t, q, b, rec) ==
  /\ store' = q /\ \E at \in {"room", "reading"} : task' = [task EXCEPT ![t] = Place(at, b, rec)]
  /\ running' \in {t, None} /\ stuck' \in {TRUE, stuck}
Ends(t, q) ==
  store' = q /\ task' = [task EXCEPT ![t] = Idle] /\ running' = None /\ stuck' = stuck
Aborts(t, q, b, rec) ==
  /\ store' \in {q, Opened(q, b)}
  /\ HasBlock(q) /\ task' = [task EXCEPT ![t] = Place("aborting", b, rec)]
  /\ running' = None /\ stuck' = stuck
Writes(t, q, b, rec) ==
  /\ store' = Opened(q, b) /\ HasBlock(q)
  /\ \E at \in {"closing", "discarding"} : task' = [task EXCEPT ![t] = Place(at, b, rec)]
  /\ running' = t /\ stuck' = stuck
GoesOn(t, q, b, rec) ==
  Waits(t, q, b, rec) \/ Ends(t, q) \/ Aborts(t, q, b, rec) \/ Writes(t, q, b, rec)
Continues(t, s, b, rec) == \E p \in Shrunk(s) : \E q \in Shrunk(p) : GoesOn(t, q, b, rec)

LEMMA ProceedSteps ==
  ASSUME NEW t, NEW r, NEW b, NEW rec, Proceed(t, r, b, rec),
         r.outcome \in {"stuck", "sleeps", "full", "room"}
  PROVE  GoesOn(t, r.store, b, rec)
<1> DEFINE q == r.store
<1>1. CASE r.outcome = "stuck"
  <2>1. Waits(t, q, b, rec)
    BY <1>1 DEF Proceed, Waits, Goto
  <2> QED
    BY <2>1 DEF GoesOn
<1>2. CASE r.outcome = "sleeps"
  <2>1. Waits(t, q, b, rec)
    BY <1>2 DEF Proceed, Waits, Goto
  <2> QED
    BY <2>1 DEF GoesOn
<1>3. CASE r.outcome = "full"
  <2>1. Waits(t, q, b, rec)
    BY <1>3 DEF Proceed, Waits, Goto
  <2> QED
    BY <2>1 DEF GoesOn
<1>4. CASE r.outcome = "room"
  <2>1. /\ stuck' = stuck
        /\ HasBlock(q) => Write(t, q, b, rec)
        /\ ~HasBlock(q) => Ends(t, q)
    BY <1>4, Zenon DEF Proceed, Ends, Goto
  <2> HIDE DEF q
  <2>2. ASSUME HasBlock(q)  PROVE Writes(t, q, b, rec) \/ Aborts(t, q, b, rec)
    <3>1. ASSUME store' = Opened(q, b), running' = t,
                 \E at \in {"closing"} \cup IF "card_fails" \in Faults THEN {"discarding"} ELSE {} :
                   Goto(t, Place(at, b, rec))
          PROVE  Writes(t, q, b, rec)
      <4>1. \E at \in {"closing", "discarding"} : task' = [task EXCEPT ![t] = Place(at, b, rec)]
        BY <3>1 DEF Goto
      <4> QED
        BY <2>1, <2>2, <3>1, <4>1 DEF Writes
    <3>2. ASSUME store' \in {q} \cup IF IsOpen(b) \/ ~CanOpen THEN {} ELSE {Opened(q, b)},
                 Goto(t, Place("aborting", b, rec)), running' = None
          PROVE  Aborts(t, q, b, rec)
      <4>1. store' \in {q, Opened(q, b)}
        BY <3>2
      <4> QED
        BY <2>1, <2>2, <3>2, <4>1 DEF Aborts, Goto
    <3>3. Write(t, q, b, rec)
      BY <2>1, <2>2
    <3> QED
      BY <3>1, <3>2, <3>3, Zenon DEF Write
  <2>3. Writes(t, q, b, rec) \/ Aborts(t, q, b, rec) \/ Ends(t, q)
    BY <2>1, <2>2
  <2> QED
    BY <2>3 DEF GoesOn, q
<1> QED
  BY <1>1, <1>2, <1>3, <1>4

LEMMA TryRoomSteps ==
  ASSUME NEW t, NEW s \in Stores, NEW b, NEW rec, TryRoom(t, s, b, rec)
  PROVE  Continues(t, s, b, rec)
<1>1. PICK read \in Readings(s), unlinked \in Unlinks :
        \E r \in MadeRoom(s, b, read, unlinked) : Proceed(t, r, b, rec)
  BY DEF TryRoom
<1>2. PICK r \in MadeRoom(s, b, read, unlinked) : Proceed(t, r, b, rec)
  BY <1>1
<1>3. /\ \E p \in Shrunk(s) : r.store \in Shrunk(p)
      /\ r.outcome \in {"stuck", "sleeps", "full", "room"}
  BY MadeRoomShrinks
<1>4. GoesOn(t, r.store, b, rec)
  BY <1>2, <1>3, ProceedSteps
<1> QED
  BY <1>3, <1>4 DEF Continues

LEMMA RereadSteps ==
  ASSUME NEW t, store \in Stores, Reread(t)
  PROVE  Continues(t, store, task[t].num, task[t].rec)
<1> DEFINE b == task[t].num
           rec == task[t].rec
<1>1. PICK read \in Readings(store), unlinked \in Unlinks :
        \E r \in Evicted(store, b, read, unlinked) : Proceed(t, r, b, rec)
  BY DEF Reread
<1> HIDE DEF b, rec
<1>2. PICK r \in Evicted(store, b, read, unlinked) : Proceed(t, r, b, rec)
  BY <1>1
<1>3. r.store \in Shrunk(store) /\ r.outcome \in {"stuck", "sleeps", "full", "room"}
  BY EvictedShrinks
<1>4. GoesOn(t, r.store, b, rec) /\ store \in Shrunk(store)
  BY <1>2, <1>3, ProceedSteps DEF Shrunk
<1> QED
  BY <1>3, <1>4 DEF Continues, b, rec

(***************************************************************************)
(* Types, and the blocks: those of the list and those of the saves under   *)
(* way are never more than there are.  Without power nothing is in memory. *)
(***************************************************************************)
Stopped == store.list = <<>> /\ \A t \in Tasks : task[t] = Idle
BlocksSuffice == Len(store.list) + Cardinality(Saving) <= StoreSize
Typed == TypeOK /\ BlocksSuffice /\ (up \/ Stopped)

\* Where the saves under way are.
Under == {"closing", "aborting", "discarding"}

LEMMA SavingFinite == IsFiniteSet(Saving) /\ Cardinality(Saving) \in Nat
<1>1. IsFiniteSet(Saving)
  BY FiniteAssumption, FS_Subset DEF Saving
<1> QED
  BY <1>1, FS_CardinalityType

\* A task that goes to another place leaves the saves under way, or joins them.
LEMMA GoneTo ==
  ASSUME task \in [Tasks -> Places \cup {Idle}], NEW t \in Tasks, NEW place,
         task' = [task EXCEPT ![t] = place]
  PROVE  /\ place.at \in Under /\ t \notin Saving
              => Cardinality(Saving') = Cardinality(Saving) + 1
         /\ place.at \notin Under /\ t \in Saving
              => Cardinality(Saving') = Cardinality(Saving) - 1
         /\ ~(place.at \in Under /\ t \notin Saving)
              => Cardinality(Saving') <= Cardinality(Saving)
<1>1. CASE place.at \in Under
  <2>1. Saving' = Saving \cup {t}
    BY <1>1 DEF Saving, Under
  <2> QED
    <3>1. Cardinality(Saving')
            = IF t \in Saving THEN Cardinality(Saving) ELSE Cardinality(Saving) + 1
      BY <2>1, SavingFinite, FS_AddElement
    <3>2. Cardinality(Saving) \in Nat
      BY SavingFinite
    <3> QED
      BY <1>1, <3>1, <3>2
<1>2. CASE place.at \notin Under
  <2>1. Saving' = Saving \ {t}
    BY <1>2 DEF Saving, Under
  <2>2. Cardinality(Saving') = IF t \in Saving THEN Cardinality(Saving) - 1 ELSE Cardinality(Saving)
    BY <2>1, SavingFinite, FS_RemoveElement
  <2>3. Cardinality(Saving) \in Nat
    BY SavingFinite
  <2> QED
    BY <1>2, <2>2, <2>3
<1> QED
  BY <1>1, <1>2

LEMMA PlaceType ==
  ASSUME NEW at \in {"room", "reading", "closing", "aborting", "discarding"},
         NEW b \in Bundles, NEW rec \in Seconds
  PROVE  Place(at, b, rec) \in Places /\ Place(at, b, rec).at = at
<1>1. Tries \in 1 .. Tries
  BY NumberAssumption
<1> QED
  BY <1>1 DEF Place, Places, Seconds

LEMMA OpenedType ==
  ASSUME NEW s \in Stores, NEW b
  PROVE  Opened(s, b) \in Stores /\ Opened(s, b).list = s.list
<1> DEFINE card == [s.card EXCEPT ![b] = None]
           fate == [s.fate EXCEPT ![b] = "unknown"]
<1>1. s = [list |-> s.list, card |-> s.card, freed |-> s.freed, fate |-> s.fate]
  BY StoreFields
<1>2. Opened(s, b) = [s EXCEPT !.card = card, !.fate = fate]
  BY DEF Opened
<1>3. card \in [Bundles -> Seconds \cup {None}] /\ fate \in [Bundles -> Fates]
  BY StoreFields DEF Fates
<1> HIDE DEF card, fate
<1>4. Opened(s, b) = [list |-> s.list, card |-> card, freed |-> s.freed, fate |-> fate]
  BY <1>1, <1>2
<1> QED
  BY <1>3, <1>4, StoreFields DEF Stores, Seconds, Fates

LEMMA ContinuesType ==
  ASSUME Typed, up, NEW t \in Tasks, t \notin Saving, NEW s \in Stores, s.list = store.list,
         NEW b \in Bundles, NEW rec \in Seconds, Continues(t, s, b, rec), UNCHANGED <<up, tick>>
  PROVE  Typed'
<1>0. PICK p \in Shrunk(s) : \E q \in Shrunk(p) : GoesOn(t, q, b, rec)
  BY DEF Continues
<1>1. PICK q \in Shrunk(p) :
        Waits(t, q, b, rec) \/ Ends(t, q) \/ Aborts(t, q, b, rec) \/ Writes(t, q, b, rec)
  BY <1>0 DEF GoesOn
<1>2. q \in Stores /\ Len(q.list) <= Len(store.list) /\ Len(q.list) \in Nat
  <2>1. p \in Stores /\ Len(p.list) <= Len(s.list) /\ Len(s.list) \in Nat
    BY ShrunkType, StoreFields
  <2>2. q \in Stores /\ Len(q.list) <= Len(p.list) /\ Len(p.list) \in Nat
    BY <2>1, ShrunkType, StoreFields
  <2>3. Len(q.list) \in Nat
    BY <2>2, StoreFields
  <2> QED
    BY <2>1, <2>2, <2>3
<1>3. /\ task \in [Tasks -> Places \cup {Idle}] /\ stuck \in BOOLEAN /\ up \in BOOLEAN
      /\ tick \in 0 .. Wrap - 1 /\ Len(store.list) \in Nat
      /\ Len(store.list) + Cardinality(Saving) <= StoreSize /\ StoreSize \in Nat
  BY StoreFields, NumberAssumption DEF Typed, TypeOK, BlocksSuffice
<1>4. Cardinality(Saving) \in Nat /\ Cardinality(Saving') \in Nat
  <2>1. Cardinality(Saving) \in Nat
    BY SavingFinite
  <2>2. IsFiniteSet(Saving')
    BY FiniteAssumption, FS_Subset DEF Saving
  <2> QED
    BY <2>1, <2>2, FS_CardinalityType
<1>5. store' \in Stores /\ Len(store'.list) = Len(q.list)
  BY <1>1, <1>2, OpenedType DEF Waits, Ends, Aborts, Writes
<1>6. task' \in [Tasks -> Places \cup {Idle}]
  <2>1. \E place \in Places \cup {Idle} : task' = [task EXCEPT ![t] = place]
    BY <1>1, PlaceType DEF Waits, Ends, Aborts, Writes
  <2> QED
    BY <1>3, <2>1
<1>7. Len(store'.list) + Cardinality(Saving') <= StoreSize
  <2>1. CASE Waits(t, q, b, rec) \/ Ends(t, q)
    <3>1. \E place : task' = [task EXCEPT ![t] = place] /\ place.at \notin Under
      <4>1. \A at \in {"room", "reading"} : Place(at, b, rec).at \notin Under
        BY DEF Place, Under
      <4>2. Idle.at \notin Under
        BY DEF Idle, Under
      <4> QED
        BY <2>1, <4>1, <4>2 DEF Waits, Ends
    <3>2. Cardinality(Saving') <= Cardinality(Saving)
      BY <1>3, <3>1, GoneTo
    <3> QED
      BY <1>2, <1>3, <1>4, <1>5, <3>2
  <2>2. CASE Aborts(t, q, b, rec) \/ Writes(t, q, b, rec)
    <3>1. \E place : task' = [task EXCEPT ![t] = place] /\ place.at \in Under
      BY <2>2, PlaceType DEF Aborts, Writes, Under
    <3>2. Cardinality(Saving') = Cardinality(Saving) + 1
      BY <1>3, <3>1, GoneTo
    <3>3. Len(q.list) + Cardinality(Saving) < StoreSize
      BY <2>2 DEF Aborts, Writes, HasBlock
    <3> QED
      BY <1>2, <1>3, <1>4, <1>5, <3>2, <3>3
  <2> QED
    BY <1>1, <2>1, <2>2
<1>8. Len(store'.list) <= StoreSize
  BY <1>2, <1>3, <1>4, <1>5, <1>7
<1>9. running' \in Tasks \cup {None} /\ stuck' \in BOOLEAN
  BY <1>1, <1>3 DEF Waits, Ends, Aborts, Writes
<1> QED
  BY <1>3, <1>5, <1>6, <1>7, <1>8, <1>9 DEF Typed, TypeOK, BlocksSuffice

\* A task that is not idle has something to save.
LEMMA PlaceOf ==
  ASSUME TypeOK, NEW t \in Tasks,
         task[t] # Idle \/ task[t].at \in {"room", "reading", "closing", "aborting", "discarding"}
  PROVE  task[t] \in Places /\ task[t].num \in Bundles /\ task[t].rec \in Seconds
<1>1. task[t] \in Places
  BY DEF TypeOK, Idle
<1> QED
  BY <1>1 DEF Places, Seconds

LEMMA SaveType ==
  ASSUME Typed, NEW t \in Tasks, NEW b \in Bundles, Save(t, b)
  PROVE  Typed'
<1>1. up /\ TryRoom(t, store, b, tick) /\ UNCHANGED <<up, tick>> /\ task[t] = Idle
  BY DEF Save, SaveUnchecked, Free
<1>2. t \notin Saving /\ store \in Stores /\ tick \in Seconds
  BY <1>1 DEF Saving, Idle, Typed, TypeOK, Seconds
<1> QED
  BY <1>1, <1>2, TryRoomSteps, ContinuesType

\* The semaphore is taken before room is looked for again.
Taken == [store EXCEPT !.freed = FALSE]
LEMMA TakenType ==
  ASSUME store \in Stores
  PROVE  /\ Taken \in Stores /\ Taken.list = store.list
         /\ Taken.card = store.card /\ Taken.fate = store.fate
<1> DEFINE no == FALSE
<1>1. store = [list |-> store.list, card |-> store.card, freed |-> store.freed, fate |-> store.fate]
  BY StoreFields
<1>2. Taken = [store EXCEPT !.freed = no] /\ no \in BOOLEAN
  BY DEF Taken
<1> HIDE DEF no
<1>3. Taken = [list |-> store.list, card |-> store.card, freed |-> no, fate |-> store.fate]
  BY <1>1, <1>2
<1> QED
  BY <1>2, <1>3, StoreFields DEF Stores, Seconds, Fates

LEMMA WokenType ==
  ASSUME Typed, NEW t \in Tasks, Woken(t)
  PROVE  Typed'
<1>1. /\ up /\ TryRoom(t, Taken, task[t].num, task[t].rec) /\ UNCHANGED <<up, tick>>
      /\ task[t].at = "room"
  BY DEF Woken, At, Taken
<1>2. t \notin Saving /\ Taken \in Stores /\ Taken.list = store.list
  BY <1>1, TakenType DEF Saving, Typed, TypeOK
<1>3. task[t].num \in Bundles /\ task[t].rec \in Seconds
  BY <1>1, PlaceOf DEF Typed
<1> QED
  BY <1>1, <1>2, <1>3, TryRoomSteps, ContinuesType

LEMMA RereadType ==
  ASSUME Typed, NEW t \in Tasks, Reread(t)
  PROVE  Typed'
<1>1. up /\ UNCHANGED <<up, tick>> /\ task[t].at = "reading"
  BY DEF Reread, At
<1>2. t \notin Saving /\ store \in Stores
  BY <1>1 DEF Saving, Typed, TypeOK
<1>3. task[t].num \in Bundles /\ task[t].rec \in Seconds
  BY <1>1, PlaceOf DEF Typed
<1>4. Continues(t, store, task[t].num, task[t].rec)
  BY <1>2, RereadSteps
<1> QED
  BY <1>1, <1>2, <1>3, <1>4, ContinuesType

\* What stays in Typed when the list has not grown and a task has gone idle, or none.
LEMMA NotMoreType ==
  ASSUME Typed, up, store' \in Stores, Len(store'.list) <= Len(store.list),
         \/ task' = task
         \/ \E t \in Tasks : task' = [task EXCEPT ![t] = Idle],
         running' \in Tasks \cup {None}, UNCHANGED <<up, stuck, tick>>
  PROVE  Typed'
<1>1. /\ task \in [Tasks -> Places \cup {Idle}] /\ stuck \in BOOLEAN /\ up \in BOOLEAN
      /\ tick \in 0 .. Wrap - 1
      /\ Len(store.list) + Cardinality(Saving) <= StoreSize
  BY DEF Typed, TypeOK, BlocksSuffice
<1>2. Cardinality(Saving) \in Nat /\ Cardinality(Saving') \in Nat
  <2>1. IsFiniteSet(Saving')
    BY FiniteAssumption, FS_Subset DEF Saving
  <2> QED
    BY <2>1, SavingFinite, FS_CardinalityType
<1>3. Cardinality(Saving') <= Cardinality(Saving) /\ task' \in [Tasks -> Places \cup {Idle}]
  <2>1. CASE task' = task
    <3>1. Saving' = Saving
      BY <2>1 DEF Saving
    <3> QED
      BY <1>1, <1>2, <2>1, <3>1
  <2>2. CASE \E t \in Tasks : task' = [task EXCEPT ![t] = Idle]
    <3>1. PICK t \in Tasks : task' = [task EXCEPT ![t] = Idle]
      BY <2>2
    <3>2. Idle.at \notin Under
      BY DEF Idle, Under
    <3> QED
      BY <1>1, <3>1, <3>2, GoneTo
  <2> QED
    BY <2>1, <2>2
<1>4. Len(store.list) \in Nat /\ Len(store'.list) \in Nat /\ StoreSize \in Nat
  BY StoreFields, NumberAssumption DEF Typed, TypeOK
<1>5. Len(store'.list) + Cardinality(Saving') <= StoreSize /\ Len(store'.list) <= StoreSize
  BY <1>1, <1>2, <1>3, <1>4
<1> QED
  BY <1>1, <1>3, <1>5 DEF Typed, TypeOK, BlocksSuffice

LEMMA DelayType ==
  ASSUME Typed, NEW t \in Tasks, Delay(t)
  PROVE  Typed'
<1>1. /\ up /\ task[t].at \in {"closing", "discarding"} /\ task[t].tries > 1
      /\ task' = [task EXCEPT ![t].tries = @ - 1] /\ running' = None
      /\ UNCHANGED <<store, up, stuck, tick>>
  BY DEF Delay, At
<1>2. task[t] \in Places /\ task \in [Tasks -> Places \cup {Idle}]
  BY <1>1, PlaceOf DEF Typed, TypeOK
<1> DEFINE place == [task[t] EXCEPT !.tries = @ - 1]
<1>3. place \in Places /\ place.at = task[t].at
  <2>1. task[t].tries - 1 \in 1 .. Tries
    BY <1>1, <1>2, NumberAssumption DEF Places
  <2> QED
    BY <1>2, <2>1 DEF Places
<1>4. task' = [task EXCEPT ![t] = place]
  BY <1>1
<1> HIDE DEF place
<1>5. task' \in [Tasks -> Places \cup {Idle}] /\ Saving' = Saving
  BY <1>2, <1>3, <1>4 DEF Saving
<1> QED
  BY <1>1, <1>5 DEF Typed, TypeOK, BlocksSuffice

\* The entry of a bundle that has just been stored, and its file.
New(b, rec) == [num |-> b, rec |-> rec, flags |-> TRUE, locked |-> FALSE]
ClosedCard(s, b, rec, whole) == IF whole THEN [s.card EXCEPT ![b] = rec] ELSE s.card
ClosedFate(s, b, whole) == [s.fate EXCEPT ![b] = IF whole THEN "kept" ELSE "discarded"]

LEMMA ClosedFields ==
  ASSUME NEW s \in Stores, NEW b \in Bundles, NEW rec \in Seconds, NEW whole \in BOOLEAN
  PROVE  /\ New(b, rec) \in Entry /\ New(b, rec).num = b
         /\ \E list \in Seq(Entry) :
              /\ Closed(s, b, rec, whole)
                   = [list |-> list, card |-> ClosedCard(s, b, rec, whole),
                      freed |-> s.freed, fate |-> ClosedFate(s, b, whole)]
              /\ Closed(s, b, rec, whole) \in Stores
              /\ Len(list) = Len(s.list) + 1 /\ list[Len(s.list) + 1] = New(b, rec)
              /\ \A i \in DOMAIN s.list : list[i] = s.list[i]
<1> DEFINE entry == New(b, rec)
           list == Append(s.list, entry)
           card == ClosedCard(s, b, rec, whole)
           fate == ClosedFate(s, b, whole)
<1>1. s = [list |-> s.list, card |-> s.card, freed |-> s.freed, fate |-> s.fate]
  BY StoreFields
<1>2. Closed(s, b, rec, whole) = [s EXCEPT !.card = card, !.fate = fate, !.list = list]
  BY DEF Closed, New, ClosedCard, ClosedFate
<1>3. entry \in Entry /\ entry.num = b
  BY DEF Entry, Seconds, New
<1>4. /\ list \in Seq(Entry) /\ Len(list) = Len(s.list) + 1
      /\ \A i \in DOMAIN s.list : list[i] = s.list[i]
      /\ list[Len(s.list) + 1] = entry
  <2> HIDE DEF entry
  <2> QED
    BY <1>3, StoreFields
<1>5. card \in [Bundles -> Seconds \cup {None}] /\ fate \in [Bundles -> Fates]
  BY StoreFields DEF Fates, ClosedCard, ClosedFate
<1> HIDE DEF list, card, fate
<1>6. Closed(s, b, rec, whole) = [list |-> list, card |-> card, freed |-> s.freed, fate |-> fate]
  BY <1>1, <1>2
<1>7. Closed(s, b, rec, whole) \in Stores
  BY <1>4, <1>5, <1>6, StoreFields DEF Stores, Seconds, Fates
<1> QED
  BY <1>3, <1>4, <1>6, <1>7 DEF card, fate

\* A save under way ends: its block becomes the block of an entry, or is free.
LEMMA EndsType ==
  ASSUME Typed, up, NEW t \in Tasks, t \in Saving,
         store' \in Stores, Len(store'.list) <= Len(store.list) + 1,
         task' = [task EXCEPT ![t] = Idle], running' = None, UNCHANGED <<up, stuck, tick>>
  PROVE  Typed'
<1>1. /\ task \in [Tasks -> Places \cup {Idle}] /\ stuck \in BOOLEAN /\ up \in BOOLEAN
      /\ tick \in 0 .. Wrap - 1 /\ store \in Stores /\ t \in Tasks
      /\ Len(store.list) + Cardinality(Saving) <= StoreSize
  BY DEF Typed, TypeOK, BlocksSuffice, Saving
<1>2. Len(store.list) \in Nat /\ Len(store'.list) \in Nat
  BY <1>1, StoreFields
<1>3. Cardinality(Saving') = Cardinality(Saving) - 1
  <2>1. Idle.at \notin Under
    BY DEF Idle, Under
  <2> QED
    BY <1>1, <2>1, GoneTo
<1>4. Cardinality(Saving) \in Nat /\ Cardinality(Saving') \in Nat
  <2>1. IsFiniteSet(Saving')
    BY FiniteAssumption, FS_Subset DEF Saving
  <2> QED
    BY <2>1, SavingFinite, FS_CardinalityType
<1>5. Len(store'.list) + Cardinality(Saving') <= StoreSize /\ Len(store'.list) <= StoreSize
  BY <1>1, <1>2, <1>3, <1>4, NumberAssumption
<1>6. task' \in [Tasks -> Places \cup {Idle}]
  BY <1>1
<1> QED
  BY <1>1, <1>5, <1>6 DEF Typed, TypeOK, BlocksSuffice

LEMMA CloseType ==
  ASSUME Typed, NEW t \in Tasks, Close(t)
  PROVE  Typed'
<1> DEFINE b == task[t].num
           rec == task[t].rec
<1>1. /\ up /\ task[t].at = "closing"
      /\ \E whole \in BOOLEAN : store' = Closed(store, b, rec, whole)
      /\ task' = [task EXCEPT ![t] = Idle] /\ running' = None /\ UNCHANGED <<up, stuck, tick>>
  BY DEF Close, At, Goto
<1>2. b \in Bundles /\ rec \in Seconds /\ store \in Stores /\ t \in Saving
  BY <1>1, PlaceOf DEF Typed, TypeOK, Saving
<1> HIDE DEF b, rec
<1>3. PICK whole \in BOOLEAN : store' = Closed(store, b, rec, whole)
  BY <1>1
<1>4. PICK list \in Seq(Entry) :
        /\ store' = [list |-> list, card |-> ClosedCard(store, b, rec, whole),
                     freed |-> store.freed, fate |-> ClosedFate(store, b, whole)]
        /\ store' \in Stores /\ Len(list) = Len(store.list) + 1
  BY <1>2, <1>3, ClosedFields
<1>5. store' \in Stores /\ Len(store'.list) = Len(store.list) + 1 /\ Len(store.list) \in Nat
  <2>1. store'.list = list
    BY <1>4
  <2> QED
    BY <1>2, <1>4, <2>1, StoreFields
<1>6. Len(store'.list) <= Len(store.list) + 1
  BY <1>5
<1> QED
  BY <1>1, <1>2, <1>5, <1>6, EndsType

\* What a save that is given up leaves of its file on the card.
Left(b, rec) == [store EXCEPT !.card[b] = rec]
LEMMA LeftFields ==
  ASSUME store \in Stores, NEW b \in Bundles, NEW rec \in Seconds
  PROVE  /\ Left(b, rec) \in Stores /\ Left(b, rec).list = store.list
         /\ Left(b, rec).fate = store.fate /\ Left(b, rec).card = [store.card EXCEPT ![b] = rec]
<1> DEFINE card == [store.card EXCEPT ![b] = rec]
<1>1. store = [list |-> store.list, card |-> store.card, freed |-> store.freed, fate |-> store.fate]
  BY StoreFields
<1>2. Left(b, rec) = [store EXCEPT !.card = card]
  BY DEF Left
<1>3. card \in [Bundles -> Seconds \cup {None}]
  BY StoreFields
<1> HIDE DEF card
<1>4. Left(b, rec) = [list |-> store.list, card |-> card, freed |-> store.freed, fate |-> store.fate]
  BY <1>1, <1>2
<1> QED
  BY <1>3, <1>4, StoreFields DEF Stores, Seconds, Fates, card

LEMMA DiscardType ==
  ASSUME Typed, NEW t \in Tasks, Discard(t) \/ Abort(t)
  PROVE  Typed'
<1> DEFINE b == task[t].num
           rec == task[t].rec
<1>1. /\ up /\ task[t].at \in {"discarding", "aborting"} /\ store' \in {store, Left(b, rec)}
      /\ task' = [task EXCEPT ![t] = Idle] /\ running' = None /\ UNCHANGED <<up, stuck, tick>>
  BY DEF Discard, Abort, At, Goto, Left
<1>2. b \in Bundles /\ rec \in Seconds /\ store \in Stores /\ t \in Saving
  BY <1>1, PlaceOf DEF Typed, TypeOK, Saving
<1> HIDE DEF b, rec
<1>3. store' \in Stores /\ store'.list = store.list /\ Len(store.list) \in Nat
  <2>1. Left(b, rec) \in Stores /\ Left(b, rec).list = store.list
    BY <1>2, LeftFields
  <2>2. Len(store.list) \in Nat
    BY <1>2, StoreFields
  <2> QED
    BY <1>1, <1>2, <2>1, <2>2
<1>4. Len(store'.list) <= Len(store.list) + 1
  BY <1>3
<1> QED
  BY <1>1, <1>2, <1>3, <1>4, EndsType

LEMMA LockFields ==
  ASSUME NEW s \in Stores, NEW k \in DOMAIN s.list, NEW lock \in BOOLEAN
  PROVE  LET r == [s EXCEPT !.list[k].locked = lock]
         IN /\ r \in Stores /\ DOMAIN r.list = DOMAIN s.list /\ Len(r.list) = Len(s.list)
            /\ \A i \in DOMAIN s.list : r.list[i].num = s.list[i].num
            /\ r.card = s.card /\ r.fate = s.fate
<1> DEFINE entry == [s.list[k] EXCEPT !.locked = lock]
           list == [s.list EXCEPT ![k] = entry]
           r == [s EXCEPT !.list[k].locked = lock]
<1>1. s = [list |-> s.list, card |-> s.card, freed |-> s.freed, fate |-> s.fate]
  BY StoreFields
<1>2. r = [s EXCEPT !.list = list]
  OBVIOUS
<1>3. entry \in Entry /\ entry.num = s.list[k].num
  <2>1. s.list[k] \in Entry
    BY StoreFields
  <2> QED
    BY <2>1 DEF Entry
<1>4. s.list \in Seq(Entry) /\ k \in 1 .. Len(s.list)
  BY StoreFields
<1>5. /\ list \in Seq(Entry) /\ DOMAIN list = DOMAIN s.list /\ Len(list) = Len(s.list)
      /\ \A i \in DOMAIN s.list : list[i].num = s.list[i].num
  <2> HIDE DEF entry
  <2>1. list \in Seq(Entry) /\ Len(list) = Len(s.list)
    BY <1>3, <1>4, ExceptSeq
  <2> QED
    BY <1>3, <2>1
<1> HIDE DEF list, r
<1>6. r = [list |-> list, card |-> s.card, freed |-> s.freed, fate |-> s.fate]
  BY <1>1, <1>2
<1> QED
  BY <1>5, <1>6, StoreFields DEF Stores, Seconds, Fates, r

\* The actions that delete bundles or change locks, while no save is being worked on.
LEMMA SmallStepsType ==
  ASSUME Typed,
         \/ \E t \in Tasks : TimedOut(t)
         \/ \E b \in Bundles, yes \in BOOLEAN : Delete(b, yes) \/ Lock(b, yes)
         \/ Prune \/ Second
  PROVE  Typed'
<1>1. store \in Stores /\ Len(store.list) \in Nat /\ running \in Tasks \cup {None}
  BY StoreFields DEF Typed, TypeOK
<1>2. CASE \E t \in Tasks : TimedOut(t)
  <2>1. PICK t \in Tasks : TimedOut(t)
    BY <1>2
  <2>2. /\ up /\ task' = [task EXCEPT ![t] = Idle] /\ UNCHANGED <<store, up, stuck, tick>>
        /\ running' = running
    BY <2>1 DEF TimedOut, At, Goto
  <2>3. store' \in Stores /\ Len(store'.list) <= Len(store.list)
    BY <1>1, <2>2
  <2> QED
    BY <1>1, <2>2, <2>3, NotMoreType
<1>3. CASE \E b \in Bundles, yes \in BOOLEAN : Delete(b, yes)
  <2>1. PICK b \in Bundles, yes \in BOOLEAN : Delete(b, yes)
    BY <1>3
  <2>2. up /\ b \in Listed(store) /\ \E unlinked \in Unlinks : store' = Removed(store, b, unlinked)
    BY <2>1 DEF Delete, Free
  <2>3. UNCHANGED <<task, running, up, stuck, tick>>
    BY <2>1 DEF Delete
  <2>4. store' \in Stores /\ Len(store'.list) <= Len(store.list)
    BY <1>1, <2>2, RemovedType
  <2> QED
    BY <1>1, <2>2, <2>3, <2>4, NotMoreType
<1>4. CASE \E b \in Bundles, yes \in BOOLEAN : Lock(b, yes)
  <2>1. PICK b \in Bundles, yes \in BOOLEAN : Lock(b, yes)
    BY <1>4
  <2> DEFINE k == FirstOf(store.list, b)
  <2>2. /\ up /\ b \in Listed(store) /\ store' = [store EXCEPT !.list[k].locked = yes]
        /\ UNCHANGED <<task, running, up, stuck, tick>>
    BY <2>1 DEF Lock, Free
  <2>3. k \in DOMAIN store.list
    BY <1>1, <2>2, FirstOfIsThere, StoreFields
  <2> HIDE DEF k
  <2>4. store' \in Stores /\ Len(store'.list) <= Len(store.list)
    BY <1>1, <2>2, <2>3, LockFields
  <2> QED
    BY <1>1, <2>2, <2>4, NotMoreType
<1>5. CASE Prune
  <2>1. PICK read \in Readings(store), unlinked \in Unlinks : store' = Pruned(store, read, unlinked)
    BY <1>5 DEF Prune
  <2>2. store' \in Stores /\ Len(store'.list) <= Len(store.list)
    BY <1>1, <2>1, PrunedShrinks, ShrunkType
  <2> QED
    BY <1>1, <1>5, <2>2, NotMoreType DEF Prune, Free
<1>6. CASE Second
  <2>1. (tick + 1) % Wrap \in 0 .. Wrap - 1
    BY NumberAssumption DEF Typed, TypeOK
  <2> QED
    BY <1>6, <2>1 DEF Second, Typed, TypeOK, BlocksSuffice, Saving
<1> QED
  BY <1>2, <1>3, <1>4, <1>5, <1>6

\* The end of power: what is left is the card, with the files that became whole.
Kept(T, saved) ==
  /\ T \subseteq Writing
  /\ saved = [b \in {task[t].num : t \in T} |-> task[CHOOSE t \in T : task[t].num = b].rec]
  /\ store' = [store EXCEPT !.list = <<>>, !.freed = FALSE,
                 !.card = [b \in Bundles |-> IF b \in DOMAIN saved THEN saved[b] ELSE @[b]]]

LEMMA PowerOffFields ==
  ASSUME Typed, NEW T, NEW saved, Kept(T, saved)
  PROVE  /\ store' \in Stores /\ store'.list = <<>> /\ store'.fate = store.fate
         /\ DOMAIN saved = {task[t].num : t \in T} /\ \A b \in DOMAIN saved : saved[b] \in Seconds
         /\ store'.card = [b \in Bundles |-> IF b \in DOMAIN saved THEN saved[b] ELSE store.card[b]]
<1> DEFINE card == [b \in Bundles |-> IF b \in DOMAIN saved THEN saved[b] ELSE store.card[b]]
           no == FALSE
<1>1. /\ store = [list |-> store.list, card |-> store.card, freed |-> store.freed, fate |-> store.fate]
      /\ store.fate \in [Bundles -> Fates] /\ store.card \in [Bundles -> Seconds \cup {None}]
  BY StoreFields DEF Typed, TypeOK
<1>2. store' = [store EXCEPT !.list = <<>>, !.freed = no, !.card = card] /\ no \in BOOLEAN
  BY DEF Kept
<1>3. \A b \in DOMAIN saved : saved[b] \in Seconds
  <2> SUFFICES ASSUME NEW b \in DOMAIN saved  PROVE saved[b] \in Seconds
    OBVIOUS
  <2>1. PICK t \in T : task[t].num = b
    BY DEF Kept
  <2>2. (CHOOSE u \in T : task[u].num = b) \in T
    BY <2>1
  <2>3. \A u \in T : task[u].rec \in Seconds
    BY PlaceOf DEF Kept, Typed, Writing
  <2> QED
    BY <2>2, <2>3 DEF Kept
<1>4. DOMAIN saved = {task[t].num : t \in T}
  BY DEF Kept
<1>5. card \in [Bundles -> Seconds \cup {None}]
  BY <1>1, <1>3
<1> HIDE DEF card, no
<1>6. store' = [list |-> <<>>, card |-> card, freed |-> no, fate |-> store.fate]
  BY <1>1, <1>2
<1>7. <<>> \in Seq(Entry)
  OBVIOUS
<1> QED
  BY <1>1, <1>2, <1>3, <1>4, <1>5, <1>6, <1>7 DEF Stores, Seconds, Fates, card

LEMMA PowerOffType ==
  ASSUME Typed, PowerOff
  PROVE  Typed'
<1>1. PICK T \in SUBSET Writing : \E saved : Kept(T, saved)
  BY DEF PowerOff, Kept
<1>2. store' \in Stores /\ store'.list = <<>>
  BY <1>1, PowerOffFields
<1>3. /\ task' = [t \in Tasks |-> Idle] /\ running' = None /\ stuck' = FALSE /\ tick' = 0
      /\ up' = FALSE
  BY DEF PowerOff
<1>4. Saving' = {}
  BY <1>3 DEF Saving, Idle
<1>5. Cardinality(Saving') = 0 /\ Len(store'.list) = 0
  BY <1>2, <1>4, FS_EmptySet
<1>6. task' \in [Tasks -> Places \cup {Idle}] /\ 0 \in 0 .. Wrap - 1
  BY <1>3, NumberAssumption
<1>7. TypeOK'
  <2>1. running' \in Tasks \cup {None} /\ up' \in BOOLEAN /\ stuck' \in BOOLEAN
    BY <1>3
  <2>2. Len(store'.list) <= StoreSize
    BY <1>5, NumberAssumption
  <2>3. tick' \in 0 .. Wrap - 1
    BY <1>3, <1>6
  <2> QED
    BY <1>2, <1>6, <2>1, <2>2, <2>3 DEF TypeOK
<1>8. BlocksSuffice' /\ Stopped'
  BY <1>2, <1>3, <1>5, NumberAssumption DEF BlocksSuffice, Stopped
<1> QED
  BY <1>7, <1>8 DEF Typed

\* The list is restored: an entry for each of some of the whole files.
RestoredEntry(b) == [num |-> b, rec |-> store.card[b], flags |-> FALSE, locked |-> FALSE]

LEMMA WholeFinite ==
  ASSUME NEW s, NEW R \in SUBSET Whole(s)
  PROVE  IsFiniteSet(R) /\ Cardinality(R) \in Nat /\ R \subseteq Bundles
<1>1. R \subseteq Bundles
  BY DEF Whole
<1>2. IsFiniteSet(R)
  BY <1>1, FiniteAssumption, FS_Subset
<1> QED
  BY <1>1, <1>2, FS_CardinalityType

LEMMA PowerOnFields ==
  ASSUME store \in Stores, NEW R \in SUBSET Whole(store), NEW q \in Orders(R), NEW list,
         list = [i \in DOMAIN q |-> RestoredEntry(q[i])]
  PROVE  /\ [store EXCEPT !.list = list] \in Stores /\ Len(list) = Cardinality(R)
         /\ DOMAIN list = DOMAIN q /\ \A i \in DOMAIN q : list[i].num = q[i]
<1>1. IsFiniteSet(R) /\ Cardinality(R) \in Nat /\ R \subseteq Bundles
  BY WholeFinite
<1>2. q \in [1 .. Cardinality(R) -> R]
  BY DEF Orders
<1>3. \A b \in R : RestoredEntry(b) \in Entry /\ RestoredEntry(b).num = b
  <2> SUFFICES ASSUME NEW b \in R  PROVE RestoredEntry(b) \in Entry /\ RestoredEntry(b).num = b
    OBVIOUS
  <2>1. store.card[b] \in Seconds /\ b \in Bundles
    BY <1>1, StoreFields DEF Whole
  <2> DEFINE no == FALSE
  <2>2. RestoredEntry(b) = [num |-> b, rec |-> store.card[b], flags |-> no, locked |-> no]
    BY DEF RestoredEntry
  <2>3. no \in BOOLEAN
    OBVIOUS
  <2> HIDE DEF no
  <2> QED
    BY <2>1, <2>2, <2>3 DEF Entry, Seconds
<1> HIDE DEF RestoredEntry
<1>4. list \in [1 .. Cardinality(R) -> Entry]
  BY <1>2, <1>3
<1>5. list \in Seq(Entry) /\ Len(list) = Cardinality(R)
  BY <1>1, <1>4
<1>6. store = [list |-> store.list, card |-> store.card, freed |-> store.freed, fate |-> store.fate]
  BY StoreFields
<1>7. [store EXCEPT !.list = list]
        = [list |-> list, card |-> store.card, freed |-> store.freed, fate |-> store.fate]
  BY <1>6
<1>8. [store EXCEPT !.list = list] \in Stores
  BY <1>5, <1>7, StoreFields DEF Stores, Seconds, Fates
<1> QED
  BY <1>2, <1>3, <1>5, <1>8

LEMMA PowerOnList ==
  ASSUME store \in Stores, PowerOn
  PROVE  \E R \in Restored(store) : \E q \in Orders(R) :
           store' = [store EXCEPT !.list = [i \in DOMAIN q |-> RestoredEntry(q[i])]]
BY DEF PowerOn, RestoredEntry

LEMMA PowerOnType ==
  ASSUME Typed, PowerOn
  PROVE  Typed'
<1>1. /\ store \in Stores /\ ~up /\ up' = TRUE /\ UNCHANGED <<task, running, stuck, tick>>
  BY DEF PowerOn, Typed, TypeOK
<1>2. PICK R \in Restored(store) : \E q \in Orders(R) :
        store' = [store EXCEPT !.list = [i \in DOMAIN q |-> RestoredEntry(q[i])]]
  BY <1>1, PowerOnList
<1>3. PICK q \in Orders(R) :
        store' = [store EXCEPT !.list = [i \in DOMAIN q |-> RestoredEntry(q[i])]]
  BY <1>2
<1>4. R \in SUBSET Whole(store) /\ Cardinality(R) <= StoreSize
  BY <1>2 DEF Restored, BlocksThere
<1> DEFINE list == [i \in DOMAIN q |-> RestoredEntry(q[i])]
<1>5. store' = [store EXCEPT !.list = list]
  BY <1>3
<1>6. [store EXCEPT !.list = list] \in Stores /\ Len(list) = Cardinality(R)
  BY <1>1, <1>4, PowerOnFields
<1> HIDE DEF list
<1>7. store' \in Stores /\ Len(store'.list) <= StoreSize
  <2>1. store'.list = list
    BY <1>1, <1>5, StoreFields
  <2> QED
    BY <1>4, <1>5, <1>6, <2>1
<1>8. Saving' = {}
  BY <1>1 DEF Saving, Typed, Stopped, Idle
<1>9. Len(store'.list) + Cardinality(Saving') <= StoreSize
  <2>1. Len(store'.list) \in Nat /\ Cardinality(Saving') = 0
    BY <1>7, <1>8, StoreFields, FS_EmptySet
  <2> QED
    BY <1>7, <2>1, NumberAssumption
<1> QED
  BY <1>1, <1>7, <1>9 DEF Typed, TypeOK, BlocksSuffice

LEMMA InitType == Init => Typed
<1> SUFFICES ASSUME Init  PROVE Typed
  OBVIOUS
<1> DEFINE card == [b \in Bundles |-> None]
           fate == [b \in Bundles |-> "unknown"]
           no == FALSE
<1>1. store = [list |-> <<>>, card |-> card, freed |-> no, fate |-> fate]
  BY DEF Init
<1>2. card \in [Bundles -> Seconds \cup {None}] /\ fate \in [Bundles -> Fates] /\ no \in BOOLEAN
  BY DEF Fates
<1>3. <<>> \in Seq(Entry) /\ Len(<<>>) = 0
  OBVIOUS
<1> HIDE DEF card, fate, no
<1>4. store \in Stores /\ Len(store.list) = 0 /\ StoreSize \in Nat
  BY <1>1, <1>2, <1>3, NumberAssumption DEF Stores, Seconds, Fates
<1>5. /\ task = [t \in Tasks |-> Idle] /\ running = None /\ up = TRUE /\ stuck = FALSE
      /\ tick = 0
  BY DEF Init
<1>6. Saving = {}
  BY <1>5 DEF Saving, Idle
<1>7. Cardinality(Saving) = 0
  BY <1>6, FS_EmptySet
<1>8. tick \in 0 .. Wrap - 1 /\ task \in [Tasks -> Places \cup {Idle}]
  BY <1>5, NumberAssumption
<1>9. running \in Tasks \cup {None} /\ up \in BOOLEAN /\ stuck \in BOOLEAN
  BY <1>5
<1>10. Len(store.list) <= StoreSize /\ Len(store.list) + Cardinality(Saving) <= StoreSize
  BY <1>4, <1>7
<1> QED
  BY <1>4, <1>5, <1>8, <1>9, <1>10 DEF Typed, TypeOK, BlocksSuffice

LEMMA NextType == Typed /\ [Next]_vars => Typed'
<1> SUFFICES ASSUME Typed, [Next]_vars  PROVE Typed'
  OBVIOUS
<1>1. CASE \E t \in Tasks : Goes(t) \/ \E b \in Bundles : Save(t, b)
  <2>1. PICK t \in Tasks : Goes(t) \/ \E b \in Bundles : Save(t, b)
    BY <1>1
  <2>2. CASE Woken(t)
    BY <2>2, WokenType
  <2>3. CASE TimedOut(t)
    BY <2>3, SmallStepsType
  <2>4. CASE Close(t)
    BY <2>4, CloseType
  <2>5. CASE Delay(t)
    BY <2>5, DelayType
  <2>6. CASE \E b \in Bundles : Save(t, b)
    BY <2>6, SaveType
  <2>7. CASE Reread(t)
    BY <2>7, RereadType
  <2>8. CASE Discard(t) \/ Abort(t)
    BY <2>8, DiscardType
  <2> QED
    BY <2>1, <2>2, <2>3, <2>4, <2>5, <2>6, <2>7, <2>8 DEF Goes
<1>2. CASE \/ \E b \in Bundles, yes \in BOOLEAN : Delete(b, yes) \/ Lock(b, yes)
           \/ Prune \/ Second
  BY <1>2, SmallStepsType
<1>3. CASE PowerOff
  BY <1>3, PowerOffType
<1>4. CASE PowerOn
  BY <1>4, PowerOnType
<1>5. CASE UNCHANGED vars
  BY <1>5 DEF vars, Typed, TypeOK, BlocksSuffice, Saving, Stopped
<1> QED
  BY <1>1, <1>2, <1>3, <1>4, <1>5 DEF Next

LEMMA AlwaysTyped == Spec => []Typed
<1>1. Init => Typed
  BY InitType
<1>2. Typed /\ [Next]_vars => Typed'
  BY NextType
<1> QED
  BY <1>1, <1>2, PTL DEF Spec

\* The list never has more entries than there are blocks of memory, nor has it with the
\* saves under way, each of which has a block: what a save has been given is there when
\* its file is closed (storage_fatfs.c: bundle_mem).
THEOREM StorageTyped == Spec => []TypeOK
<1>1. Typed => TypeOK
  BY DEF Typed
<1> QED
  BY <1>1, AlwaysTyped, PTL

(***************************************************************************)
(* The list and the files.  It is supposed that no two tasks save the same *)
(* bundle: else both find it missing while they wait, and store it twice   *)
(* (storage_fatfs.c:577).  The list is the directory if moreover every     *)
(* file is closed or removed in the end, and can be read by a restart.     *)
(***************************************************************************)
Apart == \A t, u \in Tasks : t # u => Comes[t] \cap Comes[u] = {}
Faithful == {"close_gives_up", "unlink_fails", "no_memory", "unreadable"} \cap Faults = {}

EachOnce(s) == \A i, j \in DOMAIN s.list : s.list[i].num = s.list[j].num => i = j
Tidy(s) ==
  /\ EachOnce(s) /\ \A b \in Listed(s) \ Whole(s) : s.fate[b] = "discarded"
  /\ Faithful => Listed(s) = Whole(s)
FateRight(s) ==
  \A b \in Bundles : /\ s.fate[b] = "kept" => b \in Whole(s)
                     /\ s.fate[b] = "gone" => b \notin Whole(s) \cup Listed(s)
                     /\ Faithful => s.fate[b] \notin {"discarded", "left"}
\* What is being saved is not listed, and this task alone may save it; while its file is
\* open it has neither been reported as stored nor been deleted.
InHand(t) == task[t] # Idle => task[t].num \in Comes[t] \ Listed(store)
Unsure(t) == task[t].at \in {"closing", "discarding"} => store.fate[task[t].num] = "unknown"
Ordered ==
  /\ Typed /\ FateRight(store)
  /\ up => Tidy(store)
  /\ ~up /\ Faithful => Cardinality(Whole(store)) <= StoreSize
  /\ \A t \in Tasks : InHand(t) /\ Unsure(t)

LEMMA RemovedTidy ==
  ASSUME NEW s \in Stores, Tidy(s), FateRight(s), NEW b \in Listed(s),
         NEW unlinked \in Unlinks
  PROVE  /\ Tidy(Removed(s, b, unlinked)) /\ FateRight(Removed(s, b, unlinked))
         /\ \A c \in Bundles \ Listed(s) : Removed(s, b, unlinked).fate[c] = s.fate[c]
<1> DEFINE k == FirstOf(s.list, b)
           q == RemoveAt(s.list, k)
           at(i) == IF i < k THEN i ELSE i + 1
<1>1. s.list \in Seq(Entry) /\ k \in 1 .. Len(s.list) /\ s.list[k].num = b
  BY StoreFields, FirstOfIsThere
<1>2. /\ s.card \in [Bundles -> Seconds \cup {None}] /\ s.fate \in [Bundles -> Fates]
      /\ DOMAIN s.list = 1 .. Len(s.list) /\ Len(s.list) \in Nat /\ b \in Bundles
  BY StoreFields
<1> DEFINE card == IF unlinked THEN [s.card EXCEPT ![b] = None] ELSE s.card
           fate == [s.fate EXCEPT ![b] = IF unlinked THEN "gone" ELSE "left"]
<1>3. Removed(s, b, unlinked) = [list |-> q, card |-> card, freed |-> TRUE, fate |-> fate]
  BY RemovedFields
<1> HIDE DEF k, card, fate
<1>4. /\ DOMAIN q = 1 .. Len(s.list) - 1
      /\ \A i \in 1 .. Len(s.list) - 1 : q[i] = s.list[at(i)]
  BY <1>1, RemoveAtElements
<1>5. \A i \in 1 .. Len(s.list) - 1 : at(i) \in 1 .. Len(s.list) /\ at(i) # k
  BY <1>1, <1>2
<1>6. \A i, j \in 1 .. Len(s.list) - 1 : at(i) = at(j) => i = j
  BY <1>1, <1>2
<1>7. \A j \in 1 .. Len(s.list) : j # k => \E i \in 1 .. Len(s.list) - 1 : at(i) = j
  <2> SUFFICES ASSUME NEW j \in 1 .. Len(s.list), j # k
               PROVE  \E i \in 1 .. Len(s.list) - 1 : at(i) = j
    OBVIOUS
  <2>1. CASE j < k
    <3>1. j \in 1 .. Len(s.list) - 1 /\ at(j) = j
      BY <1>1, <1>2, <2>1
    <3> QED
      BY <3>1
  <2>2. CASE j > k
    <3>1. j - 1 \in 1 .. Len(s.list) - 1 /\ at(j - 1) = j
      BY <1>1, <1>2, <2>2
    <3> QED
      BY <3>1
  <2> QED
    BY <1>1, <1>2, <2>1, <2>2
<1> HIDE DEF q, at
<1>8. /\ Removed(s, b, unlinked).list = q /\ Removed(s, b, unlinked).card = card
      /\ Removed(s, b, unlinked).fate = fate
  BY <1>3
<1>9. EachOnce(Removed(s, b, unlinked))
  <2> SUFFICES ASSUME NEW i \in DOMAIN q, NEW j \in DOMAIN q, q[i].num = q[j].num
               PROVE  i = j
    BY <1>8 DEF EachOnce
  <2>0. \A m, n \in 1 .. Len(s.list) : s.list[m].num = s.list[n].num => m = n
    BY <1>2 DEF Tidy, EachOnce
  <2>1. at(i) = at(j)
    BY <1>4, <1>5, <2>0
  <2> QED
    BY <1>4, <1>6, <2>1
<1>10. Listed(Removed(s, b, unlinked)) = Listed(s) \ {b}
  <2>1. ASSUME NEW c \in Listed(Removed(s, b, unlinked))  PROVE c \in Listed(s) \ {b}
    <3>1. PICK i \in DOMAIN q : q[i].num = c
      BY <1>8, <2>1 DEF Listed
    <3>2. at(i) \in DOMAIN s.list /\ at(i) # k /\ s.list[at(i)].num = c
      BY <1>2, <1>4, <1>5, <3>1
    <3> QED
      BY <1>1, <1>2, <3>2 DEF Listed, Tidy, EachOnce
  <2>2. ASSUME NEW c \in Listed(s), c # b  PROVE c \in Listed(Removed(s, b, unlinked))
    <3>1. PICK j \in DOMAIN s.list : s.list[j].num = c
      BY DEF Listed
    <3>2. PICK i \in DOMAIN q : at(i) = j
      BY <1>1, <1>2, <1>4, <1>7, <2>2, <3>1
    <3>3. q[i].num = c
      BY <1>4, <3>1, <3>2
    <3> QED
      BY <1>8, <3>3 DEF Listed
  <2> QED
    BY <2>1, <2>2
<1>11. /\ unlinked => Whole(Removed(s, b, unlinked)) = Whole(s) \ {b}
       /\ ~unlinked => Whole(Removed(s, b, unlinked)) = Whole(s)
  BY <1>2, <1>8 DEF Whole, card
<1>12. \A c \in Bundles :
         Removed(s, b, unlinked).fate[c]
           = IF c # b THEN s.fate[c] ELSE IF unlinked THEN "gone" ELSE "left"
  BY <1>2, <1>8 DEF fate
<1>13. Faithful => unlinked
  BY DEF Faithful, Unlinks
<1>14. FateRight(Removed(s, b, unlinked))
  BY <1>10, <1>11, <1>12, <1>13 DEF FateRight
<1>15. Tidy(Removed(s, b, unlinked))
  <2>1. ASSUME NEW c \in Listed(Removed(s, b, unlinked)) \ Whole(Removed(s, b, unlinked))
        PROVE  Removed(s, b, unlinked).fate[c] = "discarded"
    <3>1. c \in Listed(s) \ Whole(s) /\ c # b /\ c \in Bundles
      BY <1>10, <1>11, <2>1, StoreFields
    <3> QED
      BY <1>12, <3>1 DEF Tidy
  <2>2. Faithful => Listed(Removed(s, b, unlinked)) = Whole(Removed(s, b, unlinked))
    BY <1>10, <1>11, <1>13 DEF Tidy
  <2> QED
    BY <1>9, <2>1, <2>2 DEF Tidy
<1> QED
  BY <1>12, <1>14, <1>15

\* Nothing else is listed afterwards, and the fate of what was not listed is as before.
LeavesTidy(s, r) ==
  /\ r \in Stores /\ Tidy(r) /\ FateRight(r) /\ Listed(r) \subseteq Listed(s)
  /\ \A c \in Bundles \ Listed(s) : r.fate[c] = s.fate[c]

LEMMA ShrunkTidy ==
  ASSUME NEW s \in Stores, Tidy(s), FateRight(s), NEW r \in Shrunk(s)
  PROVE  LeavesTidy(s, r)
<1>1. r \in Stores /\ Listed(r) \subseteq Listed(s)
  BY ShrunkType
<1>2. CASE r = s
  BY <1>1, <1>2 DEF LeavesTidy
<1>3. CASE \E b \in Listed(s), unlinked \in Unlinks : r = Removed(s, b, unlinked)
  <2>1. PICK b \in Listed(s), unlinked \in Unlinks : r = Removed(s, b, unlinked)
    BY <1>3
  <2> QED
    BY <1>1, <2>1, RemovedTidy DEF LeavesTidy
<1> QED
  BY <1>2, <1>3 DEF Shrunk

\* What stays of Ordered when the list has become shorter and no task went to another
\* place than idle.
Remains(t) == task'[t].at = task[t].at /\ task'[t].num = task[t].num /\ task[t] # Idle
LEMMA TidyLeft ==
  ASSUME Ordered, Typed', up, up', LeavesTidy(store, store'),
         \A t \in Tasks : task'[t] = Idle \/ Remains(t)
  PROVE  Ordered'
<1>1. ASSUME NEW t \in Tasks  PROVE InHand(t)' /\ Unsure(t)'
  <2>1. CASE task'[t] = Idle
    BY <2>1 DEF InHand, Unsure, Idle
  <2>2. CASE Remains(t)
    <3>0. task'[t].at = task[t].at /\ task'[t].num = task[t].num /\ task[t] # Idle
      BY <2>2 DEF Remains
    <3>1. InHand(t) /\ Unsure(t) /\ task[t].num \in Bundles
      BY <3>0, PlaceOf DEF Ordered, Typed
    <3>2. InHand(t)'
      BY <3>0, <3>1 DEF InHand, LeavesTidy
    <3>3. Unsure(t)'
      BY <3>0, <3>1 DEF Unsure, InHand, LeavesTidy
    <3> QED
      BY <3>2, <3>3
  <2> QED
    BY <2>1, <2>2
<1> QED
  BY <1>1 DEF Ordered, LeavesTidy

LEMMA SameTidy ==
  ASSUME NEW s \in Stores, Tidy(s), FateRight(s)
  PROVE  LeavesTidy(s, s)
BY DEF LeavesTidy

\* The file of a bundle that is not listed is created; one that was left over is emptied.
LEMMA OpenedTidy ==
  ASSUME NEW s \in Stores, Tidy(s), FateRight(s), NEW b \in Bundles \ Listed(s)
  PROVE  /\ Opened(s, b) \in Stores /\ Tidy(Opened(s, b)) /\ FateRight(Opened(s, b))
         /\ Listed(Opened(s, b)) = Listed(s) /\ Opened(s, b).fate[b] = "unknown"
         /\ \A c \in Bundles \ {b} : Opened(s, b).fate[c] = s.fate[c]
<1> DEFINE card == [s.card EXCEPT ![b] = None]
           fate == [s.fate EXCEPT ![b] = "unknown"]
<1>1. Opened(s, b) \in Stores /\ Opened(s, b).list = s.list
  BY OpenedType
<1>2. Opened(s, b).card = card /\ Opened(s, b).fate = fate
  <2>1. Opened(s, b) = [s EXCEPT !.card = card, !.fate = fate]
    BY DEF Opened
  <2>2. s = [list |-> s.list, card |-> s.card, freed |-> s.freed, fate |-> s.fate]
    BY StoreFields
  <2> HIDE DEF card, fate
  <2> QED
    BY <2>1, <2>2
<1>3. s.card \in [Bundles -> Seconds \cup {None}] /\ s.fate \in [Bundles -> Fates]
  BY StoreFields
<1>4. \A c \in Bundles : /\ card[c] = IF c = b THEN None ELSE s.card[c]
                         /\ fate[c] = IF c = b THEN "unknown" ELSE s.fate[c]
  BY <1>3
<1> HIDE DEF card, fate
<1>5. Whole(Opened(s, b)) = Whole(s) \ {b} /\ Listed(Opened(s, b)) = Listed(s)
  BY <1>1, <1>2, <1>4 DEF Whole, Listed
<1>6. EachOnce(Opened(s, b))
  BY <1>1 DEF Tidy, EachOnce
<1>7. FateRight(Opened(s, b))
  BY <1>2, <1>4, <1>5 DEF FateRight
<1>8. Tidy(Opened(s, b))
  <2>1. ASSUME NEW c \in Listed(Opened(s, b)) \ Whole(Opened(s, b))
        PROVE  Opened(s, b).fate[c] = "discarded"
    <3>1. c \in Listed(s) \ Whole(s) /\ c # b /\ c \in Bundles
      BY <1>5, <2>1, StoreFields
    <3> QED
      BY <1>2, <1>4, <3>1 DEF Tidy
  <2>2. Faithful => Listed(Opened(s, b)) = Whole(Opened(s, b))
    BY <1>5 DEF Tidy
  <2> QED
    BY <1>6, <2>1, <2>2 DEF Tidy
<1> QED
  BY <1>1, <1>2, <1>4, <1>5, <1>7, <1>8

LEMMA ContinuesTidy ==
  ASSUME Apart, Ordered, Typed', up, up', NEW t \in Tasks, NEW s \in Stores, LeavesTidy(store, s),
         NEW b \in Comes[t] \ Listed(store), b \in Bundles, NEW rec, Continues(t, s, b, rec)
  PROVE  Ordered'
<1>0. PICK p \in Shrunk(s) : \E q \in Shrunk(p) : GoesOn(t, q, b, rec)
  BY DEF Continues
<1>1. PICK q \in Shrunk(p) :
        Waits(t, q, b, rec) \/ Ends(t, q) \/ Aborts(t, q, b, rec) \/ Writes(t, q, b, rec)
  BY <1>0 DEF GoesOn
<1>2. LeavesTidy(store, q)
  <2>1. LeavesTidy(s, p)
    BY ShrunkTidy DEF LeavesTidy
  <2>2. LeavesTidy(p, q)
    BY <2>1, ShrunkTidy DEF LeavesTidy
  <2> QED
    BY <2>1, <2>2 DEF LeavesTidy
<1>3. b \notin Listed(q) /\ q \in Stores /\ Tidy(q) /\ FateRight(q)
  BY <1>2 DEF LeavesTidy
<1>4. /\ store' \in Stores /\ Tidy(store') /\ FateRight(store')
      /\ Listed(store') \subseteq Listed(store)
      /\ \A c \in Bundles \ Listed(store) : c # b => store'.fate[c] = store.fate[c]
      /\ Writes(t, q, b, rec) => store'.fate[b] = "unknown"
  <2>1. CASE store' = q /\ ~Writes(t, q, b, rec)
    BY <1>2, <2>1 DEF LeavesTidy
  <2>2. CASE store' = Opened(q, b)
    BY <1>2, <1>3, <2>2, OpenedTidy DEF LeavesTidy
  <2> QED
    BY <1>1, <2>1, <2>2 DEF Waits, Ends, Aborts, Writes
<1> DEFINE open == {"closing", "discarding"}
<1>5. /\ Idle.at \notin open /\ \A at : Place(at, b, rec).num = b /\ Place(at, b, rec).at = at
  BY DEF Idle, Place
<1>6. PICK place : /\ task' = [task EXCEPT ![t] = place]
                   /\ (place = Idle \/ place.num = b)
                   /\ (place.at \in open => Writes(t, q, b, rec))
  BY <1>1, <1>5 DEF Waits, Ends, Aborts, Writes
<1>7. task \in [Tasks -> Places \cup {Idle}]
  BY DEF Ordered, Typed, TypeOK
<1>8. ASSUME NEW u \in Tasks  PROVE InHand(u)' /\ Unsure(u)'
  <2>1. CASE u = t
    <3>1. task'[u] = place
      BY <1>6, <1>7, <2>1
    <3>2. InHand(u)'
      BY <1>4, <1>6, <2>1, <3>1 DEF InHand
    <3>3. Unsure(u)'
      <4>1. place.at \in open => place # Idle
        BY DEF Idle
      <4> QED
        BY <1>4, <1>6, <3>1, <4>1 DEF Unsure
    <3> QED
      BY <3>2, <3>3
  <2>2. CASE u # t
    <3>1. task'[u] = task[u]
      BY <1>6, <1>7, <2>2
    <3>2. InHand(u) /\ Unsure(u)
      BY DEF Ordered
    <3>3. InHand(u)'
      BY <1>4, <3>1, <3>2 DEF InHand
    <3>4. Unsure(u)'
      <4>1. CASE task[u].at \in open
        <5>1. task[u] # Idle /\ task[u].num \in Bundles
          BY <4>1, PlaceOf DEF Idle, Ordered, Typed
        <5>2. task[u].num \in Comes[u] \ Listed(store)
          BY <3>2, <5>1 DEF InHand
        <5>3. task[u].num # b
          BY <2>2, <5>2 DEF Apart
        <5> QED
          BY <1>4, <3>1, <3>2, <5>1, <5>2, <5>3 DEF Unsure
      <4>2. CASE task[u].at \notin open
        BY <3>1, <4>2 DEF Unsure
      <4> QED
        BY <4>1, <4>2
    <3> QED
      BY <3>3, <3>4
  <2> QED
    BY <2>1, <2>2
<1> QED
  BY <1>4, <1>8 DEF Ordered

LEMMA SaveTidy ==
  ASSUME Apart, Ordered, Typed', NEW t \in Tasks, NEW b \in Bundles, Save(t, b)
  PROVE  Ordered'
<1>1. up /\ up' /\ TryRoom(t, store, b, tick) /\ b \in Comes[t] \ Listed(store)
  BY DEF Save, SaveUnchecked, Free
<1>2. store \in Stores /\ Tidy(store) /\ FateRight(store)
  BY <1>1 DEF Ordered, Typed, TypeOK
<1>3. LeavesTidy(store, store)
  BY <1>2, SameTidy
<1> QED
  BY <1>1, <1>2, <1>3, TryRoomSteps, ContinuesTidy

LEMMA WokenTidy ==
  ASSUME Apart, Ordered, Typed', NEW t \in Tasks, Woken(t)
  PROVE  Ordered'
<1>1. up /\ up' /\ TryRoom(t, Taken, task[t].num, task[t].rec) /\ task[t].at = "room"
  BY DEF Woken, At, Taken
<1>2. store \in Stores /\ Tidy(store) /\ FateRight(store)
  BY <1>1 DEF Ordered, Typed, TypeOK
<1>3. /\ Taken \in Stores /\ Taken.list = store.list
      /\ Taken.card = store.card /\ Taken.fate = store.fate
  BY <1>2, TakenType
<1>4. LeavesTidy(store, Taken)
  BY <1>2, <1>3 DEF LeavesTidy, Tidy, EachOnce, Listed, Whole, FateRight
<1>5. task[t] # Idle /\ task[t].num \in Bundles
  BY <1>1, PlaceOf DEF Idle, Ordered, Typed
<1>6. task[t].num \in Comes[t] \ Listed(store)
  BY <1>5 DEF Ordered, InHand
<1> QED
  BY <1>1, <1>3, <1>4, <1>5, <1>6, TryRoomSteps, ContinuesTidy

LEMMA RereadTidy ==
  ASSUME Apart, Ordered, Typed', NEW t \in Tasks, Reread(t)
  PROVE  Ordered'
<1>1. up /\ up' /\ task[t].at = "reading"
  BY DEF Reread, At
<1>2. store \in Stores /\ Tidy(store) /\ FateRight(store)
  BY <1>1 DEF Ordered, Typed, TypeOK
<1>3. Continues(t, store, task[t].num, task[t].rec) /\ LeavesTidy(store, store)
  BY <1>2, RereadSteps, SameTidy
<1>4. task[t] # Idle /\ task[t].num \in Bundles
  BY <1>1, PlaceOf DEF Idle, Ordered, Typed
<1>5. task[t].num \in Comes[t] \ Listed(store)
  BY <1>4 DEF Ordered, InHand
<1> QED
  BY <1>1, <1>2, <1>3, <1>4, <1>5, ContinuesTidy

\* The bundle is listed, with a whole file or with the fate that says that it has none.
LEMMA CloseTidy ==
  ASSUME Apart, Ordered, Typed', NEW t \in Tasks, Close(t)
  PROVE  Ordered'
<1> DEFINE b == task[t].num
           rec == task[t].rec
<1>1. /\ up /\ up' /\ task[t].at = "closing" /\ task' = [task EXCEPT ![t] = Idle]
      /\ \E whole \in BOOLEAN : (Faithful => whole) /\ store' = Closed(store, b, rec, whole)
  BY DEF Close, At, Goto, GivesUp, Faithful
<1>2. b \in Bundles /\ rec \in Seconds /\ task[t] # Idle
  BY <1>1, PlaceOf DEF Ordered, Typed, Idle
<1>3. /\ store \in Stores /\ Tidy(store) /\ FateRight(store)
      /\ task \in [Tasks -> Places \cup {Idle}]
  BY <1>1 DEF Ordered, Typed, TypeOK
<1>4. b \in Comes[t] \ Listed(store)
  BY <1>2 DEF Ordered, InHand
<1> HIDE DEF b, rec
<1>5. /\ store.card \in [Bundles -> Seconds \cup {None}] /\ store.fate \in [Bundles -> Fates]
      /\ DOMAIN store.list = 1 .. Len(store.list) /\ Len(store.list) \in Nat
  BY <1>3, StoreFields
<1>6. New(b, rec).num = b
  BY DEF New
<1>7. PICK whole \in BOOLEAN : (Faithful => whole) /\ store' = Closed(store, b, rec, whole)
  BY <1>1
<1>8. PICK list \in Seq(Entry) :
        /\ store' = [list |-> list, card |-> ClosedCard(store, b, rec, whole),
                     freed |-> store.freed, fate |-> ClosedFate(store, b, whole)]
        /\ Len(list) = Len(store.list) + 1 /\ list[Len(store.list) + 1] = New(b, rec)
        /\ \A i \in DOMAIN store.list : list[i] = store.list[i]
  BY <1>2, <1>3, <1>7, ClosedFields
<1>9. /\ store'.list = list /\ DOMAIN list = 1 .. Len(store.list) + 1
      /\ store'.card = ClosedCard(store, b, rec, whole) /\ store'.fate = ClosedFate(store, b, whole)
  BY <1>5, <1>8
<1>10. /\ whole => Whole(store') = Whole(store) \cup {b}
       /\ ~whole => Whole(store') = Whole(store)
       /\ \A c \in Bundles : store'.fate[c] = IF c # b THEN store.fate[c]
                                             ELSE IF whole THEN "kept" ELSE "discarded"
  <2>1. rec # None
    BY <1>2, NumberAssumption DEF Seconds
  <2> QED
    BY <1>2, <1>5, <1>9, <2>1 DEF Whole, ClosedCard, ClosedFate
<1>11. \A i \in DOMAIN list : \/ i \in DOMAIN store.list /\ list[i] = store.list[i]
                              \/ i = Len(store.list) + 1 /\ list[i].num = b
  BY <1>5, <1>6, <1>8, <1>9
<1>12. Listed(store') = Listed(store) \cup {b}
  <2>1. ASSUME NEW c \in Listed(store')  PROVE c \in Listed(store) \cup {b}
    <3>1. PICK i \in DOMAIN list : list[i].num = c
      BY <1>9 DEF Listed
    <3> QED
      BY <1>11, <3>1 DEF Listed
  <2>2. ASSUME NEW c \in Listed(store)  PROVE c \in Listed(store')
    <3>1. PICK i \in DOMAIN store.list : store.list[i].num = c
      BY DEF Listed
    <3>2. i \in DOMAIN list /\ list[i].num = c
      BY <1>5, <1>8, <1>9, <3>1
    <3> QED
      BY <1>9, <3>2 DEF Listed
  <2>3. b \in Listed(store')
    <3>1. Len(store.list) + 1 \in DOMAIN list
      BY <1>5, <1>9
    <3> QED
      BY <1>6, <1>8, <1>9, <3>1 DEF Listed
  <2> QED
    BY <2>1, <2>2, <2>3
<1>13. EachOnce(store')
  <2> SUFFICES ASSUME NEW i \in DOMAIN list, NEW j \in DOMAIN list, list[i].num = list[j].num
               PROVE  i = j
    BY <1>9 DEF EachOnce
  <2>1. \A k \in DOMAIN store.list : store.list[k].num # b
    BY <1>4 DEF Listed
  <2> QED
    BY <1>3, <1>11, <2>1 DEF Tidy, EachOnce
<1>14. Tidy(store')
  <2>1. ASSUME NEW c \in Listed(store') \ Whole(store')  PROVE store'.fate[c] = "discarded"
    <3>1. CASE c = b
      BY <1>2, <1>10, <2>1, <3>1
    <3>2. CASE c # b
      <4>1. c \in Listed(store) \ Whole(store) /\ c \in Bundles
        BY <1>3, <1>10, <1>12, <2>1, <3>2, StoreFields
      <4> QED
        BY <1>3, <1>10, <3>2, <4>1 DEF Tidy
    <3> QED
      BY <3>1, <3>2
  <2>2. Faithful => Listed(store') = Whole(store')
    BY <1>3, <1>7, <1>10, <1>12 DEF Tidy
  <2> QED
    BY <1>13, <2>1, <2>2 DEF Tidy
<1>15. FateRight(store')
  BY <1>3, <1>7, <1>10, <1>12 DEF FateRight
<1>16. ASSUME NEW u \in Tasks  PROVE InHand(u)' /\ Unsure(u)'
  <2>1. CASE u = t
    <3>1. task'[u] = Idle
      BY <1>1, <1>3, <2>1
    <3> QED
      BY <3>1 DEF InHand, Unsure, Idle
  <2>2. CASE u # t
    <3>1. task'[u] = task[u] /\ InHand(u) /\ Unsure(u)
      BY <1>1, <1>3, <2>2 DEF Ordered
    <3>2. CASE task[u] = Idle
      BY <3>1, <3>2 DEF InHand, Unsure, Idle
    <3>3. CASE task[u] # Idle
      <4>1. task[u].num \in Comes[u] \ Listed(store) /\ task[u].num \in Bundles
        BY <3>1, <3>3, PlaceOf DEF InHand, Ordered, Typed
      <4>2. task[u].num # b
        BY <1>4, <2>2, <4>1 DEF Apart
      <4>3. InHand(u)'
        BY <1>12, <3>1, <4>1, <4>2 DEF InHand
      <4>4. Unsure(u)'
        BY <1>10, <3>1, <4>1, <4>2 DEF Unsure
      <4> QED
        BY <4>3, <4>4
    <3> QED
      BY <3>2, <3>3
  <2> QED
    BY <2>1, <2>2
<1> QED
  BY <1>1, <1>14, <1>15, <1>16 DEF Ordered

\* What could not be written is removed, or part of it is left as a file that is not listed.
LEMMA DiscardTidy ==
  ASSUME Ordered, Typed', NEW t \in Tasks, Discard(t)
  PROVE  Ordered'
<1> DEFINE b == task[t].num
           rec == task[t].rec
<1>1. /\ up /\ up' /\ task[t].at = "discarding" /\ task' = [task EXCEPT ![t] = Idle]
      /\ (store' = store \/ (store' = Left(b, rec) /\ ~Faithful))
  BY DEF Discard, At, Goto, Left, Unlinks, Faithful
<1>2. b \in Bundles /\ rec \in Seconds /\ store.fate[b] = "unknown"
  BY <1>1, PlaceOf DEF Ordered, Typed, Unsure
<1>3. /\ store \in Stores /\ Tidy(store) /\ FateRight(store)
      /\ task \in [Tasks -> Places \cup {Idle}]
  BY <1>1 DEF Ordered, Typed, TypeOK
<1> HIDE DEF b, rec
<1>4. ASSUME store' = store  PROVE LeavesTidy(store, store')
  BY <1>3, <1>4, SameTidy
<1>5. ASSUME store' = Left(b, rec), ~Faithful  PROVE LeavesTidy(store, store')
  <2>1. /\ store' \in Stores /\ store'.list = store.list /\ store'.fate = store.fate
        /\ store'.card = [store.card EXCEPT ![b] = rec]
    BY <1>2, <1>3, <1>5, LeftFields
  <2>2. Listed(store') = Listed(store) /\ EachOnce(store')
    BY <1>3, <2>1 DEF Listed, EachOnce, Tidy
  <2>3. Whole(store') = Whole(store) \cup {b}
    BY <1>2, <1>3, <2>1, StoreFields, NumberAssumption DEF Whole, Seconds
  <2>4. Tidy(store')
    BY <1>3, <1>5, <2>1, <2>2, <2>3 DEF Tidy
  <2>5. FateRight(store')
    BY <1>2, <1>3, <1>5, <2>1, <2>2, <2>3 DEF FateRight
  <2> QED
    BY <2>1, <2>2, <2>4, <2>5 DEF LeavesTidy
<1>6. LeavesTidy(store, store')
  BY <1>1, <1>4, <1>5
<1>7. \A u \in Tasks : task'[u] = Idle \/ Remains(u)
  BY <1>1, <1>3 DEF Remains
<1> QED
  BY <1>1, <1>6, <1>7, TidyLeft

LEMMA SmallStepsTidy ==
  ASSUME Ordered, Typed',
         \/ \E t \in Tasks : TimedOut(t) \/ Abort(t) \/ Delay(t)
         \/ \E b \in Bundles, yes \in BOOLEAN : Delete(b, yes) \/ Lock(b, yes)
         \/ Prune
  PROVE  Ordered'
<1>1. up /\ up'
  <2>1. ASSUME NEW t \in Tasks, TimedOut(t) \/ Abort(t) \/ Delay(t)  PROVE up /\ up'
    BY <2>1 DEF TimedOut, Abort, Delay, At
  <2>2. ASSUME NEW b \in Bundles, NEW yes \in BOOLEAN, Delete(b, yes) \/ Lock(b, yes)
        PROVE  up /\ up'
    BY <2>2 DEF Delete, Lock, Free
  <2>3. Prune => up /\ up'
    BY DEF Prune, Free
  <2> QED
    BY <2>1, <2>2, <2>3
<1>2. /\ store \in Stores /\ Tidy(store) /\ FateRight(store)
      /\ task \in [Tasks -> Places \cup {Idle}]
  BY <1>1 DEF Ordered, Typed, TypeOK
<1>3. task' = task => \A t \in Tasks : task'[t] = Idle \/ Remains(t)
  BY DEF Remains
<1>4. CASE \E t \in Tasks : TimedOut(t) \/ Abort(t)
  <2>1. PICK t \in Tasks : TimedOut(t) \/ Abort(t)
    BY <1>4
  <2>2. task' = [task EXCEPT ![t] = Idle] /\ store' = store
    BY <2>1 DEF TimedOut, Abort, Goto
  <2>3. \A u \in Tasks : task'[u] = Idle \/ Remains(u)
    BY <1>2, <2>2 DEF Remains
  <2>4. LeavesTidy(store, store')
    BY <1>2, <2>2, SameTidy
  <2> QED
    BY <1>1, <2>3, <2>4, TidyLeft
<1>5. CASE \E t \in Tasks : Delay(t)
  <2>1. PICK t \in Tasks : Delay(t)
    BY <1>5
  <2>2. /\ task' = [task EXCEPT ![t].tries = @ - 1] /\ store' = store
        /\ task[t].at \in {"closing", "discarding"}
    BY <2>1 DEF Delay, At
  <2>3. task[t] \in Places /\ task[t] # Idle
    BY <2>2, PlaceOf DEF Ordered, Typed, Idle
  <2>4. \A u \in Tasks : u # t => task'[u] = task[u]
    BY <1>2, <2>2
  <2>5. task'[t].at = task[t].at /\ task'[t].num = task[t].num
    BY <1>2, <2>2, <2>3 DEF Places
  <2>6. \A u \in Tasks : task'[u] = Idle \/ Remains(u)
    BY <2>3, <2>4, <2>5 DEF Remains
  <2>7. LeavesTidy(store, store')
    BY <1>2, <2>2, SameTidy
  <2> QED
    BY <1>1, <2>6, <2>7, TidyLeft
<1>6. CASE \E b \in Bundles, yes \in BOOLEAN : Delete(b, yes)
  <2>1. PICK b \in Bundles, yes \in BOOLEAN : Delete(b, yes)
    BY <1>6
  <2>2. /\ b \in Listed(store) /\ \E unlinked \in Unlinks : store' = Removed(store, b, unlinked)
        /\ task' = task
    BY <2>1 DEF Delete
  <2>3. LeavesTidy(store, store')
    BY <1>2, <2>2, ShrunkTidy DEF Shrunk
  <2> QED
    BY <1>1, <1>3, <2>2, <2>3, TidyLeft
<1>7. CASE \E b \in Bundles, yes \in BOOLEAN : Lock(b, yes)
  <2>1. PICK b \in Bundles, yes \in BOOLEAN : Lock(b, yes)
    BY <1>7
  <2> DEFINE k == FirstOf(store.list, b)
  <2>2. b \in Listed(store) /\ store' = [store EXCEPT !.list[k].locked = yes] /\ task' = task
    BY <2>1 DEF Lock
  <2>3. k \in DOMAIN store.list
    BY <1>2, <2>2, FirstOfIsThere, StoreFields
  <2> HIDE DEF k
  <2>4. /\ store' \in Stores /\ DOMAIN store'.list = DOMAIN store.list
        /\ \A i \in DOMAIN store.list : store'.list[i].num = store.list[i].num
        /\ store'.card = store.card /\ store'.fate = store.fate
    BY <1>2, <2>2, <2>3, LockFields
  <2>5. LeavesTidy(store, store')
    <3>1. Listed(store') = Listed(store) /\ Whole(store') = Whole(store)
      BY <2>4 DEF Listed, Whole
    <3>2. EachOnce(store') /\ FateRight(store')
      BY <1>2, <2>4, <3>1 DEF EachOnce, FateRight, Tidy
    <3> QED
      BY <1>2, <2>4, <3>1, <3>2 DEF LeavesTidy, Tidy
  <2> QED
    BY <1>1, <1>3, <2>2, <2>5, TidyLeft
<1>8. CASE Prune
  <2>1. PICK read \in Readings(store), unlinked \in Unlinks : store' = Pruned(store, read, unlinked)
    BY <1>8 DEF Prune
  <2>2. LeavesTidy(store, store')
    BY <1>2, <2>1, PrunedShrinks, ShrunkTidy
  <2>3. task' = task
    BY <1>8 DEF Prune
  <2> QED
    BY <1>1, <1>3, <2>2, <2>3, TidyLeft
<1> QED
  BY <1>4, <1>5, <1>6, <1>7, <1>8

\* A list with an entry for each of a set of bundles is as long as the set is large.
LEMMA ListedBound ==
  ASSUME store \in Stores
  PROVE  IsFiniteSet(Listed(store)) /\ Cardinality(Listed(store)) <= Len(store.list)
<1> DEFINE n == Len(store.list)
           f == [i \in 1 .. n |-> store.list[i].num]
<1>1. n \in Nat /\ DOMAIN store.list = 1 .. n
  BY StoreFields
<1>2. f \in Surjection(1 .. n, Listed(store))
  BY <1>1 DEF Surjection, Listed
<1>3. IsFiniteSet(1 .. n) /\ Cardinality(1 .. n) = n
  BY <1>1, FS_Interval
<1> HIDE DEF n, f
<1>4. IsFiniteSet(Listed(store)) /\ Cardinality(Listed(store)) <= n
  BY <1>2, <1>3, FS_Surjection
<1> QED
  BY <1>4 DEF n

LEMMA NamedBound ==
  ASSUME NEW T \in SUBSET Saving
  PROVE  /\ IsFiniteSet({task[t].num : t \in T})
         /\ Cardinality({task[t].num : t \in T}) <= Cardinality(Saving)
<1> DEFINE N == {task[t].num : t \in T}
           f == [t \in T |-> task[t].num]
<1>1. IsFiniteSet(T) /\ Cardinality(T) <= Cardinality(Saving) /\ Cardinality(Saving) \in Nat
  BY SavingFinite, FS_Subset
<1>2. f \in Surjection(T, N)
  BY DEF Surjection
<1> HIDE DEF N, f
<1>3. IsFiniteSet(N) /\ Cardinality(N) <= Cardinality(T)
  BY <1>1, <1>2, FS_Surjection
<1>4. Cardinality(N) \in Nat /\ Cardinality(T) \in Nat
  BY <1>1, <1>3, FS_CardinalityType
<1> QED
  BY <1>1, <1>3, <1>4 DEF N

\* Every whole file has had a block, and finds one when the node starts again.
LEMMA PowerOffTidy ==
  ASSUME Ordered, Typed', PowerOff
  PROVE  Ordered'
<1>1. PICK T \in SUBSET Writing : \E saved : Kept(T, saved)
  BY DEF PowerOff, Kept
<1>2. PICK saved : Kept(T, saved)
  BY <1>1
<1>3. /\ up /\ ~up' /\ task' = [t \in Tasks |-> Idle]
  BY DEF PowerOff
<1>4. /\ store \in Stores /\ Tidy(store) /\ FateRight(store) /\ Typed
  BY <1>3 DEF Ordered, Typed, TypeOK
<1> DEFINE N == {task[t].num : t \in T}
<1>5. /\ store'.fate = store.fate /\ DOMAIN saved = N /\ \A b \in N : saved[b] \in Seconds
      /\ store'.card = [b \in Bundles |-> IF b \in N THEN saved[b] ELSE store.card[b]]
  <2>1. /\ store'.fate = store.fate
        /\ DOMAIN saved = N /\ \A b \in DOMAIN saved : saved[b] \in Seconds
        /\ store'.card = [b \in Bundles |-> IF b \in DOMAIN saved THEN saved[b] ELSE store.card[b]]
    BY <1>2, <1>4, PowerOffFields
  <2> QED
    BY <2>1
<1>6. T \in SUBSET Saving
  BY DEF Saving, Writing
<1>7. ASSUME NEW b \in N  PROVE b \in Bundles /\ store.fate[b] = "unknown"
  <2>1. PICK t \in T : task[t].num = b
    BY <1>7
  <2>2. t \in Tasks /\ task[t].at \in {"closing", "discarding"}
    BY DEF Writing
  <2>3. task[t].num \in Bundles
    BY <2>2, PlaceOf DEF Ordered, Typed
  <2> QED
    BY <2>1, <2>2, <2>3 DEF Ordered, Unsure
<1> HIDE DEF N
<1>8. Whole(store') = Whole(store) \cup N
  <2>1. \A b \in Bundles : store'.card[b] = IF b \in N THEN saved[b] ELSE store.card[b]
    BY <1>5
  <2>2. \A b \in N : saved[b] # None
    BY <1>5, NumberAssumption DEF Seconds
  <2>3. ASSUME NEW b \in Bundles  PROVE store'.card[b] # None <=> b \in N \/ store.card[b] # None
    BY <2>1, <2>2
  <2> QED
    BY <1>7, <2>3 DEF Whole
<1>9. FateRight(store')
  <2>1. store'.list = <<>>
    BY <1>2, <1>4, PowerOffFields
  <2>2. Listed(store') = {}
    BY <2>1 DEF Listed
  <2> QED
    BY <1>4, <1>5, <1>7, <1>8, <2>2 DEF FateRight
<1>10. ASSUME Faithful  PROVE Cardinality(Whole(store')) <= StoreSize
  <2>1. IsFiniteSet(Listed(store)) /\ Cardinality(Listed(store)) <= Len(store.list)
    BY <1>4, ListedBound
  <2>2. IsFiniteSet(N) /\ Cardinality(N) <= Cardinality(Saving)
    BY <1>6, NamedBound DEF N
  <2>3. Whole(store') = Listed(store) \cup N
    BY <1>4, <1>8, <1>10 DEF Tidy
  <2>4. Cardinality(Whole(store'))
          = Cardinality(Listed(store)) + Cardinality(N) - Cardinality(Listed(store) \cap N)
    BY <2>1, <2>2, <2>3, FS_Union
  <2>5. IsFiniteSet(Listed(store) \cap N)
    BY <2>1, FS_Intersection
  <2>6. /\ Cardinality(Listed(store)) \in Nat /\ Cardinality(N) \in Nat
        /\ Cardinality(Listed(store) \cap N) \in Nat
    BY <2>1, <2>2, <2>5, FS_CardinalityType
  <2>7. /\ Len(store.list) + Cardinality(Saving) <= StoreSize /\ Len(store.list) \in Nat
        /\ Cardinality(Saving) \in Nat /\ StoreSize \in Nat
    BY <1>4, StoreFields, SavingFinite, NumberAssumption DEF Typed, BlocksSuffice
  <2> QED
    BY <2>1, <2>2, <2>4, <2>6, <2>7
<1>11. \A t \in Tasks : InHand(t)' /\ Unsure(t)'
  BY <1>3 DEF InHand, Unsure, Idle
<1> QED
  BY <1>3, <1>9, <1>10, <1>11 DEF Ordered

LEMMA OrderOnce ==
  ASSUME NEW s, NEW R \in SUBSET Whole(s), NEW q \in Orders(R)
  PROVE  /\ DOMAIN q = 1 .. Cardinality(R) /\ R = {q[i] : i \in DOMAIN q}
         /\ \A i, j \in DOMAIN q : q[i] = q[j] => i = j
<1> DEFINE n == Cardinality(R)
<1>1. IsFiniteSet(R) /\ n \in Nat
  BY WholeFinite
<1>2. q \in [1 .. n -> R] /\ R = {q[i] : i \in DOMAIN q}
  BY DEF Orders, Range
<1>3. q \in Surjection(1 .. n, R)
  BY <1>2 DEF Surjection
<1>4. IsFiniteSet(1 .. n) /\ Cardinality(1 .. n) = Cardinality(R)
  BY <1>1, FS_Interval
<1>5. q \in Injection(1 .. n, R)
  BY <1>3, <1>4, FS_SurjSameCardinalityImpliesInj
<1> QED
  BY <1>2, <1>5 DEF Injection, IsInjective

LEMMA PowerOnTidy ==
  ASSUME Ordered, Typed', PowerOn
  PROVE  Ordered'
<1>1. ~up /\ up' /\ task' = task /\ store \in Stores /\ Typed
  BY DEF PowerOn, Ordered, Typed, TypeOK
<1>2. PICK R \in Restored(store) : \E q \in Orders(R) :
        store' = [store EXCEPT !.list = [i \in DOMAIN q |-> RestoredEntry(q[i])]]
  BY <1>1, PowerOnList
<1>3. PICK q \in Orders(R) :
        store' = [store EXCEPT !.list = [i \in DOMAIN q |-> RestoredEntry(q[i])]]
  BY <1>2
<1>4. R \in SUBSET Whole(store)
  BY <1>2 DEF Restored
<1>5. ASSUME Faithful  PROVE R = Whole(store)
  <2>1. Whole(store) \in SUBSET Whole(store)
    OBVIOUS
  <2>2. IsFiniteSet(Whole(store)) /\ Cardinality(Whole(store)) \in Nat /\ Cardinality(R) \in Nat
    BY <1>4, <2>1, WholeFinite
  <2>3. Cardinality(R) <= Cardinality(Whole(store))
        /\ (Cardinality(Whole(store)) = Cardinality(R) => Whole(store) = R)
    BY <1>4, <2>2, FS_Subset
  <2>4. R = Whole(store) \/ Cardinality(R) = StoreSize
    BY <1>2, <1>5 DEF Restored, BlocksThere, Faithful
  <2>5. Cardinality(Whole(store)) <= StoreSize /\ StoreSize \in Nat
    BY <1>1, <1>5, NumberAssumption DEF Ordered
  <2> QED
    BY <2>2, <2>3, <2>4, <2>5
<1> DEFINE list == [i \in DOMAIN q |-> RestoredEntry(q[i])]
<1>6. store' = [store EXCEPT !.list = list]
  BY <1>3
<1>7. DOMAIN list = DOMAIN q /\ \A i \in DOMAIN q : list[i].num = q[i]
  <2>1. list = [i \in DOMAIN q |-> RestoredEntry(q[i])]
    OBVIOUS
  <2> HIDE DEF list
  <2>2. store \in Stores /\ R \in SUBSET Whole(store) /\ q \in Orders(R)
    BY <1>1, <1>4
  <2> QED
    BY <2>1, <2>2, PowerOnFields, ZenonT(30)
<1> HIDE DEF list
<1>8. store'.list = list /\ store'.card = store.card /\ store'.fate = store.fate
  BY <1>1, <1>6, StoreFields
<1>9. R = {q[i] : i \in DOMAIN q} /\ \A i, j \in DOMAIN q : q[i] = q[j] => i = j
  BY <1>4, OrderOnce
<1>10. EachOnce(store')
  BY <1>7, <1>8, <1>9 DEF EachOnce
<1>11. Listed(store') = R /\ Whole(store') = Whole(store)
  BY <1>7, <1>8, <1>9 DEF Listed, Whole
<1>12. FateRight(store')
  BY <1>4, <1>8, <1>11 DEF FateRight, Ordered
<1>13. \A t \in Tasks : task'[t] = Idle
  BY <1>1 DEF Typed, Stopped
<1>14. \A t \in Tasks : InHand(t)' /\ Unsure(t)'
  BY <1>13 DEF InHand, Unsure, Idle
<1> QED
  BY <1>1, <1>4, <1>5, <1>10, <1>11, <1>12, <1>14 DEF Ordered, Tidy

LEMMA InitTidy == Init => Ordered
<1> SUFFICES ASSUME Init  PROVE Ordered
  OBVIOUS
<1>1. Typed /\ store \in Stores
  BY InitType DEF Typed, TypeOK
<1> DEFINE card == [b \in Bundles |-> None]
           fate == [b \in Bundles |-> "unknown"]
           no == FALSE
<1>2. store = [list |-> <<>>, card |-> card, freed |-> no, fate |-> fate]
  BY DEF Init
<1> HIDE DEF no, card, fate
<1>3. store.list = <<>> /\ store.card = card /\ store.fate = fate
  BY <1>2
<1>4. Listed(store) = {} /\ EachOnce(store)
  BY <1>3 DEF Listed, EachOnce
<1>5. Whole(store) = {}
  BY <1>3 DEF Whole, card
<1>6. FateRight(store)
  BY <1>3 DEF FateRight, fate
<1>7. \A t \in Tasks : InHand(t) /\ Unsure(t)
  BY DEF Init, InHand, Unsure, Idle
<1>8. up
  BY DEF Init
<1> QED
  BY <1>1, <1>4, <1>5, <1>6, <1>7, <1>8 DEF Ordered, Tidy

LEMMA NextTidy == Apart /\ Ordered /\ [Next]_vars => Ordered'
<1> SUFFICES ASSUME Apart, Ordered, [Next]_vars  PROVE Ordered'
  OBVIOUS
<1>0. Typed'
  BY NextType DEF Ordered
<1>1. CASE \E t \in Tasks : Goes(t) \/ \E b \in Bundles : Save(t, b)
  <2>1. PICK t \in Tasks : Goes(t) \/ \E b \in Bundles : Save(t, b)
    BY <1>1
  <2>2. CASE Woken(t)
    BY <1>0, <2>2, WokenTidy
  <2>3. CASE TimedOut(t) \/ Abort(t) \/ Delay(t)
    BY <1>0, <2>3, SmallStepsTidy
  <2>4. CASE Close(t)
    BY <1>0, <2>4, CloseTidy
  <2>5. CASE \E b \in Bundles : Save(t, b)
    BY <1>0, <2>5, SaveTidy
  <2>6. CASE Reread(t)
    BY <1>0, <2>6, RereadTidy
  <2>7. CASE Discard(t)
    BY <1>0, <2>7, DiscardTidy
  <2> QED
    BY <2>1, <2>2, <2>3, <2>4, <2>5, <2>6, <2>7 DEF Goes
<1>2. CASE \/ \E b \in Bundles, yes \in BOOLEAN : Delete(b, yes) \/ Lock(b, yes)
           \/ Prune
  BY <1>0, <1>2, SmallStepsTidy
<1>3. CASE PowerOff
  BY <1>0, <1>3, PowerOffTidy
<1>4. CASE PowerOn
  BY <1>0, <1>4, PowerOnTidy
<1>5. CASE Second \/ UNCHANGED vars
  <2>1. store' = store /\ task' = task /\ up' = up
    BY <1>5 DEF Second, vars
  <2> QED
    BY <1>0, <2>1 DEF Ordered, InHand, Unsure
<1> QED
  BY <1>1, <1>2, <1>3, <1>4, <1>5 DEF Next

LEMMA AlwaysOrdered == ASSUME Apart  PROVE Spec => []Ordered
<1>1. Init => Ordered
  BY InitTidy
<1>2. Ordered /\ [Next]_vars => Ordered'
  BY NextTidy
<1> QED
  BY <1>1, <1>2, PTL DEF Spec

\* However often accesses to the card fail, each bundle is listed once, and an entry whose
\* file is not whole is that of a save that could not close it (storage_fatfs.c:665-692).
THEOREM EntriesHaveFiles == ASSUME Apart  PROVE Spec => []ListedHasFile
<1>1. Ordered => ListedHasFile
  BY DEF Ordered, ListedHasFile, ListedOnce, Tidy, EachOnce
<1> QED
  BY <1>1, AlwaysOrdered, PTL

\* Nor do they do away with the file of a bundle that was stored and not deleted, or bring
\* back one that was removed, wherever the power was lost.
THEOREM FilesStay == ASSUME Apart  PROVE Spec => []FilesKept
<1>1. Ordered => FilesKept
  BY DEF Ordered, FilesKept, FateRight
<1> QED
  BY <1>1, AlwaysOrdered, PTL

\* While the node has power the list is the directory of the card, each bundle once,
\* through every save, failed write and restart (storage_fatfs.c: bundle_list), if every
\* file is closed or removed in the end and every restart can read what there is.
THEOREM DirectoryListed == ASSUME Apart, Faithful  PROVE Spec => []ListIsDirectory
<1>1. Ordered => ListIsDirectory
  BY DEF Ordered, ListIsDirectory, ListedOnce, Tidy, EachOnce
<1> QED
  BY <1>1, AlwaysOrdered, PTL

\* What was reported as stored and not deleted is on the card, and listed when the node
\* has power; what was deleted is on neither, wherever the power was lost: likewise if
\* every file is closed or removed in the end and every restart can read what there is.
THEOREM SavedSurvives == ASSUME Apart, Faithful  PROVE Spec => []Survives
<1>1. Ordered => Survives
  <2> SUFFICES ASSUME Ordered, NEW b \in Bundles
               PROVE  /\ store.fate[b] \in {"kept", "discarded"}
                           => b \in Whole(store) /\ (up => b \in Listed(store))
                      /\ store.fate[b] \in {"gone", "left"}
                           => b \notin Whole(store) \cup Listed(store)
    BY DEF Survives
  <2>1. /\ store.fate[b] = "kept" => b \in Whole(store)
        /\ store.fate[b] = "gone" => b \notin Whole(store) \cup Listed(store)
        /\ store.fate[b] \notin {"discarded", "left"}
    BY DEF Ordered, FateRight
  <2>2. up => Listed(store) = Whole(store)
    BY DEF Ordered, Tidy
  <2> QED
    BY <2>1, <2>2
<1> QED
  BY <1>1, AlwaysOrdered, PTL
=============================================================================
