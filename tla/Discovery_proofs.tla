-------------------------- MODULE Discovery_proofs --------------------------
(***************************************************************************)
(* Proofs about Discovery, for every number of nodes, addresses, entries   *)
(* and every timeout.                                                      *)
(***************************************************************************)
EXTENDS Discovery, Lists_proofs, SequenceTheorems, TLAPS

USE DiscoveryAssumption DEF Link

(***************************************************************************)
(* The inductive invariant.  The age of a link is the silence of its       *)
(* address, and no link of the table is older than a timeout and the time  *)
(* since the timer went off.  Two entries share no address, and if they    *)
(* belong to one node the first has its IP link and the second its radio   *)
(* link: so the first entry of a node is the one that a new IP address     *)
(* belongs to.                                                             *)
(***************************************************************************)
Sound(e, sil, ph) ==
  /\ e.links # {} /\ ("ip" \in e.links => e.ip # None)
  /\ \A link \in e.links : e.age[link] = sil[Address(e, link)] /\ e.age[link] <= Timeout + ph
Distinct(d, e) ==
  /\ Listed(d) \cap Listed(e) = {}
  /\ d.node = e.node => d.links = {"ip"} /\ e.links = {"lowpan"}
TableOK(t, sil, ph) ==
  /\ t \in Seq(Entry)
  /\ \A i \in DOMAIN t : Sound(t[i], sil, ph)
  /\ \A i, j \in DOMAIN t : i < j => Distinct(t[i], t[j])
Silences == [Addresses -> 0 .. Silent]
Inv == TypeOK /\ TableOK(table, silence, phase)

LEMMA EntryFields ==
  ASSUME NEW e \in Entry
  PROVE  /\ e.node \in Nodes /\ e.links \subseteq Link /\ e.ip \in Ips \cup {None}
         /\ e.age \in [Link -> Nat] /\ e.age["ip"] \in Nat /\ e.age["lowpan"] \in Nat
         /\ Address(e, "lowpan") = e.node /\ Address(e, "ip") = e.ip
  BY DEF Entry, Address

\* An address tells over which link it is reached.
LEMMA AddressLink ==
  ASSUME NEW e \in Entry, "ip" \in e.links => e.ip # None, NEW link \in e.links
  PROVE  /\ Address(e, link) \in Addresses /\ LinkTo(Address(e, link)) = link
         /\ Address(e, link) \in Listed(e) /\ link \in Link
  BY EntryFields DEF LinkTo, Addresses, Listed

LEMMA ListedLink ==
  ASSUME NEW e \in Entry, "ip" \in e.links => e.ip # None, NEW a
  PROVE  a \in Listed(e) <=> LinkTo(a) \in e.links /\ Address(e, LinkTo(a)) = a
<1>1. a \in Listed(e) => LinkTo(a) \in e.links /\ Address(e, LinkTo(a)) = a
  BY AddressLink DEF Listed
<1> QED
  BY <1>1 DEF Listed

\* A frame from an address that is not in the entry changes nothing for it.
LEMMA HeardElsewhere ==
  ASSUME NEW e \in Entry, NEW sil \in Silences, NEW ph \in Nat, Sound(e, sil, ph),
         NEW a \in Addresses, a \notin Listed(e)
  PROVE  Sound(e, [sil EXCEPT ![a] = 0], ph)
<1>1. ASSUME NEW link \in e.links  PROVE [sil EXCEPT ![a] = 0][Address(e, link)] = sil[Address(e, link)]
  BY <1>1, AddressLink DEF Sound, Silences
<1> QED
  BY <1>1 DEF Sound

LEMMA HeardHere ==
  ASSUME NEW e \in Entry, NEW sil \in Silences, NEW ph \in Nat, Sound(e, sil, ph),
         NEW a \in Listed(e)
  PROVE  LET f == [e EXCEPT !.age[LinkTo(a)] = 0]
         IN /\ f \in Entry /\ Sound(f, [sil EXCEPT ![a] = 0], ph)
            /\ f.links = e.links /\ f.node = e.node /\ Listed(f) = Listed(e) /\ f.ip = e.ip
<1> DEFINE f == [e EXCEPT !.age[LinkTo(a)] = 0]
           new == [sil EXCEPT ![a] = 0]
<1>1. /\ f \in Entry /\ f.links = e.links /\ f.node = e.node /\ f.ip = e.ip
      /\ f.age = [e.age EXCEPT ![LinkTo(a)] = 0]
  BY DEF Entry
<1>2. \A link \in e.links : Address(f, link) = Address(e, link)
  BY <1>1 DEF Address
<1>3. Listed(f) = Listed(e)
  BY <1>1, <1>2 DEF Listed
<1>4. a \in Addresses /\ LinkTo(a) \in e.links /\ Address(e, LinkTo(a)) = a
  BY ListedLink, AddressLink DEF Sound
<1>5. ASSUME NEW link \in e.links  PROVE f.age[link] = new[Address(f, link)] /\ f.age[link] <= Timeout + ph
  <2>1. CASE link = LinkTo(a)
    <3>1. f.age[link] = 0 /\ Address(f, link) = a
      BY <1>1, <1>2, <1>4, <2>1, EntryFields
    <3>2. new[a] = 0
      BY <1>4 DEF Silences
    <3> HIDE DEF f, new
    <3> QED
      BY <3>1, <3>2
  <2>2. CASE link # LinkTo(a)
    <3>1. f.age[link] = e.age[link]
      BY <1>1, <1>5, <2>2, EntryFields
    <3>2. Address(f, link) = Address(e, link) /\ Address(e, link) # a /\ Address(e, link) \in Addresses
      BY <1>2, <1>5, <2>2, AddressLink DEF Sound
    <3>3. new[Address(e, link)] = sil[Address(e, link)]
      BY <3>2 DEF Silences
    <3> HIDE DEF f, new
    <3> QED
      BY <3>1, <3>2, <3>3 DEF Sound
  <2> QED
    BY <2>1, <2>2
<1> HIDE DEF f, new
<1>6. Sound(f, new, ph)
  BY <1>1, <1>5 DEF Sound
<1> QED
  BY <1>1, <1>3, <1>6 DEF f, new

\* The positions at which something holds have a first one.
LEMMA FirstOf ==
  ASSUME NEW S, NEW t \in Seq(S), NEW K, K \subseteq DOMAIN t, K # {}
  PROVE  Min(K) \in K /\ \A k \in K : Min(K) <= k
<1>1. K \subseteq Nat
  OBVIOUS
<1> QED
  BY <1>1, MinIsLeast

LEMMA RefreshOK ==
  ASSUME NEW t, NEW sil \in Silences, NEW ph \in Nat, TableOK(t, sil, ph), NEW a \in Addresses
  PROVE  LET r == Refresh(t, a)
         IN /\ TableOK(r, [sil EXCEPT ![a] = 0], ph) /\ DOMAIN r = DOMAIN t /\ Len(r) = Len(t)
            /\ \A i \in DOMAIN t : Listed(r[i]) = Listed(t[i]) /\ r[i].node = t[i].node
<1> DEFINE r == Refresh(t, a)
           new == [sil EXCEPT ![a] = 0]
<1>1. \A i \in DOMAIN t : t[i] \in Entry /\ Sound(t[i], sil, ph)
  BY DEF TableOK
<1>2. \A i \in DOMAIN t : a \notin Listed(t[i]) => Sound(t[i], new, ph)
  <2> HIDE DEF new
  <2> QED
    BY <1>1, HeardElsewhere DEF new
<1>3. CASE With(t, a) = {}
  BY <1>2, <1>3 DEF Refresh, With, TableOK
<1>4. CASE With(t, a) # {}
  <2> DEFINE m == Min(With(t, a))
             f == [t[m] EXCEPT !.age[LinkTo(a)] = 0]
  <2>1. m \in DOMAIN t /\ a \in Listed(t[m])
    BY <1>4, FirstOf DEF With, TableOK
  <2>2. r = [t EXCEPT ![m] = f]
    BY <1>4 DEF Refresh
  <2>3. /\ f \in Entry /\ Sound(f, new, ph) /\ f.links = t[m].links
        /\ f.node = t[m].node /\ Listed(f) = Listed(t[m])
    BY <1>1, <2>1, HeardHere
  <2> HIDE DEF m, f, r, new
  <2>4. r \in Seq(Entry) /\ Len(r) = Len(t) /\ DOMAIN r = DOMAIN t
        /\ \A i \in DOMAIN t : r[i] = IF i = m THEN f ELSE t[i]
    BY <2>1, <2>2, <2>3 DEF TableOK
  <2>5. \A i \in DOMAIN t : i # m => a \notin Listed(t[i])
    BY <2>1 DEF TableOK, Distinct
  <2>6. \A i \in DOMAIN t : Sound(r[i], new, ph)
    BY <1>2, <2>3, <2>4, <2>5
  <2>7. \A i \in DOMAIN t : Listed(r[i]) = Listed(t[i]) /\ r[i].node = t[i].node /\ r[i].links = t[i].links
    BY <2>3, <2>4
  <2>8. \A i, j \in DOMAIN t : i < j => Distinct(r[i], r[j])
    BY <2>7 DEF TableOK, Distinct
  <2>9. TableOK(r, new, ph)
    BY <2>4, <2>6, <2>8 DEF TableOK
  <2> QED
    BY <2>4, <2>7, <2>9 DEF r, new
<1> QED
  BY <1>3, <1>4

\* In r, an entry of node n has address a instead of the IP address that it has in t.
Replaced(t, r, n, a) ==
  \E m \in DOMAIN t :
    /\ t[m].node = n /\ r[m].node = n /\ a \in Listed(r[m])
    /\ Listed(t[m]) \ {t[m].ip} \subseteq Listed(r[m])
    /\ \A i \in DOMAIN t : i # m => r[i] = t[i]

\* A new IP address of a node that has an entry: its first one, as the invariant says,
\* has the IP link if there are two.
LEMMA UpdateOK ==
  ASSUME NEW t, NEW sil \in Silences, NEW ph \in Nat, TableOK(t, sil, ph), NEW n \in Nodes,
         NEW a \in Ips, With(t, a) = {}, OfNode(t, n) # {}
  PROVE  LET r == Save(t, n, a)
         IN /\ TableOK(r, [sil EXCEPT ![a] = 0], ph) /\ DOMAIN r = DOMAIN t /\ Len(r) = Len(t)
            /\ Replaced(t, r, n, a)
<1> DEFINE m == Min(OfNode(t, n))
           e == t[m]
           f == WithIp(e, a)
           r == Save(t, n, a)
           new == [sil EXCEPT ![a] = 0]
<1>0. r = [t EXCEPT ![m] = f]
  BY DEF Save
<1> HIDE DEF r
<1>1. /\ \A i \in DOMAIN t : t[i] \in Entry /\ Sound(t[i], sil, ph) /\ a \notin Listed(t[i])
      /\ a \in Addresses /\ a # None /\ LinkTo(a) = "ip"
  BY DEF TableOK, With, Addresses, LinkTo
<1>2. m \in DOMAIN t /\ e.node = n /\ \A i \in DOMAIN t : t[i].node = n => m <= i
  <2>1. m \in OfNode(t, n) /\ \A k \in OfNode(t, n) : m <= k
    BY FirstOf DEF OfNode, TableOK
  <2> QED
    BY <2>1 DEF OfNode
<1>3. e \in Entry /\ Sound(e, sil, ph) /\ a \notin Listed(e)
  BY <1>1, <1>2
<1> HIDE DEF e, m
<1>4. /\ f \in Entry /\ f.links = e.links \cup {"ip"} /\ f.node = e.node /\ f.ip = a
      /\ f.age = [e.age EXCEPT !["ip"] = 0]
  BY <1>3 DEF WithIp, Entry
<1>5. f.age["ip"] = 0 /\ f.age["lowpan"] = e.age["lowpan"]
  BY <1>3, <1>4, EntryFields
<1> HIDE DEF f
<1>6. Address(f, "ip") = a /\ Address(f, "lowpan") = e.node /\ Address(e, "lowpan") = e.node
  BY <1>4 DEF Address
<1>7. /\ "lowpan" \in e.links => e.node \in Listed(e) /\ e.node \in Addresses /\ e.node # a
      /\ Listed(f) = {a} \cup (IF "lowpan" \in e.links THEN {e.node} ELSE {})
      /\ Listed(e) = (IF "ip" \in e.links THEN {e.ip} ELSE {}) \cup (IF "lowpan" \in e.links THEN {e.node} ELSE {})
  <2>1. e.links \subseteq Link /\ Address(e, "ip") = e.ip
    BY <1>3, EntryFields
  <2>2. Listed(f) = {a} \cup (IF "lowpan" \in e.links THEN {e.node} ELSE {})
    BY <1>4, <1>6, <2>1 DEF Listed
  <2>3. Listed(e) = (IF "ip" \in e.links THEN {e.ip} ELSE {}) \cup (IF "lowpan" \in e.links THEN {e.node} ELSE {})
    BY <1>6, <2>1 DEF Listed
  <2>4. e.node \in Nodes
    BY <1>3, EntryFields
  <2> QED
    BY <2>2, <2>3, <2>4 DEF Addresses
<1>8. Sound(f, new, ph)
  <2>1. new[a] = 0 /\ ("lowpan" \in e.links => new[e.node] = sil[e.node])
    BY <1>1, <1>7 DEF Silences
  <2> HIDE DEF new
  <2>2. "lowpan" \in e.links => e.age["lowpan"] = sil[e.node] /\ e.age["lowpan"] <= Timeout + ph
    BY <1>3, <1>6 DEF Sound
  <2>3. ASSUME NEW link \in f.links  PROVE f.age[link] = new[Address(f, link)] /\ f.age[link] <= Timeout + ph
    <3>1. link \in {"ip", "lowpan"} /\ (link = "lowpan" => "lowpan" \in e.links)
      BY <1>3, <1>4, <2>3, EntryFields
    <3>2. CASE link = "ip"
      BY <1>5, <1>6, <2>1, <3>2
    <3>3. CASE link = "lowpan"
      BY <1>5, <1>6, <2>1, <2>2, <3>1, <3>3
    <3> QED
      BY <3>1, <3>2, <3>3
  <2> QED
    BY <1>1, <1>4, <2>3 DEF Sound
<1>9. /\ r \in Seq(Entry) /\ Len(r) = Len(t) /\ DOMAIN r = DOMAIN t
      /\ \A i \in DOMAIN t : r[i] = IF i = m THEN f ELSE t[i]
  BY <1>0, <1>2, <1>4 DEF TableOK
<1>10. \A i \in DOMAIN t : Sound(r[i], new, ph)
  <2> HIDE DEF new
  <2> QED
    BY <1>1, <1>8, <1>9, HeardElsewhere DEF new
<1>11. ASSUME NEW i \in DOMAIN t, NEW j \in DOMAIN t, i < j  PROVE Distinct(r[i], r[j])
  <2>1. Distinct(t[i], t[j])
    BY <1>11 DEF TableOK
  <2>2. CASE i # m /\ j # m
    BY <1>9, <2>1, <2>2
  <2>3. Listed(r[i]) \cap Listed(r[j]) = {}
    <3>1. CASE i = m
      <4>1. j # m /\ r[i] = f /\ r[j] = t[j] /\ a \notin Listed(t[j]) /\ t[i] = e
        BY <1>1, <1>9, <1>11, <3>1 DEF e
      <4> QED
        BY <1>7, <2>1, <4>1 DEF Distinct
    <3>2. CASE j = m
      <4>1. i # m /\ r[j] = f /\ r[i] = t[i] /\ a \notin Listed(t[i]) /\ t[j] = e
        BY <1>1, <1>9, <1>11, <3>2 DEF e
      <4> QED
        BY <1>7, <2>1, <4>1 DEF Distinct
    <3> QED
      BY <1>9, <2>1, <3>1, <3>2 DEF Distinct
  <2>4. CASE i = m
    <3>1. r[i] = f /\ r[j] = t[j] /\ t[i] = e
      BY <1>9, <1>11, <2>4 DEF e
    <3> QED
      BY <1>4, <2>1, <2>3, <3>1 DEF Distinct
  <2>5. CASE j = m
    <3>1. r[j] = f /\ r[i] = t[i] /\ t[j] = e
      BY <1>9, <1>11, <2>5 DEF e
    <3>2. t[i].node # n
      <4>1. DOMAIN t \subseteq Nat
        BY DEF TableOK
      <4> QED
        BY <1>2, <1>11, <2>5, <4>1
    <3> QED
      BY <1>2, <1>4, <2>3, <3>1, <3>2 DEF Distinct
  <2> QED
    BY <2>2, <2>4, <2>5
<1>12. TableOK(r, new, ph)
  BY <1>9, <1>10, <1>11 DEF TableOK
<1>13. /\ m \in DOMAIN t /\ t[m].node = n /\ a \in Listed(r[m])
       /\ \A i \in DOMAIN t : i # m => r[i] = t[i]
       /\ r[m].node = n /\ Listed(t[m]) \ {t[m].ip} \subseteq Listed(r[m])
  BY <1>2, <1>4, <1>7, <1>9 DEF e
<1>14. Replaced(t, r, n, a)
  BY <1>13 DEF Replaced
<1> HIDE DEF new
<1> QED
  BY <1>9, <1>12, <1>14 DEF new, r

LEMMA NewEntrySound ==
  ASSUME NEW sil \in Silences, NEW ph \in Nat, NEW n \in Nodes, NEW a \in Addresses, a \in Nodes => a = n
  PROVE  LET e == NewEntry(n, a)
         IN /\ e \in Entry /\ Sound(e, [sil EXCEPT ![a] = 0], ph) /\ e.node = n /\ Listed(e) = {a}
            /\ e.links = {LinkTo(a)}
<1> DEFINE blank == [node |-> n, links |-> {}, ip |-> None, age |-> [link \in Link |-> 0]]
           e == NewEntry(n, a)
           new == [sil EXCEPT ![a] = 0]
<1>1. blank \in Entry
  BY DEF Entry
<1>2. /\ e \in Entry /\ e.node = n /\ e.links = {LinkTo(a)} /\ e.age[LinkTo(a)] = 0
      /\ Address(e, LinkTo(a)) = a /\ (a \in Ips => e.ip = a)
  <2>1. CASE a \in Ips
    <3>1. a \notin Nodes /\ LinkTo(a) = "ip" /\ e = WithIp(blank, a)
      BY <2>1 DEF NewEntry, LinkTo
    <3>2. e = [blank EXCEPT !.links = {"ip"}, !.ip = a, !.age["ip"] = 0]
      BY <3>1 DEF WithIp
    <3> HIDE DEF e
    <3>3. e \in Entry /\ e.node = n /\ e.links = {"ip"} /\ e.ip = a /\ e.age = [blank.age EXCEPT !["ip"] = 0]
      BY <2>1, <3>2 DEF Entry
    <3>4. e.age["ip"] = 0 /\ Address(e, "ip") = a
      BY <3>3 DEF Address
    <3> QED
      BY <3>1, <3>3, <3>4
  <2>2. CASE a \notin Ips
    <3>1. a = n /\ LinkTo(a) = "lowpan" /\ e = [blank EXCEPT !.links = {"lowpan"}]
      BY <2>2 DEF NewEntry, LinkTo, Addresses
    <3> QED
      BY <1>1, <2>2, <3>1 DEF Entry, Address
  <2> QED
    BY <2>1, <2>2
<1> HIDE DEF e, blank
<1>3. Listed(e) = {a}
  BY <1>2 DEF Listed
<1>4. new[a] = 0
  BY DEF Silences
<1> HIDE DEF new
<1>5. Sound(e, new, ph)
  <2>1. "ip" \in e.links => e.ip # None
    BY <1>2 DEF LinkTo, Addresses
  <2> QED
    BY <1>2, <1>4, <2>1 DEF Sound
<1> QED
  BY <1>2, <1>3, <1>5 DEF e, new

Grown(t, r, n, a) == Len(r) = Len(t) + 1 /\ r = Append(t, NewEntry(n, a))

\* A new entry for an address that is not known: of a node that is new, or of one of
\* which only the IP link is known.
LEMMA AddedOK ==
  ASSUME NEW t, NEW sil \in Silences, NEW ph \in Nat, TableOK(t, sil, ph), NEW n \in Nodes,
         NEW a \in Addresses, With(t, a) = {}, a \in Nodes => a = n, a \in Ips => OfNode(t, n) = {}
  PROVE  LET r == Added(t, n, a)
         IN /\ TableOK(r, [sil EXCEPT ![a] = 0], ph)
            /\ Len(t) <= Cache => Len(r) <= Cache
            /\ \/ r = t
               \/ Grown(t, r, n, a)
<1> DEFINE e == NewEntry(n, a)
           r == Added(t, n, a)
           new == [sil EXCEPT ![a] = 0]
<1>1. /\ \A i \in DOMAIN t : t[i] \in Entry /\ Sound(t[i], sil, ph) /\ a \notin Listed(t[i])
      /\ t \in Seq(Entry)
  BY DEF TableOK, With
<1>2. \A i \in DOMAIN t : Sound(t[i], new, ph)
  <2> HIDE DEF new
  <2> QED
    BY <1>1, HeardElsewhere DEF new
<1>3. e \in Entry /\ Sound(e, new, ph) /\ e.node = n /\ Listed(e) = {a} /\ e.links = {LinkTo(a)}
  BY NewEntrySound
<1> HIDE DEF e, new
<1>4. CASE Len(t) >= Cache
  <2>1. r = t
    BY <1>1, <1>4 DEF Added
  <2>2. TableOK(t, new, ph)
    BY <1>1, <1>2 DEF TableOK
  <2> QED
    BY <2>1, <2>2 DEF new
<1>5. CASE Len(t) < Cache
  <2>1. r = Append(t, e)
    BY <1>5 DEF Added, e
  <2> HIDE DEF r
  <2>2. /\ r \in Seq(Entry) /\ Len(r) = Len(t) + 1 /\ DOMAIN r = 1 .. Len(t) + 1 /\ DOMAIN t = 1 .. Len(t)
        /\ Len(t) \in Nat /\ \A i \in 1 .. Len(t) : r[i] = t[i]
        /\ r[Len(t) + 1] = e
    BY <1>1, <1>3, <2>1, AppendProperties
  <2>3. \A i \in DOMAIN r : Sound(r[i], new, ph)
    <3>1. SUFFICES ASSUME NEW i \in DOMAIN r  PROVE Sound(r[i], new, ph)
      OBVIOUS
    <3>2. i \in DOMAIN t \/ i = Len(t) + 1
      BY <2>2
    <3> QED
      BY <1>2, <1>3, <2>2, <3>2
  <2>4. ASSUME NEW i \in DOMAIN t  PROVE Distinct(t[i], e)
    <3>1. Listed(t[i]) \cap Listed(e) = {}
      BY <1>1, <1>3
    <3>2. ASSUME t[i].node = n  PROVE t[i].links = {"ip"} /\ e.links = {"lowpan"}
      <4>1. i \in OfNode(t, n)
        BY <3>2 DEF OfNode
      <4>2. a = n /\ a \in Nodes
        BY <4>1 DEF Addresses
      <4>3. "lowpan" \notin t[i].links
        BY <1>1, <3>2, <4>2, EntryFields DEF Listed
      <4>4. t[i].links \subseteq Link /\ t[i].links # {}
        BY <1>1, EntryFields DEF Sound
      <4> QED
        BY <1>3, <4>2, <4>3, <4>4 DEF LinkTo
    <3> QED
      BY <1>3, <3>1, <3>2 DEF Distinct
  <2>5. ASSUME NEW i \in DOMAIN r, NEW j \in DOMAIN r, i < j  PROVE Distinct(r[i], r[j])
    <3>1. i \in DOMAIN t /\ (j \in DOMAIN t \/ j = Len(t) + 1)
      BY <2>2, <2>5
    <3>2. CASE j \in DOMAIN t
      BY <2>2, <2>5, <3>1, <3>2 DEF TableOK
    <3>3. CASE j = Len(t) + 1
      BY <2>2, <2>4, <3>1, <3>3
    <3> QED
      BY <3>1, <3>2, <3>3
  <2>6. TableOK(r, new, ph)
    BY <2>2, <2>3, <2>5 DEF TableOK
  <2>7. Len(t) <= Cache => Len(r) <= Cache
    BY <1>5, <2>2
  <2> QED
    <3>1. Grown(t, r, n, a)
      BY <2>1, <2>2 DEF e, Grown
    <3> QED
      BY <2>6, <2>7, <3>1 DEF r, new
<1>6. Len(t) \in Nat
  BY <1>1
<1> QED
  BY <1>4, <1>5, <1>6

\* What a beacon does to the table: either the addresses in it stay, or the first entry
\* of the node has a new IP address, or there is an entry more.
SameEntries(t, r) ==
  /\ DOMAIN r = DOMAIN t /\ Len(r) = Len(t)
  /\ \A i \in DOMAIN t : Listed(r[i]) = Listed(t[i]) /\ r[i].node = t[i].node
Saved(t, r, n, a) ==
  \/ SameEntries(t, r)
  \/ /\ DOMAIN r = DOMAIN t /\ Len(r) = Len(t)
     /\ a \in Ips /\ a \notin AllListed(t) /\ Replaced(t, r, n, a)
  \/ Grown(t, r, n, a)

LEMMA SaveOK ==
  ASSUME NEW t, NEW sil \in Silences, NEW ph \in Nat, TableOK(t, sil, ph), NEW n \in Nodes,
         NEW a \in Addresses, a \in Nodes => a = n
  PROVE  LET r == Save(t, n, a)
         IN /\ TableOK(r, [sil EXCEPT ![a] = 0], ph)
            /\ Len(t) <= Cache => Len(r) <= Cache
            /\ Saved(t, r, n, a)
<1> DEFINE r == Save(t, n, a)
           new == [sil EXCEPT ![a] = 0]
<1>1. t \in Seq(Entry) /\ Len(t) \in Nat
  BY DEF TableOK
<1>2. CASE With(t, a) # {}
  <2>1. r = Refresh(t, a)
    BY <1>2 DEF Save
  <2> HIDE DEF r
  <2>2. /\ TableOK(r, new, ph) /\ DOMAIN r = DOMAIN t /\ Len(r) = Len(t)
        /\ \A i \in DOMAIN t : Listed(r[i]) = Listed(t[i]) /\ r[i].node = t[i].node
    BY <2>1, RefreshOK
  <2> HIDE DEF new
  <2> QED
    BY <2>2 DEF r, new, Saved, SameEntries
<1>3. CASE With(t, a) = {} /\ a \in Ips /\ OfNode(t, n) # {}
  <2>2. a \notin AllListed(t)
    BY <1>3 DEF With, AllListed
  <2>3. /\ TableOK(r, new, ph) /\ DOMAIN r = DOMAIN t /\ Len(r) = Len(t)
        /\ Replaced(t, r, n, a)
    <3>1. a \in Ips /\ With(t, a) = {} /\ OfNode(t, n) # {}
      BY <1>3
    <3> QED
      BY <3>1, UpdateOK, Zenon
  <2> HIDE DEF new, r
  <2> QED
    BY <1>3, <2>2, <2>3 DEF r, new, Saved
<1>4. CASE With(t, a) = {} /\ (a \in Ips => OfNode(t, n) = {})
  <2>1. r = Added(t, n, a)
    BY <1>4 DEF Save
  <2> HIDE DEF r
  <2>2. /\ TableOK(r, new, ph)
        /\ Len(t) <= Cache => Len(r) <= Cache
        /\ \/ r = t
           \/ Grown(t, r, n, a)
    <3>1. With(t, a) = {} /\ (a \in Ips => OfNode(t, n) = {})
      BY <1>4
    <3> QED
      BY <2>1, <3>1, AddedOK
  <2> HIDE DEF new
  <2>3. CASE r = t
    BY <1>1, <2>2, <2>3 DEF r, new, Saved, SameEntries
  <2>4. CASE Grown(t, r, n, a)
    <3>1. Saved(t, r, n, a)
      BY <2>4 DEF Saved
    <3> QED
      BY <2>2, <3>1 DEF r, new
  <2> QED
    BY <2>2, <2>3, <2>4
<1> QED
  BY <1>2, <1>3, <1>4

\* The sweep: what is left is not older than a timeout, and in the same order.
LEMMA PrunedSound ==
  ASSUME NEW e \in Entry, NEW sil, Sound(e, sil, Timeout), Pruned(e).links # {}
  PROVE  /\ Pruned(e) \in Entry /\ Sound(Pruned(e), sil, 0) /\ Pruned(e).node = e.node
         /\ Pruned(e).links \subseteq e.links /\ Listed(Pruned(e)) \subseteq Listed(e)
         /\ Listed(Pruned(e)) = Listed(e) \ {Address(e, link) : link \in Overdue(e)}
<1> DEFINE f == Pruned(e)
<1>1. f \in Entry /\ f.links = e.links \ Overdue(e) /\ f.node = e.node /\ f.ip = e.ip /\ f.age = e.age
  BY DEF Pruned, Entry
<1> HIDE DEF f
<1>2. \A link : Address(f, link) = Address(e, link)
  BY <1>1 DEF Address
<1>3. ASSUME NEW link \in f.links  PROVE f.age[link] = sil[Address(f, link)] /\ f.age[link] <= Timeout + 0
  <2>1. link \in e.links /\ link \notin Overdue(e) /\ e.age[link] \in Nat
    BY <1>1, <1>3, EntryFields
  <2>2. e.age[link] <= Timeout
    BY <2>1 DEF Overdue
  <2> QED
    BY <1>1, <1>2, <2>1, <2>2 DEF Sound
<1>4. f.links # {}
  BY DEF f
<1>5. Sound(f, sil, 0)
  BY <1>1, <1>3, <1>4 DEF Sound
<1>6. Listed(f) = Listed(e) \ {Address(e, link) : link \in Overdue(e)}
  <2>1. \A k, l \in e.links : Address(e, k) = Address(e, l) => k = l
    BY AddressLink DEF Sound
  <2>2. Overdue(e) \subseteq e.links
    BY DEF Overdue
  <2> QED
    BY <1>1, <1>2, <2>1, <2>2 DEF Listed
<1> QED
  BY <1>1, <1>5, <1>6 DEF f

LEMMA SweptOK ==
  ASSUME NEW t, NEW sil, TableOK(t, sil, Timeout)
  PROVE  LET r == Swept(t)
         IN /\ TableOK(r, sil, 0) /\ Len(r) <= Len(t)
            /\ AllListed(r) = AllListed(t) \ Down(t)
            /\ NodesIn(r) \subseteq NodesIn(t)
<1> DEFINE u == [i \in DOMAIN t |-> Pruned(t[i])]
           K == {i \in DOMAIN u : IsLinked(u[i])}
           r == Select(u, K)
           n == Len(r)
<1>1. /\ \A i \in DOMAIN t : t[i] \in Entry /\ Sound(t[i], sil, Timeout)
      /\ t \in Seq(Entry) /\ Len(t) \in Nat /\ DOMAIN t = 1 .. Len(t)
  BY DEF TableOK
<1>2. Swept(t) = r
  BY DEF Swept, Linked
<1>3. \A i \in DOMAIN t : u[i] = Pruned(t[i])
  OBVIOUS
<1>4. u \in Seq(Entry) /\ Len(u) = Len(t) /\ DOMAIN u = DOMAIN t
  <2>1. \A e \in Entry : Pruned(e) \in Entry
    BY DEF Pruned, Entry
  <2>2. u \in [1 .. Len(t) -> Entry]
    BY <1>1, <2>1
  <2> HIDE DEF u
  <2> QED
    BY <1>1, <2>2, IsASeq
<1> HIDE DEF u
<1>5. \A i : i \in K <=> i \in DOMAIN t /\ Pruned(t[i]).links # {}
  BY <1>3, <1>4 DEF IsLinked
<1>6. K \subseteq DOMAIN u
  OBVIOUS
<1> HIDE DEF K
<1>7. r \in Seq(Entry) /\ n <= Len(t)
  BY <1>4, <1>6, SelectOrder, SelectShorter
<1>8. PICK h : /\ h \in [1 .. n -> K]
               /\ \A i, j \in 1 .. n : i < j => h[i] < h[j]
               /\ \A k \in K : \E i \in 1 .. n : h[i] = k
               /\ \A i \in 1 .. n : r[i] = u[h[i]]
  <2>1. PICK h : Order(u, K, h)
    BY <1>4, <1>6, SelectOrder
  <2> QED
    BY <2>1, Zenon DEF Order
<1>9. DOMAIN r = 1 .. n
  BY <1>7
<1> HIDE DEF r, n
<1>10. ASSUME NEW i \in 1 .. n
       PROVE  /\ h[i] \in DOMAIN t /\ h[i] \in K /\ r[i] = Pruned(t[h[i]]) /\ r[i] \in Entry
              /\ Sound(r[i], sil, 0) /\ r[i].node = t[h[i]].node /\ r[i].links \subseteq t[h[i]].links
              /\ r[i].links # {} /\ Listed(r[i]) \subseteq Listed(t[h[i]])
              /\ Listed(r[i]) = Listed(t[h[i]]) \ {Address(t[h[i]], link) : link \in Overdue(t[h[i]])}
  <2>1. h[i] \in K /\ h[i] \in DOMAIN t /\ Pruned(t[h[i]]).links # {} /\ r[i] = Pruned(t[h[i]])
    BY <1>3, <1>5, <1>8
  <2>2. t[h[i]] \in Entry /\ Sound(t[h[i]], sil, Timeout)
    BY <1>1, <2>1
  <2> QED
    BY <2>1, <2>2, PrunedSound
<1>11. ASSUME NEW i \in 1 .. n, NEW j \in 1 .. n, i < j  PROVE Distinct(r[i], r[j])
  <2>1. Distinct(t[h[i]], t[h[j]])
    BY <1>8, <1>10, <1>11 DEF TableOK
  <2>2. /\ r[i].node = t[h[i]].node /\ r[i].links \subseteq t[h[i]].links /\ r[i].links # {}
        /\ r[j].node = t[h[j]].node /\ r[j].links \subseteq t[h[j]].links /\ r[j].links # {}
        /\ Listed(r[i]) \subseteq Listed(t[h[i]]) /\ Listed(r[j]) \subseteq Listed(t[h[j]])
    BY <1>10
  <2> QED
    BY <2>1, <2>2 DEF Distinct
<1>12. TableOK(r, sil, 0)
  BY <1>7, <1>9, <1>10, <1>11 DEF TableOK
<1>13. ASSUME NEW a  PROVE a \in AllListed(r) <=> a \in AllListed(t) /\ a \notin Down(t)
  <2>1. a \in AllListed(r) <=> \E i \in 1 .. n : a \in Listed(r[i])
    BY <1>9 DEF AllListed
  <2>2. a \in AllListed(t) <=> \E i \in DOMAIN t : a \in Listed(t[i])
    BY DEF AllListed
  <2>3. a \in Down(t) <=> \E i \in DOMAIN t : \E link \in Overdue(t[i]) : a = Address(t[i], link)
    BY DEF Down
  <2>4. \A i \in DOMAIN t : \A link \in Overdue(t[i]) : Address(t[i], link) \in Listed(t[i])
    BY DEF Overdue, Listed
  <2>5. \A i, j \in DOMAIN t : a \in Listed(t[i]) /\ a \in Listed(t[j]) => i = j
    BY <1>1 DEF TableOK, Distinct
  <2>6. ASSUME a \in AllListed(r)  PROVE a \in AllListed(t) /\ a \notin Down(t)
    <3>1. PICK i \in 1 .. n : a \in Listed(r[i])
      BY <2>1, <2>6
    <3>2. a \in Listed(t[h[i]]) /\ h[i] \in DOMAIN t /\ \A link \in Overdue(t[h[i]]) : a # Address(t[h[i]], link)
      BY <1>10, <3>1
    <3> QED
      BY <2>2, <2>3, <2>4, <2>5, <3>2
  <2>7. ASSUME a \in AllListed(t), a \notin Down(t)  PROVE a \in AllListed(r)
    <3>1. PICK k \in DOMAIN t : a \in Listed(t[k])
      BY <2>2, <2>7
    <3>2. PICK link \in t[k].links : a = Address(t[k], link)
      BY <3>1 DEF Listed
    <3>3. link \notin Overdue(t[k])
      BY <2>3, <2>7, <3>2
    <3>4. link \in Pruned(t[k]).links
      BY <1>1, <3>2, <3>3 DEF Pruned, Entry
    <3>5. PICK i \in 1 .. n : h[i] = k
      BY <1>5, <1>8, <3>4
    <3>6. a \in Listed(r[i])
      BY <1>10, <2>3, <2>7, <3>1, <3>5
    <3> QED
      BY <2>1, <3>6
  <2> QED
    BY <2>6, <2>7
<1>14. NodesIn(r) \subseteq NodesIn(t)
  BY <1>9, <1>10 DEF NodesIn
<1>15. AllListed(r) = AllListed(t) \ Down(t)
  BY <1>13
<1> QED
  BY <1>2, <1>7, <1>12, <1>14, <1>15 DEF n

LEMMA OlderOK ==
  ASSUME NEW t, NEW sil \in Silences, NEW ph \in Nat, ph < Timeout, TableOK(t, sil, ph),
         NEW new, new = [a \in Addresses |-> IF sil[a] < Silent THEN sil[a] + 1 ELSE Silent]
  PROVE  LET r == [i \in DOMAIN t |-> Older(t[i])]
         IN /\ TableOK(r, new, ph + 1) /\ DOMAIN r = DOMAIN t /\ Len(r) = Len(t)
            /\ \A i \in DOMAIN t : Listed(r[i]) = Listed(t[i]) /\ r[i].node = t[i].node
<1> DEFINE r == [i \in DOMAIN t |-> Older(t[i])]
<1>1. /\ \A i \in DOMAIN t : t[i] \in Entry /\ Sound(t[i], sil, ph)
      /\ t \in Seq(Entry) /\ Len(t) \in Nat /\ DOMAIN t = 1 .. Len(t)
  BY DEF TableOK
<1>2. ASSUME NEW e \in Entry, Sound(e, sil, ph)
      PROVE  /\ Older(e) \in Entry /\ Sound(Older(e), new, ph + 1)
             /\ Older(e).node = e.node /\ Older(e).links = e.links /\ Listed(Older(e)) = Listed(e)
  <2> DEFINE f == Older(e)
  <2>1. e.age \in [Link -> Nat] /\ e.links \subseteq Link
    BY EntryFields
  <2>2. /\ f.node = e.node /\ f.links = e.links /\ f.ip = e.ip
        /\ f.age = [link \in Link |-> IF link \in e.links THEN e.age[link] + 1 ELSE 0]
    BY DEF Older, Entry
  <2>3. [link \in Link |-> IF link \in e.links THEN e.age[link] + 1 ELSE 0] \in [Link -> Nat]
    BY <2>1
  <2>4. f \in Entry
    BY <2>3 DEF Older, Entry
  <2> HIDE DEF f
  <2>5. \A link : Address(f, link) = Address(e, link)
    BY <2>2 DEF Address
  <2>6. ASSUME NEW link \in e.links
        PROVE  f.age[link] = new[Address(f, link)] /\ f.age[link] <= Timeout + (ph + 1)
    <3>1. f.age[link] = e.age[link] + 1 /\ e.age[link] \in Nat
      BY <2>1, <2>2, <2>6
    <3>2. Address(e, link) \in Addresses
      BY <1>2, <2>6, AddressLink DEF Sound
    <3>3. e.age[link] = sil[Address(e, link)] /\ e.age[link] <= Timeout + ph
      BY <1>2, <2>6 DEF Sound
    <3>4. new[Address(e, link)] = sil[Address(e, link)] + 1
      BY <3>1, <3>2, <3>3 DEF Silent
    <3> QED
      BY <2>5, <3>1, <3>3, <3>4
  <2>7. Sound(f, new, ph + 1)
    BY <1>2, <2>2, <2>6 DEF Sound
  <2>8. Listed(f) = Listed(e)
    BY <2>2, <2>5 DEF Listed
  <2> QED
    BY <2>2, <2>4, <2>7, <2>8 DEF f
<1>3. /\ r \in Seq(Entry) /\ Len(r) = Len(t) /\ DOMAIN r = DOMAIN t
      /\ \A i \in DOMAIN t : r[i] = Older(t[i])
  <2>1. \A i \in DOMAIN t : Older(t[i]) \in Entry
    BY <1>1, <1>2
  <2> QED
    BY <1>1, <2>1
<1> HIDE DEF r
<1>4. \A i \in DOMAIN t : /\ Sound(r[i], new, ph + 1) /\ Listed(r[i]) = Listed(t[i])
                           /\ r[i].node = t[i].node /\ r[i].links = t[i].links
  BY <1>1, <1>2, <1>3
<1>5. ASSUME NEW i \in DOMAIN t, NEW j \in DOMAIN t, i < j  PROVE Distinct(r[i], r[j])
  <2>1. Distinct(t[i], t[j])
    BY <1>5 DEF TableOK
  <2> QED
    BY <1>4, <2>1 DEF Distinct
<1>6. TableOK(r, new, ph + 1)
  BY <1>3, <1>4, <1>5 DEF TableOK
<1> QED
  BY <1>3, <1>4, <1>6 DEF r

(***************************************************************************)
(* The invariant.                                                          *)
(***************************************************************************)
LEMMA InitInv == Init => Inv
<1> SUFFICES ASSUME Init  PROVE Inv
  OBVIOUS
<1>1. table = <<>> /\ table \in Seq(Entry) /\ Len(table) = 0 /\ DOMAIN table = {}
  BY DEF Init
<1>2. silence \in [Addresses -> 0 .. Silent] /\ phase \in 0 .. Timeout
  BY DEF Init, Silent
<1>3. out \in Reports
  BY DEF Init, Nothing, Reports
<1>4. TableOK(table, silence, phase)
  BY <1>1 DEF TableOK
<1> QED
  BY <1>1, <1>2, <1>3, <1>4 DEF Inv, TypeOK

\* What is known of a beacon and the state it comes in.
LEMMA BeaconFrom ==
  ASSUME Inv, NEW n \in Nodes, NEW a \in Addresses, Beacon(n, a)
  PROVE  /\ a \in Nodes => a = n
         /\ a \in Ips => a \in IpsOf[n]
         /\ silence \in Silences /\ phase \in Nat /\ Len(table) \in Nat
         /\ table' = Save(table, n, a) /\ phase' = phase /\ silence' = [silence EXCEPT ![a] = 0]
         /\ out'.down = {} /\ out'.up = IF Len(table') > Len(table) THEN {n} ELSE {}
         /\ out' \in Reports
<1>1. silence \in Silences /\ phase \in Nat /\ Len(table) \in Nat
  BY DEF Inv, TypeOK, Silences
<1>2. (a \in Nodes => a = n) /\ (a \in Ips => a \in IpsOf[n])
  BY DEF Beacon
<1>3. out' = [Nothing EXCEPT !.up = IF Len(table') > Len(table) THEN {n} ELSE {}]
  BY DEF Beacon
<1>4. /\ out'.down = {} /\ out'.up = IF Len(table') > Len(table) THEN {n} ELSE {}
      /\ out' \in Reports
  BY <1>3 DEF Nothing, Reports
<1> QED
  BY <1>1, <1>2, <1>4 DEF Beacon, Heard

LEMMA BeaconInv ==
  ASSUME Inv, NEW n \in Nodes, NEW a \in Addresses, Beacon(n, a)  PROVE Inv'
<1>1. TableOK(table, silence, phase) /\ Len(table) <= Cache /\ phase \in 0 .. Timeout
  BY DEF Inv, TypeOK
<1>2. /\ a \in Nodes => a = n
      /\ silence \in Silences /\ phase \in Nat
      /\ table' = Save(table, n, a) /\ phase' = phase /\ silence' = [silence EXCEPT ![a] = 0]
      /\ out' \in Reports
  BY BeaconFrom
<1>3. TableOK(table', silence', phase') /\ Len(table') <= Cache
  BY <1>1, <1>2, SaveOK
<1>4. silence' \in Silences
  BY <1>2 DEF Silences, Silent
<1> QED
  BY <1>1, <1>2, <1>3, <1>4 DEF Inv, TypeOK, TableOK, Silences

LEMMA AliveInv == ASSUME Inv, NEW a \in Addresses, Alive(a)  PROVE Inv'
<1>1. TableOK(table, silence, phase) /\ silence \in Silences /\ phase \in Nat /\ Len(table) <= Cache
  BY DEF Inv, TypeOK, Silences
<1>2. table' = Refresh(table, a) /\ phase' = phase /\ silence' = [silence EXCEPT ![a] = 0]
  BY DEF Alive, Heard
<1>3. TableOK(table', silence', phase') /\ Len(table') <= Cache
  BY <1>1, <1>2, RefreshOK
<1>4. silence' \in Silences
  BY <1>1, <1>2 DEF Silences, Silent
<1>5. out' \in Reports
  BY DEF Alive, Nothing, Reports
<1> QED
  BY <1>1, <1>2, <1>3, <1>4, <1>5 DEF Inv, TypeOK, TableOK, Silences

LEMMA SweepInv == ASSUME Inv, Sweep  PROVE Inv'
<1>1. /\ TableOK(table, silence, Timeout) /\ Len(table) \in Nat /\ Len(table) <= Cache
      /\ table' = Swept(table) /\ phase' = 0 /\ silence' = silence
  BY DEF Inv, TypeOK, Sweep
<1>2. TableOK(table', silence', phase') /\ Len(table') <= Len(table)
  BY <1>1, SweptOK
<1>3. Down(table) \subseteq Addresses
  <2>1. \A i \in DOMAIN table : \A link \in Overdue(table[i]) : Address(table[i], link) \in Addresses
    BY <1>1, AddressLink DEF Overdue, TableOK, Sound
  <2> QED
    BY <2>1 DEF Down
<1>4. out' \in Reports
  BY <1>3 DEF Sweep, Nothing, Reports
<1>5. table' \in Seq(Entry) /\ Len(table') \in Nat
  BY <1>2 DEF TableOK
<1> QED
  BY <1>1, <1>2, <1>4, <1>5 DEF Inv, TypeOK

LEMMA TickInv == ASSUME Inv, Tick  PROVE Inv'
<1>1. /\ TableOK(table, silence, phase) /\ silence \in Silences /\ phase \in Nat /\ Len(table) <= Cache
      /\ phase < Timeout /\ phase' = phase + 1
  BY DEF Inv, TypeOK, Silences, Tick
<1>2. /\ table' = [i \in DOMAIN table |-> Older(table[i])]
      /\ silence' = [a \in Addresses |-> IF silence[a] < Silent THEN silence[a] + 1 ELSE Silent]
  BY DEF Tick
<1>3. TableOK(table', silence', phase') /\ Len(table') = Len(table)
  BY <1>1, <1>2, OlderOK
<1>4. silence' \in Silences
  BY <1>1, <1>2 DEF Silences, Silent
<1>5. out' \in Reports
  BY DEF Tick, Nothing, Reports
<1> QED
  BY <1>1, <1>3, <1>4, <1>5 DEF Inv, TypeOK, TableOK, Silences

LEMMA NextInv == Inv /\ [Next]_vars => Inv'
<1> SUFFICES ASSUME Inv, [Next]_vars  PROVE Inv'
  OBVIOUS
<1>1. ASSUME NEW n \in Nodes, NEW a \in Addresses, Beacon(n, a)  PROVE Inv'
  BY <1>1, BeaconInv
<1>2. ASSUME NEW a \in Addresses, Alive(a)  PROVE Inv'
  BY <1>2, AliveInv
<1>3. CASE Sweep
  BY <1>3, SweepInv
<1>4. CASE Tick
  BY <1>4, TickInv
<1>5. CASE UNCHANGED vars
  <2>1. table' = table /\ phase' = phase /\ silence' = silence /\ out' = out
    BY <1>5 DEF vars
  <2>2. TableOK(table', silence', phase')
    BY <2>1 DEF Inv
  <2> QED
    BY <2>1, <2>2 DEF Inv, TypeOK, TableOK, Silences
<1> QED
  BY <1>1, <1>2, <1>3, <1>4, <1>5 DEF Next

LEMMA Invariance == Spec => []Inv
<1> QED
  BY InitInv, NextInv, PTL DEF Spec

\* The table never holds more entries than there are blocks, and its entries have the
\* types of their fields (discovery_ipnd_save_neighbour, discovery_ipnd_remove_stale_neighbours).
THEOREM TableTyped == Spec => []TypeOK
<1>1. Inv => TypeOK
  BY DEF Inv
<1> QED
  BY Invariance, <1>1, PTL

\* No two entries share an address or, for one node, a kind of link, whatever beacons
\* come over which link and in which order the links are dropped.
THEOREM EntriesApart == Spec => []LinksUnique
<1>1. Inv => LinksUnique
  <2> SUFFICES ASSUME Inv, NEW i \in DOMAIN table, NEW j \in DOMAIN table, i # j
               PROVE  /\ Listed(table[i]) \cap Listed(table[j]) = {}
                      /\ table[i].node = table[j].node => table[i].links \cap table[j].links = {}
    BY DEF LinksUnique
  <2>1. i < j \/ j < i
    BY DEF Inv, TypeOK
  <2>2. Distinct(table[i], table[j]) \/ Distinct(table[j], table[i])
    BY <2>1 DEF Inv, TableOK
  <2> QED
    BY <2>2 DEF Distinct
<1> QED
  BY Invariance, <1>1, PTL

\* No link is offered to routing over which nothing has come for two periods of the timer.
THEOREM SilentDropped == Spec => []NoGhosts
<1>1. Inv => NoGhosts
  <2> SUFFICES ASSUME Inv, NEW a \in AllListed(table)  PROVE silence[a] <= 2 * Timeout
    BY DEF NoGhosts
  <2>1. PICK i \in DOMAIN table : a \in Listed(table[i])
    BY DEF AllListed
  <2>2. PICK link \in table[i].links : a = Address(table[i], link)
    BY <2>1 DEF Listed
  <2>3. a \in Addresses /\ silence[a] = table[i].age[link] /\ table[i].age[link] <= Timeout + phase
    BY <2>2, AddressLink DEF Inv, TableOK, Sound
  <2>4. silence[a] \in Nat /\ phase \in 0 .. Timeout
    BY <2>3 DEF Inv, TypeOK, Silent
  <2> QED
    BY <2>3, <2>4
<1> QED
  BY Invariance, <1>1, PTL

(***************************************************************************)
(* What a step changes.                                                    *)
(***************************************************************************)
\* A beacon drops a link only when the node sends from a new IP address, and makes an
\* entry only for a node that it reports.
LEMMA BeaconChanges ==
  ASSUME Inv, NEW n \in Nodes, NEW a \in Addresses, Beacon(n, a)
  PROVE  /\ \A x \in AllListed(table) \ AllListed(table') : Moved(x)
         /\ NodesIn(table') \ NodesIn(table) \subseteq out'.up
<1>0. /\ (a \in Nodes => a = n) /\ (a \in Ips => a \in IpsOf[n])
      /\ silence \in Silences /\ phase \in Nat /\ Len(table) \in Nat
      /\ table' = Save(table, n, a) /\ out'.up = IF Len(table') > Len(table) THEN {n} ELSE {}
  BY BeaconFrom
<1>1. TableOK(table, silence, phase) /\ table \in Seq(Entry)
  BY DEF Inv, TypeOK
<1>2. CASE SameEntries(table, table')
  BY <1>2 DEF SameEntries, AllListed, NodesIn
<1>3. CASE /\ DOMAIN table' = DOMAIN table
           /\ a \in Ips /\ a \notin AllListed(table) /\ Replaced(table, table', n, a)
  <2>1. PICK m \in DOMAIN table :
          /\ table[m].node = n /\ table'[m].node = n /\ a \in Listed(table'[m])
          /\ Listed(table[m]) \ {table[m].ip} \subseteq Listed(table'[m])
          /\ \A i \in DOMAIN table : i # m => table'[i] = table[i]
    BY <1>3 DEF Replaced
  <2>2. a \in AllListed(table') \ AllListed(table) /\ a \in IpsOf[table[m].node]
    BY <1>0, <1>3, <2>1 DEF AllListed
  <2>3. ASSUME NEW x \in AllListed(table) \ AllListed(table')  PROVE x = table[m].ip
    <3>1. PICK i \in DOMAIN table : x \in Listed(table[i]) /\ x \notin Listed(table'[i])
      BY <1>3, <2>3 DEF AllListed
    <3> QED
      BY <2>1, <3>1
  <2>4. NodesIn(table') = NodesIn(table)
    BY <1>3, <2>1 DEF NodesIn
  <2> QED
    BY <2>2, <2>3, <2>4 DEF Moved
<1>4. CASE Len(table') = Len(table) + 1 /\ table' = Append(table, NewEntry(n, a))
  <2>1. NewEntry(n, a) \in Entry /\ NewEntry(n, a).node = n
    BY BeaconFrom, NewEntrySound
  <2>2. /\ DOMAIN table = 1 .. Len(table) /\ DOMAIN table' = 1 .. Len(table) + 1 /\ Len(table) \in Nat
        /\ \A i \in 1 .. Len(table) : table'[i] = table[i]
        /\ table'[Len(table) + 1].node = n
    BY <1>1, <1>4, <2>1, AppendProperties
  <2>3. AllListed(table) \subseteq AllListed(table')
    BY <2>2 DEF AllListed
  <2>4. NodesIn(table') \subseteq NodesIn(table) \cup {n}
    <3>1. \A i \in DOMAIN table' : i \in DOMAIN table \/ i = Len(table) + 1
      BY <2>2
    <3> QED
      BY <2>2, <3>1 DEF NodesIn
  <2>5. out'.up = {n}
    BY <1>0, <1>4, <2>2
  <2> QED
    BY <2>3, <2>4, <2>5
<1>5. Saved(table, table', n, a)
  BY <1>0, <1>1, SaveOK
<1> QED
  BY <1>2, <1>3, <1>4, <1>5 DEF Saved, Grown

\* A frame or a second changes neither the addresses nor the nodes of the table.
LEMMA OthersKeep ==
  ASSUME Inv, (\E a \in Addresses : Alive(a)) \/ Tick
  PROVE  AllListed(table') = AllListed(table) /\ NodesIn(table') = NodesIn(table) /\ out'.down = {}
<1>1. TableOK(table, silence, phase) /\ silence \in Silences /\ phase \in Nat
  BY DEF Inv, TypeOK, Silences
<1>2. /\ DOMAIN table' = DOMAIN table
      /\ \A i \in DOMAIN table : Listed(table'[i]) = Listed(table[i]) /\ table'[i].node = table[i].node
  <2>1. CASE \E a \in Addresses : Alive(a)
    <3>1. PICK a \in Addresses : table' = Refresh(table, a)
      BY <2>1 DEF Alive
    <3>2. LET t == Refresh(table, a)
          IN DOMAIN t = DOMAIN table /\ \A i \in DOMAIN table : Listed(t[i]) = Listed(table[i]) /\ t[i].node = table[i].node
      BY <1>1, RefreshOK
    <3> QED
      BY <3>1, <3>2
  <2>2. CASE Tick
    BY <1>1, <2>2, OlderOK DEF Tick
  <2> QED
    BY <2>1, <2>2
<1>3. out'.down = {}
  BY DEF Alive, Tick, Nothing
<1> QED
  BY <1>2, <1>3 DEF AllListed, NodesIn

LEMMA SweepChanges ==
  ASSUME Inv, Sweep
  PROVE  /\ AllListed(table') = AllListed(table) \ out'.down /\ out'.down = Down(table)
         /\ NodesIn(table') \subseteq NodesIn(table)
         /\ \A a \in Down(table) : silence[a] > Timeout
<1>1. TableOK(table, silence, Timeout) /\ table' = Swept(table)
  BY DEF Inv, TypeOK, Sweep
<1>2. out'.down = Down(table)
  BY DEF Sweep, Nothing
<1>3. ASSUME NEW a \in Down(table)  PROVE silence[a] > Timeout
  <2>1. PICK i \in DOMAIN table : \E link \in Overdue(table[i]) : a = Address(table[i], link)
    BY <1>3 DEF Down
  <2>2. PICK link \in Overdue(table[i]) : a = Address(table[i], link)
    BY <2>1
  <2> QED
    BY <1>1, <2>2 DEF Overdue, TableOK, Sound
<1> QED
  BY <1>1, <1>2, <1>3, SweptOK

\* A link that frames come over stays in the table (discovery_ipnd_refresh_neighbour).
THEOREM HeardStays == Spec => KeptWhileHeard
<1>1. Inv /\ [Next]_vars =>
        [\A a \in AllListed(table) \ AllListed(table') : silence[a] > Timeout \/ Moved(a)]_vars
  <2> SUFFICES ASSUME Inv, Next, NEW a \in AllListed(table) \ AllListed(table')
               PROVE  silence[a] > Timeout \/ Moved(a)
    OBVIOUS
  <2>1. CASE \E n \in Nodes, b \in Addresses : Beacon(n, b)
    BY <2>1, BeaconChanges
  <2>2. CASE (\E b \in Addresses : Alive(b)) \/ Tick
    BY <2>2, OthersKeep
  <2>3. CASE Sweep
    BY <2>3, SweepChanges
  <2> QED
    BY <2>1, <2>2, <2>3 DEF Next
<1> QED
  BY Invariance, <1>1, PTL DEF Spec, KeptWhileHeard

\* The convergence layer learns of every link that is dropped, and of none that stays;
\* the agent learns of every node that is new (discovery_ipnd_delete_neighbour,
\* discovery_ipnd_save_neighbour).
THEOREM ReportsComplete == Spec => ChangesReported
<1> DEFINE Told == /\ \A a \in AllListed(table) \ AllListed(table') : a \in out'.down \/ Moved(a)
                   /\ out'.down \cap AllListed(table') = {}
                   /\ NodesIn(table') \ NodesIn(table) \subseteq out'.up
<1>1. Inv /\ [Next]_vars => [Told]_vars
  <2> SUFFICES ASSUME Inv, Next  PROVE Told
    OBVIOUS
  <2>1. CASE \E n \in Nodes, b \in Addresses : Beacon(n, b)
    BY <2>1, BeaconChanges, BeaconFrom
  <2>2. CASE (\E b \in Addresses : Alive(b)) \/ Tick
    BY <2>2, OthersKeep
  <2>3. CASE Sweep
    BY <2>3, SweepChanges
  <2> QED
    BY <2>1, <2>2, <2>3 DEF Next
<1> QED
  BY Invariance, <1>1, PTL DEF Spec, ChangesReported
=============================================================================
