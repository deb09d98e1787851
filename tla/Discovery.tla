----------------------------- MODULE Discovery -----------------------------
(***************************************************************************)
(* The neighbour table of IPND discovery: an entry holds a node's radio    *)
(* link, its IP link or both.  Beacons make entries and links, every frame *)
(* received refreshes the link it came over, and a timer drops the links   *)
(* that have been silent.  (discovery_ipnd.c, discovery.h; the table is    *)
(* what routing_flooding.c looks for neighbours in.)                       *)
(***************************************************************************)
EXTENDS Integers, Sequences, FiniteSetsExt, Lists

CONSTANTS
  Nodes, Ips, None,
  IpsOf,    \* the IP addresses (with ports) a node sends from
  Cache,    \* DISCOVERY_NEIGHBOUR_CACHE
  Timeout   \* DISCOVERY_NEIGHBOUR_TIMEOUT, in seconds; also the timer's period

\* A node's radio address is its number, so it stands for itself.
Addresses == Nodes \cup Ips

ASSUME DiscoveryAssumption ==
  /\ Nodes \cap Ips = {} /\ None \notin Addresses /\ IpsOf \in [Nodes -> SUBSET Ips]
  /\ Cache \in Nat \ {0} /\ Timeout \in Nat \ {0}

VARIABLES
  table,    \* neighbour_list
  phase,    \* seconds since the timer went off
  silence,  \* seconds since a frame came from an address, a history
  out       \* whom the last step reported: links down to the convergence layer,
            \* nodes up to the agent

vars == <<table, phase, silence, out>>

Silent == 2 * Timeout + 1 \* bound: silence is counted up to here
Link == {"lowpan", "ip"}
Entry == [node : Nodes, links : SUBSET Link, ip : Ips \cup {None}, age : [Link -> Nat]]
Reports == [down : SUBSET Addresses, up : SUBSET Nodes]
Nothing == [down |-> {}, up |-> {}]

\* discovery_neighbour_to_addr
Address(e, link) == IF link = "lowpan" THEN e.node ELSE e.ip
Listed(e) == {Address(e, link) : link \in e.links}
LinkTo(a) == IF a \in Nodes THEN "lowpan" ELSE "ip"
AllListed(t) == UNION {Listed(t[i]) : i \in DOMAIN t}

\* discovery_ipnd_refresh_neighbour touches the first entry with the address.
With(t, a) == {i \in DOMAIN t : a \in Listed(t[i])}
Refresh(t, a) ==
  IF With(t, a) = {} THEN t ELSE [t EXCEPT ![Min(With(t, a))].age[LinkTo(a)] = 0]

\* discovery_ipnd_neighbour_update_ip
WithIp(e, a) == [e EXCEPT !.links = @ \cup {"ip"}, !.ip = a, !.age["ip"] = 0]
NewEntry(n, a) ==
  LET blank == [node |-> n, links |-> {}, ip |-> None, age |-> [link \in Link |-> 0]]
  IN IF a \in Ips THEN WithIp(blank, a) ELSE [blank EXCEPT !.links = {"lowpan"}]

\* discovery_ipnd_save_neighbour: a new IP address goes to the first entry of the
\* node, over the address that was there; a radio address takes an entry of its own.
\* (Mutants: the table is not asked for the node, or is taken to have a place.)
Added(t, n, a) == IF Len(t) < Cache THEN Append(t, NewEntry(n, a)) ELSE t
SaveApart(t, n, a) == IF With(t, a) # {} THEN Refresh(t, a) ELSE Added(t, n, a)
SaveAlways(t, n, a) == IF With(t, a) # {} THEN Refresh(t, a) ELSE Append(t, NewEntry(n, a))
OfNode(t, n) == {i \in DOMAIN t : t[i].node = n}
Save(t, n, a) ==
  IF With(t, a) # {} THEN Refresh(t, a)
  ELSE IF a \in Ips /\ OfNode(t, n) # {} THEN [t EXCEPT ![Min(OfNode(t, n))] = WithIp(@, a)]
  ELSE Added(t, n, a)

Heard(a) == silence' = [silence EXCEPT ![a] = 0]

\* discovery_ipnd_receive: a beacon of n comes in from a.
Beacon(n, a) ==
  /\ a = n \/ a \in IpsOf[n]
  /\ table' = Save(table, n, a) /\ Heard(a)
  /\ out' = [Nothing EXCEPT !.up = IF Len(table') > Len(table) THEN {n} ELSE {}]
  /\ UNCHANGED phase

\* Any other frame: DISCOVERY.alive.
Alive(a) ==
  /\ table' = Refresh(table, a) /\ Heard(a) /\ out' = Nothing
  /\ UNCHANGED phase

\* discovery_ipnd_remove_stale_neighbours with discovery_ipnd_delete_neighbour: the
\* scan starts over until no link is overdue.  (Mutants: it ends with the first entry
\* that it changes; a link is overdue too early.)
OverdueEarly(e) == {link \in e.links : e.age[link] >= Timeout}
Overdue(e) == {link \in e.links : e.age[link] > Timeout}
IsLinked(e) == e.links # {}
Pruned(e) == [e EXCEPT !.links = @ \ Overdue(e)]
Linked(t) == Select(t, {i \in DOMAIN t : IsLinked(t[i])})
SweptOnce(t) ==
  LET stale == {i \in DOMAIN t : Overdue(t[i]) # {}}
  IN IF stale = {} THEN t ELSE Linked([t EXCEPT ![Min(stale)] = Pruned(@)])
Swept(t) == Linked([i \in DOMAIN t |-> Pruned(t[i])])

\* (Mutant: the convergence layer is told of nodes only that have no link left.)
DownNodes(t) == {t[i].node : i \in {j \in DOMAIN t : ~IsLinked(Pruned(t[j]))}}
Down(t) == UNION {{Address(t[i], link) : link \in Overdue(t[i])} : i \in DOMAIN t}

Sweep ==
  /\ phase = Timeout /\ phase' = 0
  /\ table' = Swept(table) /\ out' = [Nothing EXCEPT !.down = Down(table)]
  /\ UNCHANGED silence

\* A second goes by; the timer's task runs within the second in which it is due.
Older(e) == [e EXCEPT !.age = [link \in Link |-> IF link \in e.links THEN @[link] + 1 ELSE 0]]
Tick ==
  /\ phase < Timeout /\ phase' = phase + 1
  /\ table' = [i \in DOMAIN table |-> Older(table[i])]
  /\ silence' = [a \in Addresses |-> IF silence[a] < Silent THEN silence[a] + 1 ELSE Silent]
  /\ out' = Nothing

Init ==
  /\ table = <<>> /\ phase = 0 /\ out = Nothing
  /\ silence = [a \in Addresses |-> Silent]
Next ==
  \/ \E n \in Nodes, a \in Addresses : Beacon(n, a)
  \/ \E a \in Addresses : Alive(a)
  \/ Sweep \/ Tick
Spec == Init /\ [][Next]_vars

-----------------------------------------------------------------------------
\* Entries have the fields of struct discovery_ipnd_neighbour_list_entry, and their
\* number never exceeds the blocks there are for them.
TypeOK ==
  /\ table \in Seq(Entry) /\ Len(table) <= Cache
  /\ phase \in 0 .. Timeout /\ silence \in [Addresses -> 0 .. Silent] /\ out \in Reports

\* A frame's source belongs to one entry, and a node is reached over one link of each
\* kind, although its links may be spread over two entries: a beacon over the radio
\* makes an entry of its own when only the IP link is known.
LinksUnique ==
  \A i, j \in DOMAIN table : i # j =>
    /\ Listed(table[i]) \cap Listed(table[j]) = {}
    /\ table[i].node = table[j].node => table[i].links \cap table[j].links = {}

\* Routing never offers a link that nothing has come over for two periods, whatever
\* else the node sends, and however entries are shared and left over.
NoGhosts == \A a \in AllListed(table) : silence[a] <= 2 * Timeout

\* A link over which something has come within the time limit stays, unless the node
\* has come to send from another IP address.
Moved(a) ==
  \E i \in DOMAIN table, b \in AllListed(table') \ AllListed(table) :
    a = table[i].ip /\ b \in IpsOf[table[i].node]
KeptWhileHeard ==
  [][\A a \in AllListed(table) \ AllListed(table') : silence[a] > Timeout \/ Moved(a)]_vars

\* Whoever depends on the table learns of its changes: the convergence layer of every
\* link that is dropped (so that its tickets are given back), the agent of every node
\* that is new (so that routing is resumed), except for an IP address that another
\* one has replaced; and no link that stays is reported as lost.
NodesIn(t) == {t[i].node : i \in DOMAIN t}
ChangesReported ==
  [][/\ \A a \in AllListed(table) \ AllListed(table') : a \in out'.down \/ Moved(a)
     /\ out'.down \cap AllListed(table') = {}
     /\ NodesIn(table') \ NodesIn(table) \subseteq out'.up]_vars
=============================================================================
