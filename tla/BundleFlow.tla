----------------------------- MODULE BundleFlow -----------------------------
(***************************************************************************)
(* The way of a bundle through one node: an application or a peer hands it *)
(* over, the storage keeps it in a counted slot, the agent announces it,   *)
(* flooding routing asks the convergence layer for transmissions and       *)
(* delivers it to a local service, and whoever is last lets it go.         *)
(* (dispatching.c, agent.c, storage_mmem.c, bundleslot.c,                  *)
(* redundancy_basic.c, routing_flooding.c, delivery.c, registration.c and  *)
(* the life of a bundle's ticket in convergence_layer_dgram.c.)            *)
(*                                                                         *)
(* Tasks are not preempted: a handler is one step.  The effect of a        *)
(* handler on the bundles is a function of the record node.                *)
(***************************************************************************)
EXTENDS Integers, Sequences, FiniteSets, Functions

CONSTANTS
  Bundles, Peers, Services, Apps,
  Self,        \* dtn_node_id
  None,
  Header,      \* the primary block of a bundle, see HeaderAssumption
  AppOf,       \* the application number (app_id) of a service
  StoreSize,   \* BUNDLE_STORAGE_SIZE
  NeiMem,      \* ROUTING_NEI_MEM: receivers an entry remembers
  QueueLen,    \* DTN_QUEUE_LENGTH: events the agent's queue holds
  RingLen,     \* REDUNDANCE_MAX: bundles remembered as seen
  MaxTickets,  \* CONVERGENCE_LAYER_QUEUE - CONVERGENCE_LAYER_QUEUE_FREE
  MaxRegs,     \* MAX_REGISTRATIONS
  Started,     \* the registrations after the start, see RegistrationAssumption
  UdpPeers,    \* peers whose node number only the neighbour table knows
  Recorded,    \* bound: bundles whose answers are remembered, for the properties only
  AppCalls,    \* bound: what services ask of the agent after the start
  Faults       \* which failing paths the environment takes, see below

Nodes == Peers \cup {Self}
Blocks == 1 .. MaxRegs
Kinds == {"send", "stored", "done", "beacon"}
Calls == {"register", "activate", "passivate", "remove"}

\* dst is a node or a group address; report: the bundle whose delivery a status
\* report (ADM_REC) tells of; via: bound: the peers that may send us the bundle.
ASSUME HeaderAssumption ==
  \A b \in Bundles :
    /\ Header[b].dst \notin {None, Header[b].src} /\ Header[b].srv \in Services
    /\ Header[b].single \in BOOLEAN /\ Header[b].long \in BOOLEAN
    /\ Header[b].prio \in 0 .. 2 /\ Header[b].via \subseteq Peers
    /\ Header[b].report \in Bundles \cup {None}
ASSUME NameAssumption ==
  /\ Self \notin Peers /\ None \notin Nodes \cup Bundles \cup Services
  /\ UdpPeers \subseteq Peers /\ AppOf \in [Services -> Apps]
  /\ Bundles \cap Services = {} /\ Bundles \cap Peers = {}
ASSUME SizeAssumption ==
  /\ StoreSize \in Nat \ {0} /\ NeiMem \in Nat \ {0} /\ QueueLen \in Nat \ {0}
  /\ RingLen \in Nat \ {0} /\ MaxTickets \in Nat \ {0} /\ MaxRegs \in Nat
ASSUME EnvironmentAssumption ==
  /\ Recorded \subseteq Bundles /\ AppCalls \subseteq Calls \X Services
  /\ Faults \subseteq {"queue_full",    \* the agent's queue may be full
                       "app_full",      \* the queue of a service may be full
                       "no_memory",     \* MMEM runs out
                       "cl_busy",       \* acknowledgements and receptions hold the tickets
                       "unsendable",    \* a bundle cannot be encoded for now
                       "fatal",         \* the MAC reports a fatal error
                       "dest_nack",     \* the destination refuses the bundle for good
                       "expired_held"}  \* a bundle expires while a service has it

Registration == [srv : Services \cup {None}, active : BOOLEAN, busy : BOOLEAN]
ASSUME RegistrationAssumption ==
  Started \in [Blocks -> {g \in Registration : ~g.busy}]

Flag == {"local", "forward", "transit", "delivery"}
\* reads: the ticket holds a reference to the bundle; multi: encoded, in segments;
\* pend: an application layer acknowledgement is awaited.
Ticket == [to : Peers \cup {None}, reads : BOOLEAN, multi : BOOLEAN, pend : BOOLEAN]
NoTicket == [to |-> None, reads |-> FALSE, multi |-> FALSE, pend |-> FALSE]

VARIABLES
  node,    \* what the node knows of each bundle, see TypeOK
  queue,   \* event_queue of the agent: [kind, about]
  reg,     \* registration_mem: [srv, active, busy]; busy outlives the registration
  ring,    \* redundance_bundle_list, oldest first
  expired, \* bundles whose lifetime is over
  nbrs,    \* the neighbours discovery lists
  awake    \* the routing task has been resumed

vars == <<node, queue, reg, ring, expired, nbrs, awake>>

(***************************************************************************)
(* Slots, tickets and routing entries                                      *)
(***************************************************************************)
\* bundleslot_decrement refuses to go below zero.
Lower(r) == IF r = 0 THEN 0 ELSE r - 1
Inc(s, b) == [s EXCEPT !.ref = [s.ref EXCEPT ![b] = @ + 1]]
Dec(s, b) == [s EXCEPT !.ref = [s.ref EXCEPT ![b] = Lower(@)]]

PutTicket(s, b, tk) == [s EXCEPT !.ticket = [s.ticket EXCEPT ![b] = tk]]
PutFlags(s, b, F) == [s EXCEPT !.flags = [s.flags EXCEPT ![b] = F]]
PutApp(s, b, a) == [s EXCEPT !.app = [s.app EXCEPT ![b] = a]]

\* convergence_layer_dgram_free_transmit_ticket; a bundle has one ticket at most.
\* (Mutant: the reference is not given back.)
FreeTicketKeepRef(s, b) == PutTicket(s, b, NoTicket)
FreeTicket(s, b) ==
  LET freed == PutTicket(s, b, NoTicket)
  IN IF s.ticket[b].reads THEN Dec(freed, b) ELSE freed

Unroute(s, b) ==
  [PutFlags(s, b, {}) EXCEPT !.routed = @ \ {b}, !.sentTo = [s.sentTo EXCEPT ![b] = <<>>]]

\* storage_mmem_delete_bundle, with agent_delete_bundle in its middle.  A locked
\* bundle is not deleted.  (Mutant: it is.)
Forget(s, b) ==
  LET s1 == Dec(Unroute(FreeTicket(s, b), b), b) IN [s1 EXCEPT !.stored = @ \ {b}]
DeleteAnyway(s, b) == IF b \in s.stored THEN Forget(s, b) ELSE s
Delete(s, b) == IF b \in s.stored \ s.locked THEN Forget(s, b) ELSE s

(***************************************************************************)
(* Storage.  A pass over the list ends with the first bundle it deletes:   *)
(* list_remove clears the link the pass would follow.                      *)
(***************************************************************************)
Overdue(s) == (s.stored \cap expired) \ s.locked
Pruned(s) == IF Overdue(s) = {} THEN {s} ELSE {Delete(s, b) : b \in Overdue(s)}

\* Bundles that may be evicted for b: the code also compares remaining lifetimes,
\* which is left open here.  (Mutant: the comparison of priorities is dropped.)
AnyVictims(s, b) == s.stored \ s.locked
Victims(s, b) == {v \in s.stored \ s.locked : Header[v].prio <= Header[b].prio}

Room(s, ok) == [node |-> s, ok |-> ok]
MadeRoom(s, b) ==
  UNION {IF Cardinality(p.stored) < StoreSize THEN {Room(p, TRUE)}
         ELSE {Room(p, FALSE)} \cup {Room(Delete(p, v), TRUE) : v \in Victims(p, b)} : p \in Pruned(s)}

\* storage_mmem_save_bundle of a bundle that is not stored: one reference is left,
\* the one of the storage.
Stored(s, b) ==
  [s EXCEPT !.stored = @ \cup {b}, !.ref = [s.ref EXCEPT ![b] = 1],
            !.answered = [s.answered EXCEPT ![b] = <<>>]]
Saved(s, b) ==
  UNION {IF ~r.ok THEN {r}
         ELSE {Room(Stored(r.node, b), TRUE)}
              \cup IF "no_memory" \in Faults THEN {Room(r.node, FALSE)} ELSE {} : r \in MadeRoom(s, b)}

(***************************************************************************)
(* Routing decisions                                                       *)
(***************************************************************************)
Registered(v) == \E r \in Blocks : reg[r].srv = v

FreshFlags(b) ==
  (IF Header[b].dst = Self THEN {"local"} ELSE {"forward"})
    \cup (IF Header[b].single THEN {} ELSE {"forward"})
    \cup (IF Registered(Header[b].srv) /\ Header[b].dst # Self THEN {"local", "forward"} ELSE {})

\* routing_flooding_new_bundle announces a stored bundle once.
CanAnnounce(s, b) == b \in s.stored \ s.routed
Announce(s, b) == [PutFlags(s, b, FreshFlags(b)) EXCEPT !.routed = @ \cup {b}]

\* routing_flooding_check_keep_bundle
CheckKeep(s, b) ==
  IF b \in s.routed /\ s.flags[b] \cap {"local", "forward"} = {} THEN Delete(s, b) ELSE s

StopForwarding(s, b) == CheckKeep(PutFlags(s, b, s.flags[b] \ {"forward"}), b)

\* answered, a history, names those who took or refused a bundle, the service here
\* as Self; the destination that refused and a nameless peer are None.  (Bound: enough
\* of these.)
Answered(s, b, n) ==
  IF b \notin Recorded \/ (n = None /\ Len(s.answered[b]) > NeiMem) THEN s
  ELSE [s EXCEPT !.answered = [s.answered EXCEPT ![b] = Append(@, n)]]

\* A receiver takes one of the entry's places, if one is left.  (Mutant: one too many.)
HasPlaceMore(s, b) == Len(s.sentTo[b]) <= NeiMem
HasPlace(s, b) == Len(s.sentTo[b]) < NeiMem
NoteReceiver(s, b, n) == [s EXCEPT !.sentTo = [s.sentTo EXCEPT ![b] = Append(@, n)]]

\* routing_get_eid_of_cl_addr knows a node by its radio address, or from the table.
IsKnown(n) == n \notin UdpPeers \/ n \in nbrs

\* What bundle_sent makes of an answer: the destination has the bundle, a place is
\* left for the peer, or enough peers have it.
AnsweredBy(s, b, n, status) ==
  IF Header[b].dst = n /\ IsKnown(n) /\ status # "nack"
  THEN StopForwarding(FreeTicket(s, b), b)
  ELSE IF ~HasPlace(s, b) THEN FreeTicket(StopForwarding(s, b), b)
  ELSE FreeTicket(IF IsKnown(n) THEN NoteReceiver(s, b, n) ELSE s, b)

\* routing_flooding_bundle_sent: the entry is not in transit any more, and the
\* ticket is freed.  (Mutant: the flag stays.)
SentStillInTransit(s, b, status) == FreeTicket(s, b)
Sent(s, b, status) ==
  LET n == s.ticket[b].to
      s1 == PutFlags(s, b, s.flags[b] \ {"transit"})
  IN IF b \notin s.routed THEN FreeTicket(s, b)
     ELSE CASE status \in {"fail", "tempnack"} -> FreeTicket(s1, b)
            [] status = "error" -> FreeTicket(CheckKeep(PutFlags(s, b, {}), b), b)
            [] OTHER -> LET nameless == ~IsKnown(n) \/ (status = "nack" /\ n = Header[b].dst)
                        IN AnsweredBy(Answered(s1, b, IF nameless THEN None ELSE n), b, n, status)

(***************************************************************************)
(* Events.  agent_send_event does not wait: what does not fit is lost.     *)
(***************************************************************************)
Event(kind, about) == [kind |-> kind, about |-> about]
HasSpace == Len(queue) < QueueLen
MayPost == HasSpace \/ "queue_full" \in Faults
Post(q, kind, about) == IF Len(q) < QueueLen THEN Append(q, Event(kind, about)) ELSE q
\* REDUNDANCE.set
Remember(b) == IF Len(ring) < RingLen THEN Append(ring, b) ELSE Append(Tail(ring), b)

(***************************************************************************)
(* Applications: their calls are events for the agent.                     *)
(***************************************************************************)
\* An application sends a bundle of its own; if the event is lost, so is its slot.
AppSend(b) ==
  /\ Header[b].src = Self /\ node.app[b] = "new" /\ MayPost
  /\ queue' = Post(queue, "send", b)
  /\ node' = PutApp(Inc(node, b), b, IF HasSpace THEN "sending" ELSE "lost")
  /\ UNCHANGED <<reg, ring, expired, nbrs, awake>>

\* It reports that it has processed a bundle it was given.
AppDone(b) ==
  /\ node.app[b] = "inbox" /\ MayPost
  /\ queue' = Post(queue, "done", b)
  /\ node' = PutApp(node, b, IF HasSpace THEN "done" ELSE "lost")
  /\ UNCHANGED <<reg, ring, expired, nbrs, awake>>

\* (Bound: one such event at a time.)
AppCall(kind, v) ==
  /\ \A i \in DOMAIN queue : queue[i].kind \notin Calls
  /\ MayPost /\ queue' = Post(queue, kind, v)
  /\ UNCHANGED <<node, reg, ring, expired, nbrs, awake>>

(***************************************************************************)
(* A bundle has come in from n: dispatching_dispatch_bundle                *)
(***************************************************************************)
\* A report that tells of a bundle's delivery deletes it here, check_report.
Told(s, r) == IF r \in s.stored \ s.locked THEN Answered(s, r, Header[r].dst) ELSE s
Reported(s, b) ==
  IF Header[b].report = None THEN s ELSE Delete(Told(s, Header[b].report), Header[b].report)
SetFrom(s, b, n) == [s EXCEPT !.from = [s.from EXCEPT ![b] = n]]

\* What is stored is remembered as seen and announced by an event.
Accept(s, b) == /\ node' = s /\ ring' = Remember(b) /\ queue' = Post(queue, "stored", b)
Reject(s) == /\ node' = s /\ UNCHANGED <<ring, queue>>
IsForMe(b) == Header[b].report # None /\ Header[b].dst = Self
IsSeen(b) == b \in Range(ring)

Receive(b, n) ==
  /\ n \in Header[b].via /\ Header[b].src # Self /\ b \notin expired /\ MayPost
  /\ LET s == Reported(node, b)
     IN IF IsForMe(b) \/ IsSeen(b) THEN Reject(s)
        ELSE IF b \in s.stored THEN Accept(s, b)
        ELSE \E r \in Saved(s, b) : IF r.ok THEN Accept(SetFrom(r.node, b, n), b) ELSE Reject(r.node)
  /\ UNCHANGED <<reg, expired, nbrs, awake>>

(***************************************************************************)
(* The agent takes one event                                               *)
(***************************************************************************)
Takes(kind, about) == queue # <<>> /\ Head(queue) = Event(kind, about) /\ queue' = Tail(queue)

\* ROUTING.new_bundle, which may find no memory for the entry.  (Mutant: a bundle that
\* is overdue is ignored.)
NewBundleInTime(s, b) ==
  IF CanAnnounce(s, b) /\ b \notin expired
  THEN node' = Announce(s, b) /\ awake' = TRUE ELSE node' = s /\ UNCHANGED awake
NewBundle(s, b) ==
  \/ CanAnnounce(s, b) /\ node' = Announce(s, b) /\ awake' = TRUE
  \/ (~CanAnnounce(s, b) \/ "no_memory" \in Faults) /\ node' = s /\ UNCHANGED awake

\* An own bundle is saved and announced at once; it is not remembered as seen.
AgentSend(b) ==
  /\ Takes("send", b)
  /\ \E r \in Saved(PutApp(node, b, "none"), b) :
       IF r.ok THEN NewBundle(SetFrom(r.node, b, None), b)
       ELSE node' = Dec(r.node, b) /\ UNCHANGED awake
  /\ UNCHANGED <<reg, ring, expired, nbrs>>

AgentStored(b) ==
  /\ Takes("stored", b) /\ NewBundle(node, b)
  /\ UNCHANGED <<reg, ring, expired, nbrs>>

\* delivery_unblock_service: the application number alone decides, and a service
\* that has become passive stays busy.
BusyBlocks(v) == {r \in Blocks : /\ reg[r].srv # None /\ AppOf[reg[r].srv] = AppOf[v]
                                 /\ reg[r].active /\ reg[r].busy}
Unblock(v) == IF BusyBlocks(v) = {} THEN UNCHANGED reg
              ELSE \E r \in BusyBlocks(v) : reg' = [reg EXCEPT ![r].busy = FALSE]

\* routing_flooding_bundle_delivered_locally.  This node counts as a receiver.
\* (Mutant: the bundle remains local.)
DeliveredStillLocal(s, b) ==
  LET s1 == PutFlags(PutApp(s, b, "none"), b, s.flags[b] \ {"delivery"})
  IN Answered(Dec([s1 EXCEPT !.locked = @ \ {b}], b), b, Self)
Delivered(s, b) ==
  LET s1 == PutFlags(PutApp(s, b, "none"), b, s.flags[b] \ {"delivery", "local"})
      s2 == Dec([s1 EXCEPT !.locked = @ \ {b}], b)
      s3 == Answered(s2, b, Self)
  IN IF HasPlace(s3, b) THEN CheckKeep(NoteReceiver(s3, b, Self), b) ELSE StopForwarding(s3, b)

\* A slot that has been freed meanwhile is not looked at.
AgentDone(b) ==
  /\ Takes("done", b)
  /\ IF node.ref[b] = 0 \/ b \notin node.routed
     THEN node' = PutApp(node, b, IF node.ref[b] = 0 THEN "none" ELSE "lost") /\ UNCHANGED reg
     ELSE node' = Delivered(node, b) /\ Unblock(Header[b].srv)
  /\ awake' = (awake \/ node.ref[b] # 0)
  /\ UNCHANGED <<ring, expired, nbrs>>

AgentBeacon ==
  /\ Takes("beacon", None) /\ awake' = TRUE
  /\ UNCHANGED <<node, reg, ring, expired, nbrs>>

\* memb_alloc gives the first free block and does not clear it.
FreeBlocks == {r \in Blocks : reg[r].srv = None}
FirstBlock == CHOOSE r \in FreeBlocks : \A q \in FreeBlocks : r <= q
Switch(v, active) ==
  reg' = [r \in Blocks |-> IF reg[r].srv = v THEN [reg[r] EXCEPT !.active = active] ELSE reg[r]]
Register(v) ==
  IF Registered(v) \/ FreeBlocks = {} THEN UNCHANGED reg
  ELSE reg' = [reg EXCEPT ![FirstBlock].srv = v, ![FirstBlock].active = TRUE]
Remove(v) ==
  reg' = [r \in Blocks |-> IF reg[r].srv = v THEN [reg[r] EXCEPT !.srv = None] ELSE reg[r]]

AgentCall(v) ==
  /\ \/ Takes("register", v) /\ Register(v)
     \/ Takes("activate", v) /\ Switch(v, TRUE)
     \/ Takes("passivate", v) /\ Switch(v, FALSE)
     \/ Takes("remove", v) /\ Remove(v)
  /\ UNCHANGED <<node, ring, expired, nbrs, awake>>

(***************************************************************************)
(* The routing task: send_to_known_neighbours.  The order of its list is   *)
(* left open: any entry may be the first it looks at.                      *)
(***************************************************************************)
Serving(b) == {r \in Blocks : reg[r].srv = Header[b].srv /\ reg[r].active}

\* Bundles send_to_local finds a service for, idle or busy.
Deliverable == {b \in node.routed \cap node.stored :
                  /\ "local" \in node.flags[b] /\ "delivery" \notin node.flags[b]
                  /\ Serving(b) # {}}
Deliver(s, b) ==
  LET s1 == PutFlags(Inc(s, b), b, s.flags[b] \cup {"delivery"})
  IN [s1 EXCEPT !.locked = @ \cup {b}]
\* The event may not fit into the queue of the service.
Handed(s, b) == {PutApp(Deliver(s, b), b, "inbox")}
                  \cup IF "app_full" \in Faults THEN {PutApp(Deliver(s, b), b, "lost")} ELSE {}

\* One bundle is delivered in a pass; a busy service ends the search.  (Mutant: a
\* busy service is not noticed.)
LocalPassUnasked(s, s1) ==
  IF Deliverable = {} THEN s1 = s /\ UNCHANGED reg
  ELSE \E b \in Deliverable : \E r \in Serving(b) :
         s1 \in Handed(s, b) /\ reg' = [reg EXCEPT ![r].busy = TRUE]
LocalPass(s, s1) ==
  IF Deliverable = {} THEN s1 = s /\ UNCHANGED reg
  ELSE \E b \in Deliverable : \E r \in Serving(b) :
         IF reg[r].busy THEN s1 = s /\ UNCHANGED reg
         ELSE s1 \in Handed(s, b) /\ reg' = [reg EXCEPT ![r].busy = TRUE]

\* forward_directly and forward_normal: the destination if it is a neighbour, else
\* a neighbour that neither made nor sent nor got it.  (Mutant: nor got it.)
TargetsAgain(s, b) ==
  IF Header[b].dst \in nbrs THEN {Header[b].dst} ELSE nbrs \ {Header[b].src, s.from[b]}
Targets(s, b) ==
  IF Header[b].dst \in nbrs THEN {Header[b].dst}
  ELSE nbrs \ ({Header[b].src, s.from[b]} \cup Range(s.sentTo[b]))
Waiting(s) == {b \in s.routed : /\ "forward" \in s.flags[b] /\ "transit" \notin s.flags[b]
                                /\ Targets(s, b) # {}}
Ticketed(s) == {b \in Bundles : s.ticket[b].to # None}

\* Bundles the convergence layer takes before it refuses one; then the pass stops.
Granted(s) ==
  LET free == MaxTickets - Cardinality(Ticketed(s))
  IN {G \in SUBSET Waiting(s) :
        /\ Cardinality(G) <= free
        /\ G = Waiting(s) \/ Cardinality(G) = free \/ "cl_busy" \in Faults}
Enqueue(s, G, to) ==
  [s EXCEPT !.ticket = [b \in Bundles |-> IF b \in G THEN [NoTicket EXCEPT !.to = to[b]] ELSE s.ticket[b]],
            !.flags = [b \in Bundles |-> s.flags[b] \cup IF b \in G THEN {"transit"} ELSE {}]]

RoutingPass ==
  /\ awake /\ awake' = FALSE
  /\ \E s1 \in {node} \cup UNION {Handed(node, b) : b \in Deliverable} :
       /\ LocalPass(node, s1)
       /\ \E G \in Granted(s1) : \E to \in [G -> nbrs] :
            /\ \A b \in G : to[b] \in Targets(s1, b)
            /\ node' = Enqueue(s1, G, to)
  /\ UNCHANGED <<queue, ring, expired, nbrs>>

(***************************************************************************)
(* The convergence layer works on the ticket of b.                         *)
(***************************************************************************)
\* read_bundle, unless the ticket refers to the bundle already.
Read(s, b) ==
  IF s.ticket[b].reads THEN s ELSE Inc(PutTicket(s, b, [s.ticket[b] EXCEPT !.reads = TRUE]), b)
Unread(s, b) ==
  IF s.ticket[b].reads THEN Dec(PutTicket(s, b, [s.ticket[b] EXCEPT !.reads = FALSE]), b) ELSE s

\* prepare_segmentation, up to the frame: what is encoded in segments needs the
\* bundle no more.
Encoded(s, b) ==
  LET read == Read(s, b)
      segmented == Unread(read, b)
  IN IF s.ticket[b].multi THEN s
     ELSE IF ~Header[b].long THEN read
     ELSE PutTicket(segmented, b, [segmented.ticket[b] EXCEPT !.multi = TRUE])

\* The bundle is given back and deleted, unless it is locked; then the ticket goes
\* on referring to it.
Dropped(s, b) == Delete(Dec(Read(s, b), b), b)

IsOverdue(b) == b \in expired /\ ~node.ticket[b].multi

ExpiredAttempt(b) ==
  /\ node.ticket[b].to # None /\ IsOverdue(b)
  /\ b \notin node.locked \/ "expired_held" \in Faults
  /\ node' = Dropped(node, b)
  /\ UNCHANGED <<queue, reg, ring, expired, nbrs, awake>>

UnencodedAttempt(b) ==
  /\ node.ticket[b].to # None /\ ~node.ticket[b].multi /\ b \notin expired
  /\ "unsendable" \in Faults
  /\ node' = Read(node, b)
  /\ UNCHANGED <<queue, reg, ring, expired, nbrs, awake>>

\* convergence_layer_dgram_status
Attempt(b, outcome) ==
  /\ node.ticket[b].to # None /\ ~IsOverdue(b)
  /\ LET s == Encoded(node, b)
         s1 == Unread(s, b)
     IN CASE outcome = "ok" -> /\ node' = PutTicket(s1, b, [s1.ticket[b] EXCEPT !.pend = TRUE])
                               /\ UNCHANGED awake
          [] outcome = "retry" -> node' = s /\ UNCHANGED awake
          [] outcome = "fail" -> node' = Sent(s, b, "fail") /\ awake' = TRUE
          [] outcome = "fatal" -> node' = Sent(s, b, "error") /\ awake' = TRUE
  /\ outcome = "fatal" => "fatal" \in Faults
  /\ UNCHANGED <<queue, reg, ring, expired, nbrs>>

\* convergence_layer_dgram_parse_ackframe, for the last segment
Answer(b, status) ==
  /\ node.ticket[b].to # None /\ node.ticket[b].pend
  /\ status = "nack" /\ node.ticket[b].to = Header[b].dst => "dest_nack" \in Faults
  /\ node' = Sent(node, b, status) /\ awake' = TRUE
  /\ UNCHANGED <<queue, reg, ring, expired, nbrs>>

(***************************************************************************)
(* Discovery, time                                                         *)
(***************************************************************************)
NeighbourUp(n) ==
  /\ n \notin nbrs /\ MayPost
  /\ nbrs' = nbrs \cup {n} /\ queue' = Post(queue, "beacon", None)
  /\ UNCHANGED <<node, reg, ring, expired, awake>>

\* convergence_layer_dgram_neighbour_down reports a failure for every ticket that
\* does not await an acknowledgement.
Unsent(n) == {b \in Bundles : node.ticket[b].to = n /\ ~node.ticket[b].pend}
AllFailed(s, F) ==
  [s EXCEPT !.ticket = [b \in Bundles |-> IF b \in F THEN NoTicket ELSE s.ticket[b]],
            !.flags = [b \in Bundles |-> IF b \in F THEN s.flags[b] \ {"transit"} ELSE s.flags[b]],
            !.ref = [b \in Bundles |-> IF b \in F /\ s.ticket[b].reads THEN Lower(s.ref[b])
                                      ELSE s.ref[b]]]
NeighbourDown(n) ==
  /\ n \in nbrs /\ nbrs' = nbrs \ {n}
  /\ node' = AllFailed(node, Unsent(n)) /\ awake' = (awake \/ Unsent(n) # {})
  /\ UNCHANGED <<queue, reg, ring, expired>>

Expire(b) ==
  /\ b \in node.stored \ expired /\ expired' = expired \cup {b}
  /\ UNCHANGED <<node, queue, reg, ring, nbrs, awake>>

\* storage_mmem_prune, every five seconds
Prune ==
  /\ Overdue(node) # {} /\ node' \in Pruned(node)
  /\ UNCHANGED <<queue, reg, ring, expired, nbrs, awake>>

-----------------------------------------------------------------------------
Init ==
  /\ node = [stored |-> {}, locked |-> {}, routed |-> {},
             ref |-> [b \in Bundles |-> 0], flags |-> [b \in Bundles |-> {}],
             sentTo |-> [b \in Bundles |-> <<>>], from |-> [b \in Bundles |-> None],
             ticket |-> [b \in Bundles |-> NoTicket],
             app |-> [b \in Bundles |-> IF Header[b].src = Self THEN "new" ELSE "none"],
             answered |-> [b \in Bundles |-> <<>>]]
  /\ queue = <<>> /\ reg = Started
  /\ ring = <<>> /\ expired = {} /\ nbrs = {} /\ awake = FALSE

AgentStep == \/ AgentBeacon \/ \E v \in Services : AgentCall(v)
             \/ \E b \in Bundles : AgentSend(b) \/ AgentStored(b) \/ AgentDone(b)
Works(b) == ExpiredAttempt(b) \/ UnencodedAttempt(b)
              \/ \E o \in {"ok", "retry", "fail", "fatal"} : Attempt(b, o)
Arrives == \E b \in Bundles : AppSend(b) \/ \E n \in Peers : Receive(b, n)
Topology == \E n \in Peers : NeighbourUp(n) \/ NeighbourDown(n)
Called == \E c \in AppCalls : AppCall(c[1], c[2])

Next ==
  \/ AgentStep \/ RoutingPass \/ Arrives \/ Topology \/ Called \/ Prune
  \/ \E b \in Bundles : \/ Works(b) \/ AppDone(b) \/ Expire(b)
                        \/ \E status \in {"ok", "nack", "tempnack"} : Answer(b, status)
Spec == Init /\ [][Next]_vars

-----------------------------------------------------------------------------
(***************************************************************************)
(* Safety                                                                  *)
(***************************************************************************)
Answerers == Nodes \cup {None} \cup {Header[b].dst : b \in Bundles}
IsNode(s) ==
  /\ s \in [stored : SUBSET Bundles, locked : SUBSET Bundles, routed : SUBSET Bundles,
            ref : [Bundles -> Nat], flags : [Bundles -> SUBSET Flag],
            sentTo : [Bundles -> Seq(Nodes)], from : [Bundles -> Peers \cup {None}],
            ticket : [Bundles -> Ticket],
            app : [Bundles -> {"new", "sending", "none", "inbox", "done", "lost"}],
            answered : [Bundles -> Seq(Answerers)]]
  /\ \A b \in Bundles : Len(s.sentTo[b]) <= NeiMem
\* No handler writes past the agent's queue, the ring or the places of an entry.
TypeOK ==
  /\ IsNode(node)
  /\ queue \in Seq([kind : Kinds \cup Calls, about : Bundles \cup Services \cup {None}])
  /\ reg \in [Blocks -> Registration]
  /\ Len(queue) <= QueueLen /\ Len(ring) <= RingLen
  /\ ring \in Seq(Bundles) /\ expired \subseteq Bundles /\ nbrs \subseteq Peers /\ awake \in BOOLEAN

\* "He will have to decrease the reference counter again": the count of a bundle's
\* slot is the storage's reference, that of its ticket and that of the application
\* or event that has it, whatever is deleted, evicted, expired or lost meanwhile.
One(condition) == IF condition THEN 1 ELSE 0
Held(s, b) == s.app[b] \notin {"none", "new"}
RefAgrees(s, b) ==
  s.ref[b] = One(b \in s.stored) + One(s.ticket[b].reads) + One(Held(s, b))
RefsAgree == \A b \in Bundles : RefAgrees(node, b)

\* A ticket is for a bundle that is stored and whose entry is in transit; an entry in
\* transit has a ticket, so some callback will take the flag off.
InTransitHasTicket ==
  \A b \in Bundles :
    /\ node.ticket[b].to # None <=> "transit" \in node.flags[b]
    /\ node.ticket[b].to # None => b \in node.stored \cap node.routed

\* What a service has stays stored, locked and routed until its event comes back, and
\* is not due for another delivery: nothing evicts it or hands it out once more.
Given(s, b) == s.app[b] \in {"inbox", "done"}
GivenIsLocked ==
  \A b \in Bundles : Given(node, b) =>
    /\ b \in node.locked \cap node.stored \cap node.routed
    /\ "local" \in node.flags[b] => "delivery" \in node.flags[b]

\* A service has one bundle at a time, and is busy if and only if it has one: it is
\* never passed over for ever, although another service shares its number.
BusyIffGiven ==
  \A r \in Blocks : reg[r].srv # None =>
    LET given == {b \in Bundles : Given(node, b) /\ Header[b].srv = reg[r].srv}
    IN Cardinality(given) = One(reg[r].busy)

\* What is stored is in routing's list or its event is on the way to it.
Announced ==
  \A b \in node.stored :
    b \in node.routed \/ \E i \in DOMAIN queue : queue[i] = Event("stored", b)

\* Nobody whose number is known is sent a bundle again that he has accepted, or
\* refused for good without being its destination; nor does a service get a bundle
\* again that it has processed, unless it has come in anew.
Sends(b) == node.ticket[b].to = None /\ node'.ticket[b].to # None
Delivers(b) == ~Given(node, b) /\ Given(node', b)
NoRepeat ==
  [][\A b \in Bundles :
       /\ Sends(b) => node'.ticket[b].to \notin Range(node.answered[b])
       /\ Delivers(b) => Self \notin Range(node.answered[b])]_vars

\* A bundle leaves the storage when it is out of date, evicted from a full storage by
\* one at least as urgent, or served: its destination has it, or its service has
\* processed it and more answers have come than an entry remembers.
Evictable(b) == /\ Cardinality(node.stored) = StoreSize
                /\ \E c \in Bundles \ node.stored : Header[b].prio <= Header[c].prio
Served(b) ==
  LET answers == node'.answered[b]
  IN \/ Header[b].dst \in Range(answers)
     \/ /\ b \in node.routed
        /\ "local" \in node.flags[b] => Self \in Range(answers)
        /\ "forward" \in node.flags[b] => Len(answers) > NeiMem
KeptUntilServed ==
  [][\A b \in node.stored \ node'.stored : b \in expired \/ Evictable(b) \/ Served(b)]_vars
=============================================================================
