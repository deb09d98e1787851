-------------------------- MODULE ConvergenceLayer --------------------------
(***************************************************************************)
(* The datagram convergence layer of one node                              *)
(* (core/net/uDTN/convergence_layer_dgram.c) over its two link adapters:   *)
(* dgram:lowpan, whose send reports its MAC outcome before it returns, and *)
(* dgram:udp, whose send blocks in netconn_sendto and lets other tasks run *)
(* before the outcome is reported.                                         *)
(*                                                                         *)
(* FreeRTOS is built with configUSE_PREEMPTION 0, so what a task does      *)
(* between two blocking calls is one step.  What a frame contains is left  *)
(* to SegmentedTransfer; here a frame is what it makes this node do.       *)
(***************************************************************************)
EXTENDS Integers, Sequences, FiniteSets, SequencesExt, Lists

CONSTANTS
  QUEUE,            \* CONVERGENCE_LAYER_QUEUE: ticket blocks
  QUEUE_FREE,       \* CONVERGENCE_LAYER_QUEUE_FREE: blocks kept for priority tickets
  RETRIES,          \* CONVERGENCE_LAYER_RETRIES
  FAILED_RETRIES,   \* CONVERGENCE_LAYER_FAILED_RETRIES
  RETRANSMIT_TRIES, \* CONVERGENCE_LAYER_RETRANSMIT_TRIES
  Nodes,            \* link addresses of peers
  Udp,              \* the peers reached over dgram:udp
  Bundles,          \* bundle numbers
  MaxSegments,      \* bound: segments of one bundle
  Outcomes,         \* what the MAC reports of a frame
  Sources,          \* bound: the peers whose data frames arrive
  Kinds,            \* bound: the data frames that arrive: single, first, middle, last
  AckTypes,         \* bound: the acknowledgements that arrive: ack, nack, tempnack
  Faults,           \* which failing paths the environment takes, see below
  None              \* no node, no bundle, no block

ASSUME SizeAssumption ==
  /\ QUEUE \in Nat \ {0} /\ QUEUE_FREE \in 0 .. QUEUE
  /\ RETRIES \in Nat \ {0} /\ FAILED_RETRIES \in Nat \ {0}
  /\ RETRANSMIT_TRIES \in Nat \ {0} /\ MaxSegments \in Nat \ {0}
ASSUME NodeAssumption ==
  /\ Udp \subseteq Nodes /\ Sources \subseteq Nodes
  /\ None \notin Nodes /\ None \notin Bundles /\ None \notin Nat
ASSUME EnvironmentAssumption ==
  /\ Outcomes \subseteq {"ok", "noack", "nosend", "fatal"}
  /\ Kinds \subseteq {"single", "first", "middle", "last"}
  /\ AckTypes \subseteq {"ack", "nack", "tempnack"}
  /\ Faults \subseteq {"unsendable",      \* a bundle cannot be encoded, or is expired and locked
                       "unreadable",      \* the storage cannot read a bundle back
                       "routing_deletes"} \* routing deletes the bundle in its callback

Blocks == 1 .. QUEUE
Tasks == {"cl", "rx"}   \* the tasks that may block in netconn_sendto
Flag == {"active", "transit", "ackpend", "done", "fail",
         "ack", "nack", "tempnack", "multipart", "recv"}

\* left segments are not acknowledged yet, and the first of them has been sent or
\* not (offset_sent > offset_acked); due: the timestamp is older than the timeout
\* that applies to the ticket.
Ticket == [flags : SUBSET Flag, nb : Nodes \cup {None}, bundle : Bundles \cup {None},
           left : 0 .. MaxSegments, sent : BOOLEAN,
           tries : Nat, failed : Nat, due : BOOLEAN]

\* What memset(ticket, 0, sizeof) leaves behind.
Blank == [flags |-> {}, nb |-> None, bundle |-> None, left |-> 0,
          sent |-> FALSE, tries |-> 0, failed |-> 0, due |-> FALSE]

VARIABLES
  pool,     \* transmission_ticket_mem, _list and the two counters kept beside them
  blocked,  \* blocked_neighbour_list: [nb, old], old once CONVERGENCE_LAYER_TIMEOUT has passed
  sem,      \* transmit_reqest_sem
  backoff,  \* convergence_layer_backoff_pending
  clpc,     \* where the CL task blocks: "wait" on the semaphore or in its "backoff" delay
  flight,   \* the ticket whose datagram each task is sending over UDP
  crashed   \* a NULL ticket has been written to

vars == <<pool, blocked, sem, backoff, clpc, flight, crashed>>

(***************************************************************************)
(* Tickets                                                                 *)
(***************************************************************************)
Queued(tk) == tk.flags \cap {"active", "done", "fail"} # {}
IsAck(tk) == tk.flags \cap {"ack", "nack", "tempnack"} # {}
Full(p) == p.used = Blocks
Awaiting(p, n) == {t \in p.used : p.ticket[t].nb = n /\ "ackpend" \in p.ticket[t].flags}
TicketsOf(p, b) == {t \in p.used : p.ticket[t].bundle = b}

\* Normal priority leaves QUEUE_FREE blocks alone.  (Mutant: off by one.)
SlotForBundleTooLate(p) == QUEUE - p.slots >= QUEUE_FREE /\ ~Full(p)
SlotForBundle(p) == QUEUE - p.slots > QUEUE_FREE /\ ~Full(p)

\* memb_alloc takes the first free block.
NextFree(p) == CHOOSE t \in Blocks \ p.used : \A u \in Blocks \ p.used : t <= u

\* A new ticket: appended for normal priority, pushed to the front for high.
\* (Mutant: always pushed to the front.)
AllocInFront(p, tk, high) ==
  LET t == NextFree(p)
  IN [ticket |-> [p.ticket EXCEPT ![t] = tk], used |-> p.used \cup {t},
      list |-> <<t>> \o p.list, slots |-> p.slots + 1, queue |-> p.queue]
Alloc(p, tk, high) ==
  LET t == NextFree(p)
  IN [ticket |-> [p.ticket EXCEPT ![t] = tk],
      used   |-> p.used \cup {t},
      list   |-> IF high THEN <<t>> \o p.list ELSE Append(p.list, t),
      slots  |-> p.slots + 1,
      queue  |-> p.queue]

ListWithout(list, F) == Select(list, {i \in DOMAIN list : list[i] \notin F})

\* Mutants of FreeAll: every ticket counts as queued; the list keeps the block.
FreeAllUnqueue(p, F) ==
  [ticket |-> [t \in Blocks |-> IF t \in F THEN Blank ELSE p.ticket[t]],
   used |-> p.used \ F, list |-> ListWithout(p.list, F),
   slots |-> p.slots - Cardinality(F), queue |-> p.queue - Cardinality(F)]
FreeAllStayListed(p, F) ==
  [ticket |-> [t \in Blocks |-> IF t \in F THEN Blank ELSE p.ticket[t]],
   used |-> p.used \ F, list |-> p.list, slots |-> p.slots - Cardinality(F),
   queue |-> p.queue - Cardinality({t \in F : Queued(p.ticket[t])})]

\* convergence_layer_dgram_free_transmit_ticket, called once for every block of F.
\* The counters move whether or not the block was allocated.
FreeAll(p, F) ==
  [ticket |-> [t \in Blocks |-> IF t \in F THEN Blank ELSE p.ticket[t]],
   used   |-> p.used \ F,
   list   |-> ListWithout(p.list, F),
   slots  |-> p.slots - Cardinality(F),
   queue  |-> p.queue - Cardinality({t \in F : Queued(p.ticket[t])})]

Put(p, t, tk) == [p EXCEPT !.ticket = [p.ticket EXCEPT ![t] = tk]]

\* t is the first ticket of the list that belongs to S.
IsFirst(p, t, S) ==
  \E i \in DOMAIN p.list : /\ p.list[i] = t /\ t \in S
                           /\ \A j \in 1 .. i - 1 : p.list[j] \notin S

(***************************************************************************)
(* The lock on a neighbour that owes an application layer acknowledgement  *)
(***************************************************************************)
\* (Mutants: any lock blocks everybody; no lock blocks anybody.)
IsBlockedByAny(n) == blocked # <<>>
IsNeverBlocked(n) == FALSE
IsBlocked(n) == \E i \in DOMAIN blocked : blocked[i].nb = n
SetBlocked(bl, n) == IF Len(bl) < QUEUE THEN Append(bl, [nb |-> n, old |-> FALSE]) ELSE bl
SetUnblocked(bl, n) ==
  LET mine == {i \in DOMAIN bl : bl[i].nb = n}
  IN IF mine = {} THEN bl
     ELSE RemoveAt(bl, CHOOSE i \in mine : \A j \in mine : i <= j)

(***************************************************************************)
(* ROUTING.sent: routing always gives the ticket back.  When it decides    *)
(* that the bundle has reached enough nodes, or cannot be sent at all, it  *)
(* first deletes the bundle, which makes the agent call                    *)
(* convergence_layer_dgram_delete_bundle, and frees the ticket once more.  *)
(***************************************************************************)
RoutingSent(p, t, status) ==
  LET deleted == FreeAll(p, TicketsOf(p, p.ticket[t].bundle))
      mayDelete == /\ p.ticket[t].bundle # None
                   /\ \/ status = "error"
                      \/ status \in {"ok", "nack"} /\ "routing_deletes" \in Faults
  IN {FreeAll(p, {t})} \cup IF mayDelete THEN {FreeAll(deleted, {t})} ELSE {}

(***************************************************************************)
(* convergence_layer_dgram_status: the MAC's report on the frame of t      *)
(***************************************************************************)
AckStatus(p, t, o) ==
  LET tk == p.ticket[t]
      tried == [tk EXCEPT !.flags = @ \ {"transit"}, !.tries = @ + 1,
                          !.failed = @ + (IF o = "nosend" THEN 1 ELSE 0),
                          !.due = (o = "nosend")]
  IN IF o \in {"ok", "fatal"} \/ tried.tries >= RETRANSMIT_TRIES \/ tried.failed >= FAILED_RETRIES
     THEN {FreeAll(p, {t})} ELSE {Put(p, t, tried)}

BundleStatus(p, t, o) ==
  LET tk == [p.ticket[t] EXCEPT !.flags = @ \ {"transit"}]
      tried == [tk EXCEPT !.tries = @ + (IF o = "noack" THEN 1 ELSE 0),
                          !.failed = @ + (IF o = "nosend" THEN 1 ELSE 0)]
      retry == [tried EXCEPT !.flags = @ \cup {"active"}]
      given_up == [tried EXCEPT !.flags = @ \cup {"fail"}]
  IN CASE o = "ok" -> {Put(p, t, [tk EXCEPT !.flags = @ \cup {"active", "ackpend"}])}
       [] o = "fatal" -> RoutingSent(Put(p, t, tk), t, "error")
       [] OTHER -> IF tried.tries >= RETRIES \/ tried.failed >= FAILED_RETRIES
                   THEN RoutingSent(Put(p, t, given_up), t, "fail")
                   ELSE {Put(p, t, retry)}

\* The whole callback, on what the caller has already made of the pool, the
\* locks and the pending backoff.
Status(p, bl, bo, t, o) ==
  LET ack == IsAck(p.ticket[t])
  IN /\ pool' \in IF ack THEN AckStatus(p, t, o) ELSE BundleStatus(p, t, o)
     /\ blocked' = IF ack \/ o = "ok" THEN bl ELSE SetUnblocked(bl, p.ticket[t].nb)
     /\ backoff' = (bo \/ o = "nosend")
     /\ sem' = 1

(***************************************************************************)
(* Handing the frame of ticket t to its link adapter.  dgram:lowpan        *)
(* reports before it returns; dgram:udp leaves the task blocked.           *)
(***************************************************************************)
Transmit(task, p, bl, bo, t, given) ==
  IF p.ticket[t].nb \in Udp
  THEN /\ pool' = p /\ blocked' = bl /\ backoff' = bo /\ sem' = given
       /\ flight' = [flight EXCEPT ![task] = t]
  ELSE /\ \E o \in Outcomes : Status(p, bl, bo, t, o)
       /\ UNCHANGED flight

\* netconn_sendto has returned: a negative result is reported as not sent, and then
\* prepare_segmentation advances offset_sent if nothing sent is left unacknowledged.
UdpSent(task) ==
  /\ flight[task] # None
  /\ LET t == flight[task]
         segment == task = "cl" /\ "multipart" \in pool.ticket[t].flags
         tk == [pool.ticket[t] EXCEPT !.sent = @ \/ segment]
     IN \E o \in {"ok", "nosend"} : Status(Put(pool, t, tk), blocked, backoff, t, o)
  /\ flight' = [flight EXCEPT ![task] = None]
  /\ UNCHANGED <<clpc, crashed>>

\* Tasks below the priority of the lwIP thread wait while a datagram is being sent.
NoFlight == \A task \in Tasks : flight[task] = None

(***************************************************************************)
(* The routing task queues a bundle (one ticket per bundle: its entry is   *)
(* IN_TRANSIT until the callback).                                         *)
(***************************************************************************)
EnqueueBundle(n, b) ==
  /\ NoFlight
  /\ TicketsOf(pool, b) = {}
  /\ SlotForBundle(pool)
  /\ LET tk == [Blank EXCEPT !.flags = {"active"}, !.nb = n, !.bundle = b]
         p == Alloc(pool, tk, FALSE)
     IN pool' = [p EXCEPT !.queue = @ + 1]
  /\ sem' = 1
  /\ UNCHANGED <<blocked, backoff, clpc, flight, crashed>>

(***************************************************************************)
(* The CL task: one pass over the ticket list, up to the first frame sent  *)
(***************************************************************************)
CLReady == flight["cl"] = None /\ (clpc = "backoff" \/ (sem = 1 /\ ~backoff))
SemLeft == IF clpc = "wait" THEN 0 ELSE sem

AckDue(t) == /\ pool.ticket[t].flags \cap {"ack", "nack"} # {}
             /\ "transit" \notin pool.ticket[t].flags
             /\ pool.ticket[t].due
BundleDue(t) == /\ "active" \in pool.ticket[t].flags
                /\ "transit" \notin pool.ticket[t].flags
                /\ ~IsBlocked(pool.ticket[t].nb)
Unencoded(t) == BundleDue(t) /\ ~AckDue(t) /\ "multipart" \notin pool.ticket[t].flags
Due == {t \in pool.used : AckDue(t) \/ BundleDue(t)}
\* Due tickets the pass steps over because prepare_segmentation returns an error.
Skippable == IF "unsendable" \in Faults THEN {t \in Due : Unencoded(t)} ELSE {}
Chosen(t) == \E skipped \in SUBSET Skippable : IsFirst(pool, t, Due \ skipped)

\* A retry that did not send makes the task pause for a millisecond first.
CLBackoff ==
  /\ flight["cl"] = None /\ clpc = "wait" /\ sem = 1 /\ backoff
  /\ sem' = 0 /\ clpc' = "backoff"
  /\ UNCHANGED <<pool, blocked, backoff, flight, crashed>>

CLNothingToSend ==
  /\ CLReady /\ Due \ Skippable = {}
  /\ sem' = SemLeft /\ clpc' = "wait" /\ backoff' = FALSE
  /\ UNCHANGED <<pool, blocked, flight, crashed>>

\* convergence_layer_dgram_resend_ack
CLResendAck(t) ==
  /\ CLReady /\ Chosen(t) /\ AckDue(t)
  /\ LET tk == [pool.ticket[t] EXCEPT !.flags = @ \cup {"transit"}, !.due = FALSE]
     IN Transmit("cl", Put(pool, t, tk), blocked, FALSE, t, SemLeft)
  /\ clpc' = "wait" /\ UNCHANGED crashed

\* convergence_layer_dgram_prepare_segmentation, as far as it sends: a bundle of
\* more than one segment is encoded once, any other one again for each attempt.
CLSendBundle(t, segments) ==
  /\ CLReady /\ Chosen(t) /\ BundleDue(t) /\ ~AckDue(t)
  /\ LET tk == pool.ticket[t]
         first == [tk EXCEPT !.flags = @ \cup (IF segments > 1 THEN {"multipart"} ELSE {}),
                             !.left = segments, !.sent = FALSE]
         encoded == IF "multipart" \in tk.flags THEN tk ELSE first
         frame == [encoded EXCEPT !.flags = @ \cup {"transit"}, !.sent = @ \/ tk.nb \notin Udp]
     IN Transmit("cl", Put(pool, t, frame), SetBlocked(blocked, tk.nb), FALSE, t, SemLeft)
  /\ clpc' = "wait" /\ UNCHANGED crashed

\* An expired bundle is deleted from the storage, which frees its tickets.  So is
\* one that cannot be read back, and then its ticket is freed once more.
CLDropBundle(t) ==
  /\ CLReady /\ Chosen(t) /\ Unencoded(t)
  /\ LET p == FreeAll(pool, TicketsOf(pool, pool.ticket[t].bundle))
     IN pool' \in {p} \cup IF "unreadable" \in Faults THEN {FreeAll(p, {t})} ELSE {}
  /\ sem' = SemLeft /\ clpc' = "wait" /\ backoff' = FALSE
  /\ UNCHANGED <<blocked, flight, crashed>>

(***************************************************************************)
(* Incoming data: the pools parse_dataframe may leave behind, and the      *)
(* acknowledgement each of them earns                                      *)
(***************************************************************************)
Receiving(p, n) == {t \in p.used : p.ticket[t].nb = n /\ "recv" \in p.ticket[t].flags}

\* Dispatching may make the storage delete another bundle to make room.
Dispatched(p) ==
  [pool : {p} \cup {FreeAll(p, TicketsOf(p, b)) : b \in Bundles}, reply : {"ack", "tempnack"}]
    \cup [pool : {p}, reply : {"nack"}]

FirstSegment(p, n) ==
  LET synced == FreeAll(p, Receiving(p, n))
      tk == [Blank EXCEPT !.flags = {"recv"}, !.nb = n]
  IN {[pool |-> synced, reply |-> "tempnack"]} \cup
     IF Full(synced) THEN {} ELSE {[pool |-> Alloc(synced, tk, TRUE), reply |-> "ack"]}

NextSegment(p, n, last) ==
  LET mine == Receiving(p, n)
      touched == [p EXCEPT !.ticket = [t \in Blocks |->
                     IF t \in mine THEN [p.ticket[t] EXCEPT !.due = FALSE] ELSE p.ticket[t]]]
  IN IF mine = {} THEN [pool : {p}, reply : {"ack", "tempnack"}]
     ELSE {[pool |-> p, reply |-> "ack"],                           \* out of sequence
           [pool |-> FreeAll(p, mine), reply |-> "tempnack"]} \cup  \* out of memory
          IF last THEN Dispatched(FreeAll(p, mine)) ELSE {[pool |-> touched, reply |-> "ack"]}

Parsed(p, n, kind) == CASE kind = "single" -> Dispatched(p)
                        [] kind = "first" -> FirstSegment(p, n)
                        [] OTHER -> NextSegment(p, n, kind = "last")

\* The frame is parsed and answered with a ticket of high priority; without a free
\* block send_ack writes through a NULL pointer.
DataFrame(n, kind) ==
  /\ n \in Udp => flight["rx"] = None
  /\ \E r \in Parsed(pool, n, kind) :
       IF Full(r.pool)
       THEN crashed' = TRUE /\ UNCHANGED <<pool, blocked, sem, backoff, flight>>
       ELSE LET tk == [Blank EXCEPT !.flags = {r.reply, "transit"}, !.nb = n]
            IN /\ Transmit("rx", Alloc(r.pool, tk, TRUE), blocked, backoff, NextFree(r.pool), sem)
               /\ UNCHANGED crashed
  /\ UNCHANGED clpc

(***************************************************************************)
(* convergence_layer_dgram_parse_ackframe: the acknowledgement is credited *)
(* to the first ticket of this neighbour that awaits one.  Only a bundle   *)
(* of several segments looks at the sequence number (expected).            *)
(***************************************************************************)
IsFinal(tk) == tk.sent /\ tk.left <= 1

\* offset_acked = offset_sent: only a segment that has been sent since the last
\* acknowledgement is taken off.  (Mutant: any acknowledgement takes one off.)
AdvancedAnyway(tk) == [tk EXCEPT !.left = @ - 1, !.sent = FALSE, !.tries = 0, !.failed = 0]
Advanced(tk) == [tk EXCEPT !.left = @ - (IF tk.sent THEN 1 ELSE 0), !.sent = FALSE,
                           !.tries = 0, !.failed = 0]

Closed(t, flag, status) ==
  RoutingSent(Put(pool, t, [pool.ticket[t] EXCEPT !.flags = {flag}]), t, status)

Credited(t, type, expected) ==
  LET tk == pool.ticket[t]
      segment == type = "ack" /\ "multipart" \in tk.flags
  IN \/ segment /\ ~expected /\ UNCHANGED pool
     \/ segment /\ expected /\ ~IsFinal(tk) /\ pool' = Put(pool, t, Advanced(tk))
     \/ type = "ack" /\ (segment => expected /\ IsFinal(tk)) /\ pool' \in Closed(t, "done", "ok")
     \/ type \in {"nack", "tempnack"} /\ pool' \in Closed(t, "fail", type)

\* (Mutant: only a ticket that awaits it makes an acknowledgement wake the CL task.)
AckFrameUnheard(n, type, expected) ==
  /\ n \in Udp => flight["rx"] = None
  /\ blocked' = SetUnblocked(blocked, n) /\ sem' = IF Awaiting(pool, n) = {} THEN sem ELSE 1
  /\ \/ Awaiting(pool, n) = {} /\ UNCHANGED pool
     \/ \E t \in Awaiting(pool, n) : IsFirst(pool, t, Awaiting(pool, n)) /\ Credited(t, type, expected)
  /\ UNCHANGED <<backoff, clpc, flight, crashed>>
AckFrame(n, type, expected) ==
  /\ n \in Udp => flight["rx"] = None
  /\ blocked' = SetUnblocked(blocked, n) /\ sem' = 1
  /\ \/ Awaiting(pool, n) = {} /\ UNCHANGED pool
     \/ \E t \in Awaiting(pool, n) : IsFirst(pool, t, Awaiting(pool, n)) /\ Credited(t, type, expected)
  /\ UNCHANGED <<backoff, clpc, flight, crashed>>

(***************************************************************************)
(* The agent: a bundle leaves the storage, or a neighbour is gone.  The    *)
(* latter fails the tickets of that neighbour, and drops every bundle      *)
(* being received, from whichever peer.                                    *)
(***************************************************************************)
DeleteBundle(b) ==
  /\ NoFlight /\ TicketsOf(pool, b) # {}
  /\ pool' = FreeAll(pool, TicketsOf(pool, b))
  /\ UNCHANGED <<blocked, sem, backoff, clpc, flight, crashed>>

NeighbourDown(n) ==
  LET dropped == {t \in pool.used : /\ "ackpend" \notin pool.ticket[t].flags
                                    /\ "recv" \in pool.ticket[t].flags \/ pool.ticket[t].nb = n}
  IN /\ NoFlight /\ (dropped # {} \/ IsBlocked(n))
     /\ pool' = FreeAll(pool, dropped) /\ blocked' = SetUnblocked(blocked, n)
     /\ UNCHANGED <<sem, backoff, clpc, flight, crashed>>

(***************************************************************************)
(* Time, and the CL TIMEOUTS task.  It has the lowest priority: it runs    *)
(* when the CL task is blocked and no datagram is being sent.              *)
(***************************************************************************)
TimesOut(tk) == tk.flags \cap {"ack", "nack", "tempnack", "recv"} # {} /\ "transit" \notin tk.flags
Elapse(t) ==
  /\ t \in pool.used /\ TimesOut(pool.ticket[t]) /\ ~pool.ticket[t].due
  /\ pool' = Put(pool, t, [pool.ticket[t] EXCEPT !.due = TRUE])
  /\ UNCHANGED <<blocked, sem, backoff, clpc, flight, crashed>>
\* Locks are set in the order of the list, so they age in that order.
ElapseLock ==
  /\ \E i \in DOMAIN blocked :
       /\ ~blocked[i].old /\ \A j \in 1 .. i - 1 : blocked[j].old
       /\ blocked' = [blocked EXCEPT ![i].old = TRUE]
  /\ UNCHANGED <<pool, sem, backoff, clpc, flight, crashed>>

\* Mutants: a lock nobody waits behind stays; the ticket looked for is the sender's.
StaleAwaited(bl) == {i \in DOMAIN bl : bl[i].old /\ Awaiting(pool, bl[i].nb) # {}}
ExpiredSending(p) == {t \in p.used : "multipart" \in p.ticket[t].flags /\ p.ticket[t].due}
Stale(bl) == {i \in DOMAIN bl : bl[i].old}
Expired(p) == {t \in p.used : "recv" \in p.ticket[t].flags /\ p.ticket[t].due}

CheckTimeouts ==
  LET stale == Stale(blocked)
      n == blocked[CHOOSE i \in stale : \A j \in stale : i <= j].nb
  IN /\ NoFlight /\ (sem = 0 \/ clpc = "backoff") /\ (stale # {} \/ Expired(pool) # {})
     /\ blocked' = IF stale = {} THEN blocked ELSE SetUnblocked(blocked, n)
     /\ sem' = IF stale # {} /\ Awaiting(pool, n) # {} THEN 1 ELSE sem
     /\ pool' = FreeAll(pool, Expired(pool))
     /\ UNCHANGED <<backoff, clpc, flight, crashed>>

\* The MAC's report on a discovery beacon only wakes the CL task.
SendDiscovery ==
  /\ NoFlight /\ sem' = 1
  /\ UNCHANGED <<pool, blocked, backoff, clpc, flight, crashed>>

-----------------------------------------------------------------------------
Init ==
  /\ pool = [ticket |-> [t \in Blocks |-> Blank], used |-> {}, list |-> <<>>,
             slots |-> 0, queue |-> 0]
  /\ blocked = <<>> /\ sem = 0 /\ backoff = FALSE /\ clpc = "wait"
  /\ flight = [task \in Tasks |-> None] /\ crashed = FALSE

CLTask ==
  \/ CLBackoff \/ CLNothingToSend
  \/ \E t \in pool.used : \/ CLResendAck(t) \/ CLDropBundle(t)
                         \/ \E segments \in 1 .. MaxSegments : CLSendBundle(t, segments)
DataArrives == \E n \in Sources, kind \in Kinds : DataFrame(n, kind)
AckArrives == \E n \in Nodes, type \in AckTypes, expected \in BOOLEAN :
                AckFrame(n, type, expected)
Upper == \/ \E n \in Nodes : NeighbourDown(n) \/ \E b \in Bundles : EnqueueBundle(n, b)
         \/ \E b \in Bundles : DeleteBundle(b)
Clock == (\E t \in Blocks : Elapse(t)) \/ ElapseLock

\* A write through a NULL ticket is a hard fault: nothing runs after it.
Next ==
  /\ ~crashed
  /\ \/ CLTask \/ (\E task \in Tasks : UdpSent(task)) \/ CheckTimeouts \/ SendDiscovery
     \/ DataArrives \/ AckArrives \/ Upper \/ Clock

Spec == Init /\ [][Next]_vars

(***************************************************************************)
(* The scheduler runs the CL task whenever it is ready, a datagram is sent *)
(* in bounded time, time passes, and the timeout task gets its turn        *)
(* between the wake-ups of the CL task.                                    *)
(***************************************************************************)
Progress ==
  /\ WF_vars(~crashed /\ CLTask)
  /\ \A task \in Tasks : WF_vars(~crashed /\ UdpSent(task))
  /\ WF_vars(~crashed /\ \E t \in Blocks : Elapse(t)) /\ WF_vars(~crashed /\ ElapseLock)
  /\ SF_vars(~crashed /\ CheckTimeouts)

\* With the lowpan link a beacon is sent every few seconds.
FairSpec == Spec /\ Progress /\ WF_vars(~crashed /\ SendDiscovery)
-----------------------------------------------------------------------------
(***************************************************************************)
(* Safety                                                                  *)
(***************************************************************************)
\* The types of the state; ListMatches says what the list holds.
IsPool(p) ==
  /\ p = [ticket |-> p.ticket, used |-> p.used, list |-> p.list, slots |-> p.slots, queue |-> p.queue]
  /\ p.ticket \in [Blocks -> Ticket] /\ p.used \subseteq Blocks
  /\ p.slots \in Int /\ p.queue \in Int
TypeOK ==
  /\ IsPool(pool)
  /\ blocked \in Seq([nb : Nodes \cup {None}, old : BOOLEAN])
  /\ sem \in 0 .. 1 /\ backoff \in BOOLEAN /\ clpc \in {"wait", "backoff"}
  /\ flight \in [Tasks -> Blocks \cup {None}] /\ crashed \in BOOLEAN

\* convergence_layer_slots and convergence_layer_queue, which every path that
\* allocates, queues or frees a ticket adjusts by hand, agree with the tickets that
\* are allocated and queued: admission of new bundles is decided by the first.
CountersAgree ==
  /\ pool.slots = Cardinality(pool.used)
  /\ pool.queue = Cardinality({t \in pool.used : Queued(pool.ticket[t])})

\* Bundles never take the blocks that are kept for acknowledgements and reception,
\* however allocations of both priorities and frees are interleaved.
BundleTickets == {t \in pool.used : pool.ticket[t].bundle # None}
ReserveKept == Cardinality(BundleTickets) <= QUEUE - QUEUE_FREE

\* A neighbour owes at most one application layer acknowledgement at a time, across
\* lock timeouts, retries and new bundles: parse_ackframe credits what arrives to
\* the first ticket of that neighbour that awaits one.
OneAwaited == \A n \in Nodes : Cardinality(Awaiting(pool, n)) <= 1

\* The ticket list and the block pool hold the same tickets, each once, although
\* callbacks free tickets while other tasks still refer to them.
ListMatches == IsInjective(pool.list) /\ Range(pool.list) = pool.used

\* No neighbour is locked twice: set_unblocked removes one lock only, so a second one
\* would hold up the neighbour after its acknowledgement.
LockedOnce == \A i, j \in DOMAIN blocked : blocked[i].nb = blocked[j].nb => i = j

(***************************************************************************)
(* Liveness, once nothing new arrives and unless the node has crashed      *)
(***************************************************************************)
Quiet == []~crashed /\ <>[][~(DataArrives \/ AckArrives \/ Upper)]_vars
Holds(t, flags) == t \in pool.used /\ pool.ticket[t].flags \cap flags # {}

\* A ticket for an ACK or a NACK, or for a bundle being received, is given back:
\* it is sent, given up after RETRANSMIT_TRIES, or timed out.  (A temporary NACK that
\* the MAC has not acknowledged is not: AckDue passes it over.)
Transient == {"ack", "nack", "recv"}
TransientFreed == Quiet => \A t \in Blocks : Holds(t, Transient) ~> ~Holds(t, Transient)

\* A neighbour that never acknowledges is released by the timeout task, whether or
\* not the ticket it was locked for still exists.
LockReleased == Quiet => \A n \in Nodes : IsBlocked(n) ~> ~IsBlocked(n)

\* The oldest bundle for a neighbour is tried or dropped, although the frames of another
\* neighbour are sent again without end, and if a bundle that is gone has left the lock
\* behind.  Those queued behind it may wait for ever: a bundle whose frames arrive but are
\* never answered is sent again and again, since its tries are not counted then.
Oldest(t) == IsFirst(pool, t, {u \in BundleTickets : pool.ticket[u].nb = pool.ticket[t].nb})
Untried(t) == /\ Oldest(t) /\ pool.ticket[t].flags \cap {"transit", "ackpend"} = {}
              /\ pool.ticket[t].tries = 0 /\ pool.ticket[t].failed = 0
OldestIsTried == Quiet => \A t \in Blocks : Untried(t) ~> ~Untried(t)

(***************************************************************************)
(* Wake-ups.  They are asked of single steps: a beacon that comes by makes *)
(* up for a wake-up that was lost, after seconds.                          *)
(***************************************************************************)
\* The CL task waits although it could send this bundle.
Overlooked(t) ==
  clpc = "wait" /\ sem = 0 /\ flight["cl"] = None /\ t \in pool.used /\ BundleDue(t)
Released(n) == IsBlocked(n) /\ ~IsBlocked(n)'

\* No step puts the CL task to sleep before a bundle it could send, or lets a bundle become
\* sendable without waking it, but these: a pass over the list ends at a bundle that has
\* expired, and a lock goes with its neighbour or without a bundle that it was for.
WakeUpsKept ==
  [][\A t \in Blocks : Overlooked(t)' /\ ~Overlooked(t) =>
       \/ \E u \in Blocks : CLDropBundle(u)
       \/ \E n \in Nodes : \/ NeighbourDown(n)
                           \/ CheckTimeouts /\ Released(n) /\ Awaiting(pool, n) = {}]_vars
=============================================================================
