------------------------- MODULE SegmentedTransfer -------------------------
(***************************************************************************)
(* The transfer of bundles from one node to one neighbour: segmentation    *)
(* and the stop-and-wait protocol of convergence_layer_dgram.c with its    *)
(* few sequence numbers.  Both ends are here, and the frames between them; *)
(* how a node schedules its tickets and counts its retries is left to      *)
(* ConvergenceLayer.                                                       *)
(*                                                                         *)
(* A segment is <<bundle, its number>>.  A received bundle is the sequence *)
(* of the segments in the buffer that is handed to dispatching.            *)
(***************************************************************************)
EXTENDS Integers, Sequences

CONSTANTS
  Links,     \* the link adapters: lowpan, udp
  Space,     \* next_seqno counts modulo Space[link]
  Bundles,   \* the bundles routing gives to this neighbour
  Segments,  \* the number of segments each is cut into
  Faults,    \* what else the environment does, see below
  Channel,   \* bound: frames in the air in each direction
  None       \* no ticket

ASSUME LinkAssumption ==
  /\ Links \subseteq {"lowpan", "udp"} /\ Space \in [Links -> Nat \ {0, 1}]
  /\ Faults \subseteq {"unseen",       \* the MAC acknowledgement of a frame is lost
                       "late",         \* an acknowledgement takes longer than the lock
                       "repeated",     \* an acknowledgement is received twice
                       "last_refused"} \* a last segment is refused
ASSUME BundleAssumption ==
  Segments \in [Bundles -> Nat \ {0}] /\ Channel \in Nat \ {0}

\* What the variables hold: fields of struct transmit_ticket_t of a ticket to send and of
\* one that receives, and those of the header of a frame.
Segment == Bundles \X Nat
Ticket == [bundle : Bundles, multi : BOOLEAN, seq : Nat, acked : Nat, done : Nat, pend : BOOLEAN]
Reception == [seq : Nat, buf : Seq(Segment)]
DataFrame == [seq : Nat, first : BOOLEAN, last : BOOLEAN, seg : Segment]
AckFrame == [kind : {"ack", "nack", "tempnack"}, seq : Nat]

ASSUME NoneAssumption == None \notin Ticket \cup Reception \cup {"ok", "failed", "unseen", "dropped"}

VARIABLES
  link,      \* the adapter the neighbour is reached by
  todo,      \* bundles routing still wants to send
  tk,        \* the ticket being served
  out,       \* outgoing_sequence_number
  locked,    \* the neighbour is in blocked_neighbour_list
  sending,   \* the attempt netconn_sendto has not returned from
  data,      \* data frames in the air
  acks,      \* acknowledgements in the air
  rx,        \* the receiver's MULTIPART_RECV ticket: its sequence number and buffer
  last,      \* last_multipart_seqno
  accepted,  \* the buffers dispatching has taken
  sent       \* bundles reported to routing as ROUTING_STATUS_OK

sender == <<link, todo, tk, out, locked, sending, sent>>
receiver == <<rx, last, accepted>>
vars == <<sender, data, acks, receiver>>

NextSeq(s) == (s + 1) % Space[link]
Whole(b) == [i \in 1 .. Segments[b] |-> <<b, i>>]
Prompt == "late" \notin Faults

(***************************************************************************)
(* The sender                                                              *)
(***************************************************************************)
\* A ticket at the head of the list; acked and done count the segments up to
\* offset_acked and offset_sent, multi says that it is encoded and numbered.
Enqueue(b) ==
  /\ tk = None /\ sending = None /\ b \in todo
  /\ tk' = [bundle |-> b, multi |-> FALSE, seq |-> 0, acked |-> 0, done |-> 0, pend |-> FALSE]
  /\ UNCHANGED <<link, todo, out, locked, sending, sent, data, acks, receiver>>

\* The ticket as prepare_segmentation hands its next segment to the link: a bundle of
\* several segments takes the next number when all it has sent is acknowledged.
\* (Mutant: at every attempt.)
FirstLook(t) == ~t.multi
NumberedAnew(t) ==
  IF FirstLook(t) THEN [t EXCEPT !.seq = out, !.multi = Segments[t.bundle] > 1]
  ELSE [t EXCEPT !.seq = IF t.done > 0 THEN NextSeq(@) ELSE @]
Numbered(t) ==
  IF FirstLook(t) THEN [t EXCEPT !.seq = out, !.multi = Segments[t.bundle] > 1]
  ELSE [t EXCEPT !.seq = IF t.done = t.acked /\ t.done > 0 THEN NextSeq(@) ELSE @]
Reserved(t) == IF FirstLook(t) THEN NextSeq(out + Segments[t.bundle] - 1) ELSE out
Frame(t) == [seq |-> t.seq, first |-> t.acked = 0, last |-> t.acked + 1 = Segments[t.bundle],
             seg |-> <<t.bundle, t.acked + 1>>]

\* The end of prepare_segmentation: offset_sent moves on if all sent is acknowledged.
\* (Mutant: at every attempt.)
AdvancedAlways(t) == IF t.multi THEN [t EXCEPT !.done = @ + 1] ELSE t
Advanced(t) == IF t.multi /\ t.done = t.acked THEN [t EXCEPT !.done = @ + 1] ELSE t

Attempts ==
  {"ok", "failed"} \cup                                           \* failed: NOACK or NOSEND
  (IF link = "lowpan" /\ "unseen" \in Faults THEN {"unseen"} ELSE {}) \cup
  (IF link = "udp" THEN {"dropped"} ELSE {})                      \* lost, but reported as sent
Arrives(attempt) == attempt \in {"ok", "unseen"}
Succeeds(attempt) == attempt \in {"ok", "dropped"}

\* The radio reports while it sends.  A failed attempt is retried or given up.
Send(attempt) ==
  /\ tk # None /\ ~locked /\ sending = None /\ Len(data) < Channel /\ attempt \in Attempts
  /\ LET t == Numbered(tk)
     IN /\ data' = IF Arrives(attempt) THEN Append(data, Frame(t)) ELSE data
        /\ \/ link = "udp" /\ tk' = t /\ locked' = TRUE /\ sending' = attempt
           \/ /\ link = "lowpan" /\ sending' = None /\ locked' = Succeeds(attempt)
              /\ \/ tk' = Advanced([t EXCEPT !.pend = @ \/ Succeeds(attempt)])
                 \/ ~Succeeds(attempt) /\ tk' = None
  /\ out' = Reserved(tk)
  /\ UNCHANGED <<link, todo, sent, acks, receiver>>

\* netconn_sendto returns.  (What happens to a ticket that has been freed meanwhile is
\* in ConvergenceLayer.)
SendReturns ==
  /\ sending # None /\ sending' = None
  /\ locked' = (locked /\ Succeeds(sending))
  /\ IF tk = None THEN tk' = None
     ELSE \/ tk' = Advanced([tk EXCEPT !.pend = @ \/ Succeeds(sending)])
          \/ ~Succeeds(sending) /\ tk' = None
  /\ UNCHANGED <<link, todo, out, sent, data, acks, receiver>>

\* parse_ackframe.  A bundle of one segment takes any acknowledgement for its own.
\* (Mutant: the number is the one of the segment, not the next.)
MatchesSame(t, a) == t.pend /\ (t.multi => a.seq = t.seq)
Matches(t, a) == t.pend /\ (t.multi => a.seq = NextSeq(t.seq))
\* (Mutant: the last segment but one completes the bundle.)
CompleteEarly(t) == t.multi => t.done + 1 >= Segments[t.bundle]
Complete(t) == t.multi => t.done = Segments[t.bundle]

Acknowledge ==
  /\ acks # <<>> /\ acks' = Tail(acks) /\ locked' = FALSE
  /\ Prompt => sending = None
  /\ LET a == Head(acks)
     IN \/ /\ tk # None => ~tk.pend \/ (a.kind = "ack" /\ ~Matches(tk, a))
           /\ UNCHANGED <<tk, todo, sent>>
        \/ /\ tk # None /\ a.kind = "ack" /\ Matches(tk, a) /\ ~Complete(tk)
           /\ tk' = [tk EXCEPT !.acked = tk.done] /\ UNCHANGED <<todo, sent>>
        \/ /\ tk # None /\ a.kind = "ack" /\ Matches(tk, a) /\ Complete(tk)
           /\ tk' = None /\ todo' = todo \ {tk.bundle} /\ sent' = sent \cup {tk.bundle}
        \/ /\ tk # None /\ tk.pend /\ a.kind # "ack"
           /\ tk' = None /\ UNCHANGED sent
           /\ todo' = IF a.kind = "nack" THEN todo \ {tk.bundle} ELSE todo
  /\ UNCHANGED <<link, out, sending, data, receiver>>

\* check_blocked_neighbours takes the lock away after CONVERGENCE_LAYER_TIMEOUT.
LockTimeout ==
  /\ locked /\ sending = None /\ (Prompt => data = <<>> /\ acks = <<>>)
  /\ locked' = FALSE
  /\ UNCHANGED <<link, todo, tk, out, sending, sent, data, acks, receiver>>

(***************************************************************************)
(* The receiver                                                            *)
(***************************************************************************)
\* The acknowledgement is lost, arrives, or arrives twice because it was sent again.
Reply(kind, f) ==
  \E n \in 0 .. (IF "repeated" \in Faults THEN 2 ELSE 1) :
    /\ Len(acks) + n <= Channel
    /\ acks' = acks \o [i \in 1 .. n |-> [kind |-> kind, seq |-> NextSeq(f.seq)]]

\* The bundle is recovered from the buffer and stored; or it is refused, for lack of
\* memory or storage, or because it has expired.
Dispatch(buf, f) ==
  \/ Reply("ack", f) /\ accepted' = accepted \cup {buf}
  \/ /\ f.first \/ "last_refused" \in Faults
     /\ \E kind \in {"tempnack", "nack"} : Reply(kind, f)
     /\ UNCHANGED accepted

FirstSegment(f) ==
  \/ rx' = [seq |-> f.seq, buf |-> <<f.seg>>] /\ last' = f.seq /\ Reply("ack", f)
  \/ rx' = None /\ last' \in {last, f.seq} /\ Reply("tempnack", f)

\* A repeated segment after the ticket was given back is acknowledged again.
\* (Mutant: so is any other.)
UnexpectedAcked(f) == rx = None /\ Reply("ack", f) /\ UNCHANGED receiver
Unexpected(f) ==
  /\ rx = None /\ Reply(IF f.seq = last THEN "ack" ELSE "tempnack", f)
  /\ UNCHANGED receiver

\* (Mutant: any segment is appended.)
InOrderAlways(f) == rx # None
InOrder(f) == rx # None /\ f.seq = NextSeq(rx.seq)

NextSegment(f) ==
  LET buf == Append(rx.buf, f.seg)
  IN \/ rx # None /\ ~InOrder(f) /\ Reply("ack", f) /\ UNCHANGED receiver
     \/ /\ InOrder(f) /\ last' = f.seq
        /\ \/ /\ ~f.last \/ "last_refused" \in Faults                \* out of memory
              /\ rx' = None /\ Reply("tempnack", f) /\ UNCHANGED accepted
           \/ ~f.last /\ rx' = [seq |-> f.seq, buf |-> buf] /\ Reply("ack", f) /\ UNCHANGED accepted
           \/ f.last /\ rx' = None /\ Dispatch(buf, f)

Receive ==
  /\ data # <<>> /\ data' = Tail(data)
  /\ LET f == Head(data)
     IN \/ f.first /\ f.last /\ Dispatch(<<f.seg>>, f) /\ UNCHANGED <<rx, last>>
        \/ f.first /\ ~f.last /\ FirstSegment(f) /\ UNCHANGED accepted
        \/ ~f.first /\ (Unexpected(f) \/ NextSegment(f))
  /\ UNCHANGED sender

\* The reception times out: nothing has come for MULTIPART_TIMEOUT.
ReceiveTimeout ==
  /\ rx # None /\ data = <<>> /\ rx' = None
  /\ UNCHANGED <<sender, data, acks, last, accepted>>

-----------------------------------------------------------------------------
Init ==
  /\ link \in Links /\ todo = Bundles /\ tk = None /\ out = 0 /\ locked = FALSE
  /\ sending = None /\ sent = {} /\ data = <<>> /\ acks = <<>>
  /\ rx = None /\ last = 0 /\ accepted = {}

Next ==
  \/ (\E b \in Bundles : Enqueue(b)) \/ (\E attempt \in Attempts : Send(attempt)) \/ SendReturns
  \/ Acknowledge \/ LockTimeout \/ Receive \/ ReceiveTimeout

Spec == Init /\ [][Next]_vars

\* The tasks at both ends go on: tickets are served, frames received, locks expire.
Fairness ==
  /\ WF_vars(\E b \in Bundles : Enqueue(b)) /\ WF_vars(\E attempt \in Attempts : Send(attempt))
  /\ WF_vars(SendReturns) /\ WF_vars(Acknowledge) /\ WF_vars(LockTimeout) /\ WF_vars(Receive)
FairSpec == Spec /\ Fairness

-----------------------------------------------------------------------------
Numbers == 0 .. Space[link] - 1
TicketOK(t) ==
  /\ t \in Ticket /\ t.seq \in Numbers
  /\ t.acked <= t.done /\ t.acked < Segments[t.bundle] /\ t.done <= Segments[t.bundle]
FrameOK(f) ==
  /\ f.seq \in Numbers /\ f.seg[2] \in 1 .. Segments[f.seg[1]]
  /\ f.first = (f.seg[2] = 1) /\ f.last = (f.seg[2] = Segments[f.seg[1]])

\* Everything has its type: no ticket claims more segments than its bundle has, and no
\* number leaves the few bits the frame header has for it.
TypeOK ==
  /\ link \in Links /\ todo \subseteq Bundles /\ sent \subseteq Bundles
  /\ (tk # None => TicketOK(tk)) /\ out \in Numbers /\ last \in Numbers
  /\ locked \in BOOLEAN /\ sending \in Attempts \cup {None}
  /\ data \in Seq(DataFrame) /\ Len(data) <= Channel /\ \A i \in DOMAIN data : FrameOK(data[i])
  /\ acks \in Seq(AckFrame) /\ Len(acks) <= Channel /\ \A i \in DOMAIN acks : acks[i].seq \in Numbers
  /\ rx # None => rx \in Reception /\ rx.seq \in Numbers

\* What reaches dispatching is a bundle as it was sent: no segment is missing, none is
\* there twice, and none is of another bundle.
Intact == \A buf \in accepted : \E b \in Bundles : buf = Whole(b)

\* "Bundle has been ACKed and is now done": a bundle reported as sent is in the
\* storage of the neighbour, so that routing may drop its own copy.
AckedIsAccepted == \A b \in sent : Whole(b) \in accepted

\* Both, step by step: the two ends together implement ReliableTransfer.
Reliable ==
  INSTANCE ReliableTransfer
    WITH Bundles <- {Whole(b) : b \in Bundles}, stored <- accepted,
         reported <- {Whole(b) : b \in sent}
ImplementsReliable == Reliable!Spec

\* A step in which the link and the receiver work: nothing is lost or refused, and
\* neither end runs out of time.
ReceiveWell ==
  /\ Receive /\ acks' # acks
  /\ acks'[Len(acks')].kind = "ack" \/ (rx = None /\ ~Head(data).first)
Works ==
  (\E b \in Bundles : Enqueue(b)) \/ Send("ok") \/ SendReturns \/ Acknowledge \/ ReceiveWell

\* Wherever losses, refusals and timeouts have left the two ends (half a bundle in the
\* receiver's buffer, numbers that do not follow each other, an attempt given up), once
\* the link works every bundle is delivered: no disagreement about numbers lasts.
Recovers == <>[][Works]_vars => <>(todo = {})
=============================================================================
