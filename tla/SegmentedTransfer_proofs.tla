---------------------- MODULE SegmentedTransfer_proofs ----------------------
(***************************************************************************)
(* Proofs about SegmentedTransfer, for every set of bundles, every number  *)
(* of segments and every space of sequence numbers with at least two.      *)
(***************************************************************************)
EXTENDS SegmentedTransfer, SequenceTheorems, TLAPS

USE LinkAssumption, BundleAssumption

(***************************************************************************)
(* Sequence numbers                                                        *)
(***************************************************************************)
LEMMA NextSeqType == ASSUME link \in Links, NEW s \in Nat  PROVE NextSeq(s) \in Numbers
<1> DEFINE n == Space[link]
<1>1. n \in Nat \ {0, 1}
  OBVIOUS
<1> HIDE DEF n
<1>2. (s + 1) % n \in 0 .. n - 1
  BY <1>1
<1> QED
  BY <1>2 DEF NextSeq, Numbers, n

LEMMA NextSeqOther == ASSUME link \in Links, NEW s \in Numbers  PROVE NextSeq(s) # s
<1> DEFINE n == Space[link]
<1>1. n \in Nat \ {0, 1}
  OBVIOUS
<1> HIDE DEF n
<1>2. s \in 0 .. n - 1
  BY DEF n, Numbers
<1>3. CASE s = n - 1
  <2>1. (s + 1) % n = 0
    BY <1>1, <1>3
  <2> QED
    BY <1>1, <1>3, <2>1 DEF NextSeq, n
<1>4. CASE s < n - 1
  <2>1. (s + 1) % n = s + 1
    BY <1>1, <1>2, <1>4
  <2> QED
    BY <1>2, <2>1 DEF NextSeq, n
<1> QED
  BY <1>1, <1>2, <1>3, <1>4

LEMMA NumbersAreNat == ASSUME link \in Links  PROVE Numbers \subseteq Nat /\ 0 \in Numbers
  BY DEF Numbers

(***************************************************************************)
(* The type invariant is inductive as it stands, with all faults.          *)
(***************************************************************************)
LEMMA NumberedType ==
  ASSUME link \in Links, out \in Numbers, NEW t, TicketOK(t)
  PROVE  TicketOK(Numbered(t)) /\ Numbered(t).bundle = t.bundle /\ Numbered(t).acked = t.acked
         /\ Numbered(t).done = t.done /\ Numbered(t).pend = t.pend /\ Reserved(t) \in Numbers
<1>1. t \in Ticket /\ t.seq \in Nat /\ Segments[t.bundle] \in Nat \ {0}
  BY DEF TicketOK, Ticket
<1>2. NextSeq(t.seq) \in Numbers /\ out \in Nat
  BY <1>1, NextSeqType, NumbersAreNat
<1>3. NextSeq(out + Segments[t.bundle] - 1) \in Numbers
  <2>1. out + Segments[t.bundle] - 1 \in Nat
    BY <1>1, <1>2
  <2> QED
    BY <2>1, NextSeqType
<1>4. t.seq \in Numbers
  BY DEF TicketOK
<1>5. Reserved(t) \in Numbers
  BY <1>3 DEF Reserved
<1>6. NextSeq(t.seq) \in Nat
  BY <1>2, NumbersAreNat
<1>7. CASE FirstLook(t)
  <2> DEFINE m == Segments[t.bundle] > 1
  <2>1. m \in BOOLEAN
    OBVIOUS
  <2>2. Numbered(t) = [t EXCEPT !.seq = out, !.multi = m]
    BY <1>7 DEF Numbered
  <2> HIDE DEF m
  <2>3. [t EXCEPT !.seq = out, !.multi = m] \in Ticket
    BY <1>1, <1>2, <2>1 DEF Ticket
  <2> QED
    BY <1>1, <1>2, <1>5, <2>2, <2>3 DEF TicketOK, Ticket
<1>8. CASE ~FirstLook(t)
  <2> DEFINE q == IF t.done = t.acked /\ t.done > 0 THEN NextSeq(t.seq) ELSE t.seq
  <2>1. q \in Numbers /\ q \in Nat
    BY <1>1, <1>2, <1>4, <1>6
  <2>2. Numbered(t) = [t EXCEPT !.seq = q]
    BY <1>8 DEF Numbered
  <2> HIDE DEF q
  <2> QED
    BY <1>1, <1>5, <2>1, <2>2 DEF TicketOK, Ticket
<1> QED
  BY <1>7, <1>8

LEMMA AdvancedType ==
  ASSUME link \in Links, NEW t, TicketOK(t), NEW p \in BOOLEAN
  PROVE  LET a == Advanced([t EXCEPT !.pend = p])
         IN /\ TicketOK(a) /\ a.bundle = t.bundle /\ a.acked = t.acked /\ a.seq = t.seq
            /\ a.multi = t.multi /\ a.pend = p
            /\ a.done = IF t.multi /\ t.done = t.acked THEN t.done + 1 ELSE t.done
<1> DEFINE u == [t EXCEPT !.pend = p]
<1>1. t \in Ticket /\ Segments[t.bundle] \in Nat
  BY DEF TicketOK, Ticket
<1>2. /\ u \in Ticket /\ u.pend = p /\ u.bundle = t.bundle /\ u.multi = t.multi /\ u.seq = t.seq
      /\ u.acked = t.acked /\ u.done = t.done
  BY <1>1 DEF Ticket
<1> HIDE DEF u
<1>3. Advanced(u) \in Ticket
  BY <1>2 DEF Ticket, Advanced
<1> QED
  BY <1>1, <1>2, <1>3 DEF Ticket, Advanced, TicketOK, u

LEMMA FrameType ==
  ASSUME link \in Links, NEW t, TicketOK(t)
  PROVE  Frame(t) \in DataFrame /\ FrameOK(Frame(t))
<1>1. /\ t \in Ticket /\ t.acked \in Nat /\ Segments[t.bundle] \in Nat /\ t.seq \in Numbers
      /\ t.acked < Segments[t.bundle] /\ t.bundle \in Bundles /\ t.seq \in Nat
  BY DEF TicketOK, Ticket
<1>2. Frame(t) \in DataFrame
  BY <1>1 DEF Frame, DataFrame, Segment
<1>3. Frame(t).seg[1] = t.bundle /\ Frame(t).seg[2] = t.acked + 1 /\ Frame(t).seq = t.seq
  BY DEF Frame
<1> QED
  BY <1>1, <1>2, <1>3 DEF FrameOK, Frame

LEMMA EnqueueType == ASSUME TypeOK, NEW b \in Bundles, Enqueue(b)  PROVE TypeOK'
<1> DEFINE t == [bundle |-> b, multi |-> FALSE, seq |-> 0, acked |-> 0, done |-> 0, pend |-> FALSE]
<1>1. TicketOK(t)
  BY NumbersAreNat DEF TypeOK, TicketOK, Ticket
<1>2. tk' = t /\ UNCHANGED <<link, todo, out, locked, sending, sent, data, acks, receiver>>
  BY DEF Enqueue
<1> HIDE DEF t
<1> QED
  BY <1>1, <1>2 DEF TypeOK, receiver, TicketOK, FrameOK, Attempts, Numbers

LEMMA SendType == ASSUME TypeOK, NEW attempt \in Attempts, Send(attempt)  PROVE TypeOK'
<1> DEFINE t == Numbered(tk)
           a == Advanced([t EXCEPT !.pend = @ \/ Succeeds(attempt)])
<1>1. /\ TicketOK(t) /\ TicketOK(a) /\ Reserved(tk) \in Numbers /\ Frame(t) \in DataFrame /\ FrameOK(Frame(t))
  <2>1. TicketOK(t) /\ Reserved(tk) \in Numbers
    BY NumberedType DEF TypeOK, Send
  <2>2. Frame(t) \in DataFrame /\ FrameOK(Frame(t))
    BY <2>1, FrameType DEF TypeOK
  <2>3. (t.pend \/ Succeeds(attempt)) \in BOOLEAN
    BY <2>1 DEF TicketOK, Ticket
  <2>4. TicketOK(Advanced([t EXCEPT !.pend = t.pend \/ Succeeds(attempt)]))
    BY <2>1, <2>3, AdvancedType DEF TypeOK
  <2> QED
    BY <2>1, <2>2, <2>4
<1>2. /\ data' = data \/ data' = Append(data, Frame(t))
      /\ Len(data) < Channel /\ out' = Reserved(tk)
      /\ tk' \in {t, a, None} /\ locked' \in BOOLEAN /\ sending' \in {None, attempt}
      /\ UNCHANGED <<link, todo, sent, acks, receiver>>
  <2>1. /\ data' = data \/ data' = Append(data, Frame(t))
        /\ Len(data) < Channel /\ out' = Reserved(tk)
        /\ UNCHANGED <<link, todo, sent, acks, receiver>>
    BY DEF Send
  <2>2. \/ link = "udp" /\ tk' = t /\ locked' = TRUE /\ sending' = attempt
        \/ /\ link = "lowpan" /\ sending' = None /\ locked' = Succeeds(attempt)
           /\ tk' = a \/ (~Succeeds(attempt) /\ tk' = None)
    BY DEF Send
  <2>3. Succeeds(attempt) \in BOOLEAN
    BY DEF Succeeds
  <2> HIDE DEF t, a
  <2> QED
    BY <2>1, <2>2, <2>3
<1> HIDE DEF t, a
<1>3. data' \in Seq(DataFrame) /\ Len(data') <= Channel /\ \A i \in DOMAIN data' : FrameOK(data'[i])
  <2>1. CASE data' = data
    BY <2>1 DEF TypeOK
  <2>2. CASE data' = Append(data, Frame(t))
    BY <1>1, <1>2, <2>2 DEF TypeOK
  <2> QED
    BY <1>2, <2>1, <2>2
<1>4. Attempts' = Attempts /\ Numbers' = Numbers
  BY <1>2 DEF Attempts, Numbers
<1>5. \A u : TicketOK(u)' <=> TicketOK(u)
  BY <1>4 DEF TicketOK
<1> QED
  BY <1>1, <1>2, <1>3, <1>4, <1>5 DEF TypeOK, receiver, FrameOK

LEMMA SendReturnsType == ASSUME TypeOK, SendReturns  PROVE TypeOK'
<1> DEFINE a == Advanced([tk EXCEPT !.pend = @ \/ Succeeds(sending)])
<1>1. /\ UNCHANGED <<link, todo, out, sent, data, acks, receiver>> /\ sending' = None
      /\ locked' = (locked /\ Succeeds(sending)) /\ (tk' = None \/ (tk # None /\ tk' = a))
  BY DEF SendReturns
<1>2. tk # None => TicketOK(a)
  <2>1. SUFFICES ASSUME tk # None  PROVE TicketOK(a)
    OBVIOUS
  <2>2. TicketOK(tk) /\ (tk.pend \/ Succeeds(sending)) \in BOOLEAN
    BY <2>1 DEF TypeOK, TicketOK, Ticket
  <2> QED
    BY <2>2, AdvancedType DEF TypeOK
<1> HIDE DEF a
<1>3. Attempts' = Attempts /\ Numbers' = Numbers /\ locked' \in BOOLEAN
  BY <1>1 DEF Attempts, Numbers, Succeeds, TypeOK
<1>4. \A u : TicketOK(u)' <=> TicketOK(u)
  BY <1>3 DEF TicketOK
<1> QED
  BY <1>1, <1>2, <1>3, <1>4 DEF TypeOK, receiver, FrameOK

LEMMA AcknowledgeType == ASSUME TypeOK, Acknowledge  PROVE TypeOK'
<1>1. /\ acks # <<>> /\ acks' = Tail(acks) /\ locked' = FALSE
      /\ UNCHANGED <<link, out, sending, data, receiver>>
      /\ todo' \subseteq todo /\ sent' \subseteq sent \cup (IF tk = None THEN {} ELSE {tk.bundle})
      /\ \/ tk' = tk \/ tk' = None
         \/ tk # None /\ ~Complete(tk) /\ tk' = [tk EXCEPT !.acked = tk.done]
  BY DEF Acknowledge
<1>2. acks' \in Seq(AckFrame) /\ Len(acks') <= Channel /\ \A i \in DOMAIN acks' : acks'[i].seq \in Numbers
  BY <1>1 DEF TypeOK
<1>3. ASSUME tk # None, ~Complete(tk)  PROVE TicketOK([tk EXCEPT !.acked = tk.done])
  <2>1. tk \in Ticket /\ Segments[tk.bundle] \in Nat /\ tk.done < Segments[tk.bundle]
    BY <1>3 DEF TypeOK, TicketOK, Ticket, Complete
  <2>2. [tk EXCEPT !.acked = tk.done] \in Ticket
    BY <2>1 DEF Ticket
  <2> QED
    BY <1>3, <2>1, <2>2 DEF TypeOK, TicketOK, Ticket
<1>4. tk # None => tk.bundle \in Bundles
  BY DEF TypeOK, TicketOK, Ticket
<1>5. Attempts' = Attempts /\ Numbers' = Numbers
  BY <1>1 DEF Attempts, Numbers
<1>6. \A u : TicketOK(u)' <=> TicketOK(u)
  BY <1>5 DEF TicketOK
<1>7. tk' # None => TicketOK(tk')
  BY <1>1, <1>3 DEF TypeOK
<1> QED
  BY <1>1, <1>2, <1>4, <1>5, <1>6, <1>7 DEF TypeOK, receiver, FrameOK

LEMMA LockTimeoutType == ASSUME TypeOK, LockTimeout  PROVE TypeOK'
<1>1. locked' = FALSE /\ UNCHANGED <<link, todo, tk, out, sending, sent, data, acks, receiver>>
  BY DEF LockTimeout
<1>2. Attempts' = Attempts /\ Numbers' = Numbers
  BY <1>1 DEF Attempts, Numbers
<1>3. TicketOK(tk)' <=> TicketOK(tk)
  BY <1>1, <1>2 DEF TicketOK
<1> QED
  BY <1>1, <1>2, <1>3 DEF TypeOK, receiver, FrameOK

\* One answer, or none, or with the fault two.
LEMMA ReplyType ==
  ASSUME TypeOK, NEW f, f.seq \in Nat, NEW kind \in {"ack", "nack", "tempnack"}, Reply(kind, f)
  PROVE  acks' \in Seq(AckFrame) /\ Len(acks') <= Channel /\ \A i \in DOMAIN acks' : acks'[i].seq \in Numbers
<1> DEFINE r == [kind |-> kind, seq |-> NextSeq(f.seq)]
<1>1. PICK n \in 0 .. 2 : Len(acks) + n <= Channel /\ acks' = acks \o [i \in 1 .. n |-> r]
  BY SMTT(30) DEF Reply
<1>2. r \in AckFrame /\ r.seq \in Numbers
  <2>1. NextSeq(f.seq) \in Numbers /\ NextSeq(f.seq) \in Nat
    BY NextSeqType, NumbersAreNat DEF TypeOK
  <2> QED
    BY <2>1 DEF AckFrame
<1> HIDE DEF r
<1> DEFINE q == [i \in 1 .. n |-> r]
<1>3. q \in Seq(AckFrame) /\ Len(q) = n /\ \A i \in 1 .. n : q[i] = r
  BY <1>1, <1>2
<1> HIDE DEF q
<1>4. acks' = acks \o q /\ acks \in Seq(AckFrame)
  BY <1>1 DEF q, TypeOK
<1>5. /\ acks' \in Seq(AckFrame) /\ Len(acks') = Len(acks) + n
      /\ \A i \in 1 .. Len(acks) + n : acks'[i] = IF i <= Len(acks) THEN acks[i] ELSE q[i - Len(acks)]
  BY <1>3, <1>4, ConcatProperties
<1>6. ASSUME NEW i \in DOMAIN acks'  PROVE acks'[i].seq \in Numbers
  <2>1. i \in 1 .. Len(acks) + n /\ Len(acks) \in Nat
    BY <1>4, <1>5, <1>6
  <2>2. CASE i <= Len(acks)
    BY <1>5, <2>1, <2>2 DEF TypeOK
  <2>3. CASE i > Len(acks)
    <3>1. i - Len(acks) \in 1 .. n /\ acks'[i] = q[i - Len(acks)]
      BY <1>1, <1>5, <2>1, <2>3
    <3> QED
      BY <1>2, <1>3, <3>1
  <2> QED
    BY <2>1, <2>2, <2>3
<1> QED
  BY <1>1, <1>5, <1>6

LEMMA HeadFrame ==
  ASSUME TypeOK, data # <<>>
  PROVE  /\ Head(data) \in DataFrame /\ FrameOK(Head(data))
         /\ Tail(data) \in Seq(DataFrame) /\ Len(Tail(data)) <= Channel
         /\ \A i \in DOMAIN Tail(data) : FrameOK(Tail(data)[i])
<1>1. data \in Seq(DataFrame) /\ Len(data) <= Channel /\ \A i \in DOMAIN data : FrameOK(data[i])
  BY DEF TypeOK
<1>2. Head(data) = data[1] /\ 1 \in DOMAIN data
  BY <1>1
<1>3. Len(Tail(data)) = Len(data) - 1 /\ \A i \in DOMAIN Tail(data) : Tail(data)[i] = data[i + 1] /\ i + 1 \in DOMAIN data
  BY <1>1
<1> QED
  BY <1>1, <1>2, <1>3

LEMMA ReceiveType == ASSUME TypeOK, Receive  PROVE TypeOK'
<1> DEFINE f == Head(data)
<1>1. /\ f \in DataFrame /\ FrameOK(f) /\ data # <<>> /\ data' = Tail(data) /\ UNCHANGED sender
      /\ data' \in Seq(DataFrame) /\ Len(data') <= Channel /\ \A i \in DOMAIN data' : FrameOK(data'[i])
  BY HeadFrame DEF Receive
<1>2. /\ \E kind \in {"ack", "nack", "tempnack"} : Reply(kind, f)
      /\ last' \in {last, f.seq}
      /\ \/ rx' = rx \/ rx' = None
         \/ rx' = [seq |-> f.seq, buf |-> <<f.seg>>]
         \/ rx # None /\ rx' = [seq |-> f.seq, buf |-> Append(rx.buf, f.seg)]
  <2>1. CASE f.first /\ f.last /\ Dispatch(<<f.seg>>, f) /\ UNCHANGED <<rx, last>>
    BY <2>1 DEF Dispatch
  <2>2. CASE f.first /\ ~f.last /\ FirstSegment(f)
    BY <2>2 DEF FirstSegment
  <2>3. CASE ~f.first /\ Unexpected(f)
    <3>1. Reply("ack", f) \/ Reply("tempnack", f)
      BY <2>3 DEF Unexpected
    <3> QED
      BY <2>3, <3>1 DEF Unexpected, receiver
  <2>4. CASE ~f.first /\ NextSegment(f)
    BY <2>4 DEF NextSegment, Dispatch, InOrder, receiver
  <2> QED
    BY <2>1, <2>2, <2>3, <2>4 DEF Receive
<1> HIDE DEF f
<1>3. /\ f.seq \in Nat /\ f.seq \in Numbers /\ f.seg \in Segment
  BY <1>1 DEF DataFrame, FrameOK
<1>4. acks' \in Seq(AckFrame) /\ Len(acks') <= Channel /\ \A i \in DOMAIN acks' : acks'[i].seq \in Numbers
  BY <1>2, <1>3, ReplyType
<1>5. rx' # None => rx' \in Reception /\ rx'.seq \in Numbers
  <2>1. CASE rx' = rx \/ rx' = None
    BY <2>1 DEF TypeOK
  <2>2. CASE rx' = [seq |-> f.seq, buf |-> <<f.seg>>]
    BY <1>3, <2>2 DEF Reception
  <2>3. CASE rx # None /\ rx' = [seq |-> f.seq, buf |-> Append(rx.buf, f.seg)]
    BY <1>3, <2>3 DEF Reception, TypeOK
  <2> QED
    BY <1>2, <2>1, <2>2, <2>3
<1>6. Attempts' = Attempts /\ Numbers' = Numbers
  BY <1>1 DEF Attempts, Numbers, sender
<1>7. TicketOK(tk)' <=> TicketOK(tk)
  BY <1>1, <1>6 DEF TicketOK, sender
<1> QED
  BY <1>1, <1>2, <1>3, <1>4, <1>5, <1>6, <1>7 DEF TypeOK, sender, FrameOK

LEMMA ReceiveTimeoutType == ASSUME TypeOK, ReceiveTimeout  PROVE TypeOK'
<1>1. rx' = None /\ UNCHANGED <<sender, data, acks, last, accepted>>
  BY DEF ReceiveTimeout
<1>2. Attempts' = Attempts /\ Numbers' = Numbers
  BY <1>1 DEF Attempts, Numbers, sender
<1>3. TicketOK(tk)' <=> TicketOK(tk)
  BY <1>1, <1>2 DEF TicketOK, sender
<1> QED
  BY <1>1, <1>2, <1>3 DEF TypeOK, sender, FrameOK

LEMMA StutterType == ASSUME TypeOK, UNCHANGED vars  PROVE TypeOK'
<1>1. Attempts' = Attempts /\ Numbers' = Numbers
  BY DEF Attempts, Numbers, vars, sender
<1>2. TicketOK(tk)' <=> TicketOK(tk)
  BY <1>1 DEF TicketOK, vars, sender
<1> QED
  BY <1>1, <1>2 DEF TypeOK, vars, sender, receiver, FrameOK

LEMMA InitType == Init => TypeOK
<1> SUFFICES ASSUME Init  PROVE TypeOK
  OBVIOUS
<1>1. 0 \in Numbers
  BY NumbersAreNat DEF Init
<1>2. /\ data \in Seq(DataFrame) /\ Len(data) <= Channel /\ \A i \in DOMAIN data : FrameOK(data[i])
      /\ acks \in Seq(AckFrame) /\ Len(acks) <= Channel /\ \A i \in DOMAIN acks : acks[i].seq \in Numbers
  <2>1. data = <<>> /\ acks = <<>>
    BY DEF Init
  <2>2. Len(<<>>) = 0 /\ DOMAIN <<>> = {} /\ <<>> \in Seq(DataFrame) /\ <<>> \in Seq(AckFrame)
    OBVIOUS
  <2> QED
    BY <2>1, <2>2
<1> QED
  BY <1>1, <1>2 DEF Init, TypeOK

LEMMA NextType == TypeOK /\ [Next]_vars => TypeOK'
<1> SUFFICES ASSUME TypeOK, [Next]_vars  PROVE TypeOK'
  OBVIOUS
<1>1. ASSUME NEW b \in Bundles, Enqueue(b)  PROVE TypeOK'
  BY <1>1, EnqueueType
<1>2. ASSUME NEW attempt \in Attempts, Send(attempt)  PROVE TypeOK'
  BY <1>2, SendType
<1>3. CASE SendReturns \/ Acknowledge \/ LockTimeout
  BY <1>3, SendReturnsType, AcknowledgeType, LockTimeoutType
<1>4. CASE Receive \/ ReceiveTimeout
  BY <1>4, ReceiveType, ReceiveTimeoutType
<1>5. CASE UNCHANGED vars
  BY <1>5, StutterType
<1> QED
  BY <1>1, <1>2, <1>3, <1>4, <1>5 DEF Next

\* Whatever the link does: an acknowledgement that is late, repeated or overtaken by
\* others never moves a ticket past the end of its bundle, and the numbers of frames,
\* tickets and of the receiver stay within the header's few bits.
THEOREM TransferTyped == Spec => []TypeOK
<1>1. Init => TypeOK
  BY InitType
<1>2. TypeOK /\ [Next]_vars => TypeOK'
  BY NextType
<1> QED
  BY <1>1, <1>2, PTL DEF Spec

(***************************************************************************)
(* The inductive invariant of the protocol, without faults.  At most one   *)
(* frame is in the air, a data frame or its answer, and it belongs to the  *)
(* ticket (Flight).  Counting says when the ticket's number is that of the *)
(* next segment; Agreed, what the receiver knows then.                     *)
(***************************************************************************)
Quiet == data = <<>> /\ acks = <<>>
Flight ==
  /\ \/ Quiet
     \/ /\ tk # None /\ locked
        /\ \/ data = <<Frame(tk)>> /\ acks = <<>>
           \/ data = <<>> /\ \E a \in AckFrame : acks = <<a>> /\ a.seq = NextSeq(tk.seq)
  /\ sending # None => tk # None /\ locked
  /\ sending \in {"failed", "dropped"} => Quiet

\* The number of the ticket is the one of the segment after those acknowledged.
Ahead == sending # None \/ tk.done = tk.acked + 1
Counting ==
  tk # None =>
    /\ tk.done \in {tk.acked, tk.acked + 1}
    /\ tk.multi => Segments[tk.bundle] > 1
    /\ ~tk.multi => tk.acked = 0 /\ tk.done = 0
    /\ ~Quiet \/ sending # None => (tk.multi <=> Segments[tk.bundle] > 1)
    /\ ~Quiet /\ tk.multi => Ahead

\* The receiver has had k segments of b, the last with number s: it holds them, or has
\* given them up, or dispatched them all.
Prefix(b, k) == [i \in 1 .. k |-> <<b, i>>]
Has(b, k, s) ==
  /\ last = s
  /\ rx # None => rx = [seq |-> s, buf |-> Prefix(b, k)]
  /\ k = Segments[b] => rx = None /\ Whole(b) \in accepted
\* The next frame, with number s, is new to it or a repetition.
Follows(b, k, s) == Has(b, k + 1, s) \/ (NextSeq(last) = s /\ Has(b, k, last))
Positive == acks # <<>> /\ Head(acks).kind = "ack"
Agreed ==
  tk # None =>
    /\ tk.acked > 0 => IF Ahead THEN Follows(tk.bundle, tk.acked, tk.seq)
                       ELSE Has(tk.bundle, tk.acked, tk.seq)
    /\ Positive => IF tk.multi THEN Has(tk.bundle, tk.acked + 1, tk.seq)
                   ELSE Whole(tk.bundle) \in accepted
Inv == TypeOK /\ Flight /\ Counting /\ Agreed /\ Intact /\ AckedIsAccepted

LEMMA PrefixGrows ==
  ASSUME NEW b, NEW k \in Nat  PROVE Append(Prefix(b, k), <<b, k + 1>>) = Prefix(b, k + 1)
  BY DEF Prefix
LEMMA PrefixOne == ASSUME NEW b  PROVE <<<<b, 1>>>> = Prefix(b, 1)
  BY DEF Prefix
LEMMA PrefixWhole == ASSUME NEW b  PROVE Whole(b) = Prefix(b, Segments[b])
  BY DEF Prefix, Whole

\* What no step of the sender changes.
LEMMA HasFrame ==
  ASSUME rx' = rx, last' = last, accepted' = accepted
  PROVE  \A b, k, s : Has(b, k, s)' <=> Has(b, k, s)
  BY DEF Has, Whole

LEMMA EnqueueInv == ASSUME Inv, NEW b \in Bundles, Enqueue(b)  PROVE Inv'
<1>1. tk = None /\ sending = None /\ UNCHANGED <<link, todo, out, locked, sending, sent, data, acks, receiver>>
      /\ tk'.multi = FALSE /\ tk'.acked = 0 /\ tk'.done = 0
  BY DEF Enqueue
<1>2. Quiet /\ Quiet'
  BY <1>1 DEF Inv, Flight, Quiet
<1>3. Flight' /\ Counting' /\ Agreed'
  BY <1>1, <1>2 DEF Flight, Counting, Agreed, Positive, Quiet
<1>4. Intact' /\ AckedIsAccepted'
  BY <1>1 DEF Inv, Intact, AckedIsAccepted, receiver, Whole
<1> QED
  BY <1>3, <1>4, EnqueueType DEF Inv

\* Numbering a ticket for an attempt puts it ahead of what is acknowledged.
LEMMA NumberedInv ==
  ASSUME Inv, tk # None, sending = None, Quiet, NEW t, t = Numbered(tk)
  PROVE  /\ TicketOK(t) /\ t.bundle = tk.bundle /\ t.acked = tk.acked /\ t.done = tk.done
         /\ t.done \in {t.acked, t.acked + 1}
         /\ t.multi <=> Segments[t.bundle] > 1
         /\ ~t.multi => t.acked = 0 /\ t.done = 0
         /\ t.acked > 0 => Follows(t.bundle, t.acked, t.seq)
<1>1. TicketOK(t) /\ t.bundle = tk.bundle /\ t.acked = tk.acked /\ t.done = tk.done
  BY NumberedType DEF Inv, TypeOK
<1>2. tk \in Ticket /\ Counting /\ Agreed
  BY DEF Inv, TypeOK, TicketOK
<1>3. CASE tk.multi
  <2>1. t = [tk EXCEPT !.seq = IF tk.done = tk.acked /\ tk.done > 0 THEN NextSeq(@) ELSE @]
    BY <1>3 DEF Numbered, FirstLook
  <2>2. t.multi = tk.multi /\ t.seq = IF tk.done = tk.acked /\ tk.done > 0 THEN NextSeq(tk.seq) ELSE tk.seq
    BY <1>2, <2>1 DEF Ticket
  <2>3. tk.acked \in Nat /\ tk.done \in Nat
    BY <1>2 DEF Ticket
  <2>4. t.multi <=> Segments[t.bundle] > 1
    <3>1. Segments[tk.bundle] > 1
      BY <1>2, <1>3 DEF Counting
    <3> QED
      BY <1>1, <1>3, <2>2, <3>1
  <2>5. ASSUME tk.acked > 0  PROVE Follows(tk.bundle, tk.acked, t.seq)
    <3>1. CASE tk.done = tk.acked
      <4>1. Has(tk.bundle, tk.acked, tk.seq) /\ t.seq = NextSeq(tk.seq)
        BY <1>2, <2>2, <2>3, <2>5, <3>1 DEF Agreed, Ahead
      <4> QED
        BY <4>1 DEF Follows, Has
    <3>2. CASE tk.done = tk.acked + 1
      BY <1>2, <2>2, <2>3, <2>5, <3>2 DEF Agreed, Ahead
    <3> QED
      BY <1>2, <3>1, <3>2 DEF Counting
  <2> QED
    BY <1>1, <1>2, <1>3, <2>2, <2>4, <2>5 DEF Counting
<1>4. CASE ~tk.multi
  <2> DEFINE m == Segments[tk.bundle] > 1
  <2>1. t = [tk EXCEPT !.seq = out, !.multi = m]
    BY <1>4 DEF Numbered, FirstLook
  <2> HIDE DEF m
  <2>2. t.multi = m
    BY <1>2, <2>1 DEF Ticket
  <2>3. tk.acked = 0 /\ tk.done = 0
    BY <1>2, <1>4 DEF Counting
  <2>4. t.multi <=> Segments[t.bundle] > 1
    <3>1. t.multi <=> Segments[tk.bundle] > 1
      BY <2>2 DEF m
    <3> QED
      BY <1>1, <3>1
  <2>5. t.acked = 0 /\ t.done = 0
    BY <1>1, <2>3
  <2> QED
    BY <1>1, <2>4, <2>5
<1> QED
  BY <1>3, <1>4

LEMMA SendInv ==
  ASSUME Faults = {}, Inv, NEW attempt \in Attempts, Send(attempt)
  PROVE  Inv'
<1> DEFINE t == Numbered(tk)
           p == t.pend \/ Succeeds(attempt)
           a == Advanced([t EXCEPT !.pend = p])
<1>1. tk # None /\ ~locked /\ sending = None /\ Quiet
  BY DEF Send, Inv, Flight
<1>2. attempt \in {"ok", "failed", "dropped"} /\ attempt # None
  BY NoneAssumption DEF Attempts
<1>3. data' = IF attempt = "ok" THEN <<Frame(t)>> ELSE <<>>
  BY <1>1, <1>2 DEF Send, Arrives, Quiet
<1>4. UNCHANGED <<link, todo, sent, acks, receiver>>
  BY DEF Send
<1>5. \/ tk' = t /\ locked' = TRUE /\ sending' = attempt
      \/ tk' = a /\ sending' = None /\ locked' = Succeeds(attempt)
      \/ tk' = None /\ sending' = None /\ attempt = "failed"
  BY <1>2 DEF Send, Succeeds
<1>6. /\ TicketOK(t) /\ t.done \in {t.acked, t.acked + 1}
      /\ t.multi <=> Segments[t.bundle] > 1
      /\ ~t.multi => t.acked = 0 /\ t.done = 0
      /\ t.acked > 0 => Follows(t.bundle, t.acked, t.seq)
  BY <1>1, NumberedInv
<1>7. p \in BOOLEAN
  BY <1>6 DEF TicketOK, Ticket
<1> HIDE DEF p
<1>8. /\ TicketOK(a) /\ a.bundle = t.bundle /\ a.acked = t.acked /\ a.seq = t.seq
      /\ a.multi = t.multi /\ a.done = IF t.multi /\ t.done = t.acked THEN t.done + 1 ELSE t.done
  BY <1>6, <1>7, AdvancedType DEF Inv, TypeOK
<1> HIDE DEF t, a
<1>a. t # None /\ a # None
  BY <1>6, <1>8, NoneAssumption DEF TicketOK
<1>9. t.acked \in Nat /\ t.done \in Nat /\ Frame(a) = Frame(t)
  BY <1>6, <1>8 DEF TicketOK, Ticket, Frame
<1>10. Flight'
  <2>1. CASE attempt = "ok"
    <3>1. Succeeds(attempt) /\ data' = <<Frame(t)>> /\ acks' = <<>> /\ tk' # None /\ locked'
      BY <1>1, <1>3, <1>4, <1>5, <1>a, <2>1 DEF Succeeds, Quiet
    <3>2. Frame(tk') = Frame(t)
      BY <1>5, <1>9, <2>1
    <3>3. Frame(tk)' = Frame(tk')
      BY DEF Frame
    <3> QED
      BY <1>2, <1>5, <2>1, <3>1, <3>2, <3>3, NoneAssumption DEF Flight, Quiet
  <2>2. CASE attempt # "ok"
    <3>1. Quiet'
      BY <1>1, <1>3, <1>4, <2>2 DEF Quiet
    <3>2. sending' # None => tk' # None /\ locked'
      BY <1>5, <1>a
    <3> QED
      BY <3>1, <3>2 DEF Flight
  <2> QED
    BY <2>1, <2>2
<1>11. Counting'
  <2>1. CASE tk' = t /\ sending' = attempt
    BY <1>2, <1>6, <2>1 DEF Counting, Ahead
  <2>2. CASE tk' = a
    BY <1>6, <1>8, <1>9, <2>2 DEF Counting, Ahead
  <2>3. CASE tk' = None
    BY <2>3 DEF Counting
  <2> QED
    BY <1>5, <2>1, <2>2, <2>3
<1>12. Agreed'
  <2>1. SUFFICES ASSUME tk' # None
                 PROVE  (tk.acked > 0 => Ahead /\ Follows(tk.bundle, tk.acked, tk.seq))'
    BY <1>1, <1>4 DEF Agreed, Positive, Quiet
  <2>2. \A b, k, s : Follows(b, k, s)' <=> Follows(b, k, s)
    BY <1>4, HasFrame DEF Follows, receiver, NextSeq
  <2>3. CASE tk' = t /\ sending' = attempt
    BY <1>2, <1>6, <2>2, <2>3 DEF Ahead
  <2>4. CASE tk' = a
    BY <1>6, <1>8, <1>9, <2>2, <2>4 DEF Ahead
  <2> QED
    BY <1>5, <2>1, <2>3, <2>4
<1>13. Intact' /\ AckedIsAccepted'
  BY <1>4 DEF Inv, Intact, AckedIsAccepted, receiver, Whole
<1> QED
  BY <1>10, <1>11, <1>12, <1>13, SendType DEF Inv

LEMMA SendReturnsInv == ASSUME Faults = {}, Inv, SendReturns  PROVE Inv'
<1> DEFINE p == tk.pend \/ Succeeds(sending)
           a == Advanced([tk EXCEPT !.pend = p])
<1>1. sending # None /\ tk # None /\ locked /\ (sending \in {"failed", "dropped"} => Quiet)
  BY DEF SendReturns, Inv, Flight
<1>2. /\ sending' = None /\ locked' = (locked /\ Succeeds(sending))
      /\ UNCHANGED <<link, todo, out, sent, data, acks, receiver>>
      /\ tk' = a \/ (tk' = None /\ ~Succeeds(sending))
  <2>1. \/ tk' = Advanced([tk EXCEPT !.pend = tk.pend \/ Succeeds(sending)])
        \/ tk' = None /\ ~Succeeds(sending)
    BY <1>1 DEF SendReturns
  <2> QED
    BY <2>1 DEF SendReturns
<1>3. sending \in {"ok", "failed", "dropped"}
  BY <1>1 DEF Inv, TypeOK, Attempts
<1>4. TicketOK(tk) /\ p \in BOOLEAN
  BY <1>1 DEF Inv, TypeOK, TicketOK, Ticket
<1> HIDE DEF p
<1>5. /\ TicketOK(a) /\ a.bundle = tk.bundle /\ a.acked = tk.acked /\ a.seq = tk.seq
      /\ a.multi = tk.multi /\ a.done = IF tk.multi /\ tk.done = tk.acked THEN tk.done + 1 ELSE tk.done
  BY <1>4, AdvancedType DEF Inv, TypeOK
<1> HIDE DEF a
<1>6. tk.acked \in Nat /\ tk.done \in Nat /\ Frame(a) = Frame(tk) /\ a # None
  BY <1>4, <1>5, NoneAssumption DEF TicketOK, Ticket, Frame
<1>7. Flight'
  <2>1. CASE Quiet
    BY <1>2, <2>1 DEF Flight, Quiet
  <2>2. CASE ~Quiet
    <3>1. Succeeds(sending) /\ tk' = a
      BY <1>1, <1>2, <1>3, <2>2 DEF Succeeds
    <3>2. Frame(tk)' = Frame(tk) /\ NextSeq(tk.seq)' = NextSeq(tk.seq)
      BY <1>2, <1>5, <1>6, <3>1 DEF Frame, NextSeq
    <3>3. \/ data = <<Frame(tk)>> /\ acks = <<>>
          \/ data = <<>> /\ \E x \in AckFrame : acks = <<x>> /\ x.seq = NextSeq(tk.seq)
      BY <2>2 DEF Inv, Flight
    <3>4. \/ data' = <<Frame(tk)'>> /\ acks' = <<>>
          \/ data' = <<>> /\ \E x \in AckFrame : acks' = <<x>> /\ x.seq = NextSeq(tk.seq)'
      BY <1>2, <3>2, <3>3
    <3> QED
      <4>1. tk' # None /\ locked' /\ sending' = None /\ sending' \notin {"failed", "dropped"}
        BY <1>1, <1>2, <1>6, <3>1, NoneAssumption
      <4> QED
        BY <3>4, <4>1 DEF Flight
  <2> QED
    BY <2>1, <2>2
<1>8. Counting'
  BY <1>1, <1>2, <1>5, <1>6 DEF Inv, Counting, Ahead, Quiet
<1>9. Agreed'
  <2>1. /\ \A b, k, s : Has(b, k, s)' <=> Has(b, k, s)
        /\ \A b, k, s : Follows(b, k, s)' <=> Follows(b, k, s)
        /\ \A b : (Whole(b) \in accepted)' <=> Whole(b) \in accepted
    BY <1>2, HasFrame DEF Follows, receiver, NextSeq, Whole
  <2>2. CASE tk' = None
    BY <2>2 DEF Agreed
  <2>3. CASE tk' = a
    <3>1. tk.acked > 0 => Follows(tk.bundle, tk.acked, tk.seq) /\ tk.multi
      BY <1>1, <1>6 DEF Inv, Agreed, Ahead, Counting
    <3>2. a.multi => Ahead'
      BY <1>1, <1>5, <1>6, <2>3 DEF Inv, Counting, Ahead
    <3>3. Positive' <=> Positive
      BY <1>2 DEF Positive
    <3> QED
      BY <1>1, <1>5, <2>1, <2>3, <3>1, <3>2, <3>3 DEF Inv, Agreed
  <2> QED
    BY <1>2, <2>2, <2>3
<1>10. Intact' /\ AckedIsAccepted'
  BY <1>2 DEF Inv, Intact, AckedIsAccepted, receiver, Whole
<1> QED
  BY <1>7, <1>8, <1>9, <1>10, SendReturnsType DEF Inv

\* An acknowledgement finds the ticket whose frame it answers.
LEMMA AcknowledgeInv == ASSUME Faults = {}, Inv, Acknowledge  PROVE Inv'
<1>1. /\ acks # <<>> /\ acks' = Tail(acks) /\ locked' = FALSE /\ sending = None
      /\ UNCHANGED <<link, out, sending, data, receiver>>
  BY DEF Acknowledge, Prompt
<1>2. /\ tk # None /\ data = <<>> /\ ~Quiet /\ Quiet'
      /\ TicketOK(tk) /\ tk.acked \in Nat /\ tk.done \in Nat
  <2>1. tk # None /\ data = <<>> /\ \E a \in AckFrame : acks = <<a>>
    BY <1>1 DEF Inv, Flight, Quiet
  <2>2. PICK a \in AckFrame : acks = <<a>>
    BY <2>1
  <2>3. acks' = <<>>
    BY <1>1, <2>2
  <2>4. TicketOK(tk)
    BY <2>1 DEF Inv, TypeOK
  <2> QED
    BY <1>1, <2>1, <2>3, <2>4 DEF Quiet, TicketOK, Ticket
<1>3. \/ tk' = tk /\ sent' = sent
      \/ tk' = None /\ sent' = sent
      \/ /\ Positive /\ ~Complete(tk) /\ sent' = sent
         /\ tk' = [tk EXCEPT !.acked = tk.done]
      \/ /\ Positive /\ Complete(tk) /\ tk' = None /\ sent' = sent \cup {tk.bundle}
  BY <1>1, <1>2 DEF Acknowledge, Positive
<1>4. /\ \A b, k, s : Has(b, k, s)' <=> Has(b, k, s)
      /\ \A b, k, s : Follows(b, k, s)' <=> Follows(b, k, s)
  BY <1>1, HasFrame DEF Follows, receiver, NextSeq
<1>5. Flight' /\ ~Positive'
  BY <1>1, <1>2 DEF Flight, Positive, Quiet
<1>6. CASE tk' = tk /\ sent' = sent
  <2>1. Counting'
    BY <1>1, <1>2, <1>6 DEF Inv, Counting, Ahead
  <2>2. Agreed'
    BY <1>1, <1>4, <1>5, <1>6 DEF Inv, Agreed, Ahead
  <2>3. Intact' /\ AckedIsAccepted'
    BY <1>1, <1>6 DEF Inv, Intact, AckedIsAccepted, receiver, Whole
  <2> QED
    BY <1>5, <2>1, <2>2, <2>3, AcknowledgeType DEF Inv
<1>7. CASE tk' = None /\ sent' = sent
  <2>1. Intact' /\ AckedIsAccepted'
    BY <1>1, <1>7 DEF Inv, Intact, AckedIsAccepted, receiver, Whole
  <2> QED
    BY <1>5, <1>7, <2>1, AcknowledgeType DEF Inv, Counting, Agreed
<1>8. CASE Positive /\ ~Complete(tk) /\ sent' = sent /\ tk' = [tk EXCEPT !.acked = tk.done]
  <2>1. /\ tk.multi /\ tk.done = tk.acked + 1 /\ Segments[tk.bundle] > 1
        /\ Has(tk.bundle, tk.acked + 1, tk.seq)
    BY <1>1, <1>2, <1>8 DEF Inv, Counting, Agreed, Ahead, Complete
  <2>2. /\ tk'.bundle = tk.bundle /\ tk'.multi = tk.multi /\ tk'.seq = tk.seq
        /\ tk'.done = tk.done /\ tk'.acked = tk.done
    BY <1>2, <1>8 DEF TicketOK, Ticket
  <2>3. Counting' /\ ~Ahead'
    BY <1>1, <1>2, <2>1, <2>2 DEF Counting, Ahead
  <2>4. Agreed'
    BY <1>4, <1>5, <2>1, <2>2, <2>3 DEF Agreed
  <2>5. Intact' /\ AckedIsAccepted'
    BY <1>1, <1>8 DEF Inv, Intact, AckedIsAccepted, receiver, Whole
  <2> QED
    BY <1>5, <2>3, <2>4, <2>5, AcknowledgeType DEF Inv
<1>9. CASE Positive /\ Complete(tk) /\ tk' = None /\ sent' = sent \cup {tk.bundle}
  <2>1. Whole(tk.bundle) \in accepted
    <3>1. CASE tk.multi
      <4>1. tk.acked + 1 = Segments[tk.bundle] /\ Has(tk.bundle, tk.acked + 1, tk.seq)
        BY <1>1, <1>2, <1>9, <3>1 DEF Inv, Counting, Agreed, Ahead, Complete
      <4> QED
        BY <4>1 DEF Has
    <3>2. CASE ~tk.multi
      BY <1>2, <1>9, <3>2 DEF Inv, Agreed
    <3> QED
      BY <3>1, <3>2
  <2>2. Intact' /\ AckedIsAccepted'
    BY <1>1, <1>9, <2>1 DEF Inv, Intact, AckedIsAccepted, receiver, Whole
  <2> QED
    BY <1>5, <1>9, <2>2, AcknowledgeType DEF Inv, Counting, Agreed
<1> QED
  BY <1>3, <1>6, <1>7, <1>8, <1>9

LEMMA LockTimeoutInv == ASSUME Faults = {}, Inv, LockTimeout  PROVE Inv'
<1>1. /\ sending = None /\ Quiet /\ Quiet'
      /\ UNCHANGED <<link, todo, tk, out, sending, sent, data, acks, receiver>>
  BY DEF LockTimeout, Prompt, Quiet
<1>2. /\ \A b, k, s : Has(b, k, s)' <=> Has(b, k, s)
      /\ \A b, k, s : Follows(b, k, s)' <=> Follows(b, k, s)
  BY <1>1, HasFrame DEF Follows, receiver, NextSeq
<1>3. Flight' /\ Counting'
  BY <1>1 DEF Inv, Flight, Counting, Ahead
<1>4. Agreed'
  BY <1>1, <1>2 DEF Inv, Agreed, Ahead, Positive, Quiet
<1>5. Intact' /\ AckedIsAccepted'
  BY <1>1 DEF Inv, Intact, AckedIsAccepted, receiver, Whole
<1> QED
  BY <1>3, <1>4, <1>5, LockTimeoutType DEF Inv

LEMMA ReceiveTimeoutInv == ASSUME Faults = {}, Inv, ReceiveTimeout  PROVE Inv'
<1>1. rx' = None /\ UNCHANGED <<sender, data, acks, last, accepted>>
  BY DEF ReceiveTimeout
<1>2. \A b, k, s : Has(b, k, s) => Has(b, k, s)'
  BY <1>1 DEF Has, Whole
<1>3. \A b, k, s : Follows(b, k, s) => Follows(b, k, s)'
  BY <1>1, <1>2 DEF Follows, NextSeq, sender
<1>4. Flight' /\ Counting'
  <2>1. Frame(tk)' = Frame(tk) /\ NextSeq(tk.seq)' = NextSeq(tk.seq)
    BY <1>1 DEF Frame, NextSeq, sender
  <2> QED
    BY <1>1, <2>1 DEF Inv, Flight, Counting, Ahead, Quiet, sender
<1>5. Agreed'
  BY <1>1, <1>2, <1>3 DEF Inv, Agreed, Ahead, Positive, sender, Whole
<1>6. Intact' /\ AckedIsAccepted'
  BY <1>1 DEF Inv, Intact, AckedIsAccepted, sender, Whole
<1> QED
  BY <1>4, <1>5, <1>6, ReceiveTimeoutType DEF Inv

\* Without the fault a reply arrives once or not at all.
LEMMA ReplyOnce ==
  ASSUME Faults = {}, acks = <<>>, NEW f, NEW kind, Reply(kind, f)
  PROVE  acks' = <<>> \/ acks' = <<[kind |-> kind, seq |-> NextSeq(f.seq)]>>
<1> DEFINE r == [kind |-> kind, seq |-> NextSeq(f.seq)]
<1>1. PICK n \in 0 .. 1 : acks' = acks \o [i \in 1 .. n |-> r]
  BY DEF Reply
<1> HIDE DEF r
<1>2. CASE n = 0
  <2>1. [i \in 1 .. 0 |-> r] = <<>> /\ <<>> \o <<>> = <<>>
    OBVIOUS
  <2> QED
    BY <1>1, <1>2, <2>1
<1>3. CASE n = 1
  <2>1. [i \in 1 .. 1 |-> r] = <<r>> /\ <<>> \o <<r>> = <<r>>
    OBVIOUS
  <2> QED
    BY <1>1, <1>3, <2>1 DEF r
<1> QED
  BY <1>2, <1>3

LEMMA FrameFields ==
  ASSUME NEW t
  PROVE  /\ Frame(t).seq = t.seq /\ Frame(t).seg = <<t.bundle, t.acked + 1>>
         /\ Frame(t).first <=> t.acked = 0
         /\ Frame(t).last <=> t.acked + 1 = Segments[t.bundle]
  BY DEF Frame

LEMMA AnsweredOnce ==
  ASSUME Faults = {}, acks = <<>>, NEW f, NEW kind, Reply(kind, f), acks' # <<>>
  PROVE  Head(acks').kind = kind
<1>1. acks' = <<[kind |-> kind, seq |-> NextSeq(f.seq)]>>
  BY ReplyOnce
<1> QED
  BY <1>1

\* What the receiver knows after a frame that it answers positively.
LEMMA FirstReceived ==
  ASSUME Faults = {}, Inv, tk # None, data = <<Frame(tk)>>, acks = <<>>, tk.acked = 0,
         tk.multi <=> Segments[tk.bundle] > 1,
         Receive, acks' # <<>>, Head(acks').kind = "ack"
  PROVE  IF tk.multi THEN Has(tk.bundle, 1, tk.seq)' ELSE (Whole(tk.bundle) \in accepted)'
<1> DEFINE f == Frame(tk)
<1>1. tk.bundle \in Bundles /\ Segments[tk.bundle] \in Nat \ {0}
  BY DEF Inv, TypeOK, TicketOK, Ticket
<1>2. Head(data) = f /\ tk' = tk
  BY DEF Receive, sender
<1>3. f.seq = tk.seq /\ f.seg = <<tk.bundle, 1>>
  <2>1. f.seq = tk.seq /\ f.seg = <<tk.bundle, tk.acked + 1>>
    BY FrameFields
  <2> QED
    BY <2>1
<1>4. f.first
  BY FrameFields
<1>5. f.last <=> 1 = Segments[tk.bundle]
  BY FrameFields
<1> HIDE DEF f
<1>6. ~Reply("tempnack", f) /\ ~Reply("nack", f)
  BY AnsweredOnce
<1>7. /\ \A b : Whole(b)' = Whole(b)
      /\ \A b : Prefix(b, 1)' = Prefix(b, 1)
  BY DEF Whole, Prefix
<1>8. CASE f.last /\ Dispatch(<<f.seg>>, f)
  <2>1. Segments[tk.bundle] = 1
    BY <1>5, <1>8
  <2>2. ~tk.multi
    BY <2>1
  <2>3. <<f.seg>> = Whole(tk.bundle)
    BY <1>3, <2>1, PrefixOne, PrefixWhole
  <2>4. accepted' = accepted \cup {<<f.seg>>}
    BY <1>6, <1>8 DEF Dispatch
  <2> QED
    BY <1>2, <1>7, <2>2, <2>3, <2>4
<1>9. CASE ~f.last /\ FirstSegment(f)
  <2>1. Segments[tk.bundle] # 1
    BY <1>5, <1>9
  <2>2. tk.multi
    BY <1>1, <2>1
  <2>3. rx' = [seq |-> f.seq, buf |-> <<f.seg>>] /\ last' = f.seq
    BY <1>6, <1>9 DEF FirstSegment
  <2>4. <<f.seg>> = Prefix(tk.bundle, 1)
    BY <1>3, PrefixOne
  <2>5. Has(tk.bundle, 1, tk.seq)'
    BY <1>2, <1>3, <1>7, <2>1, <2>3, <2>4 DEF Has
  <2> QED
    BY <2>2, <2>5
<1> QED
  BY <1>2, <1>4, <1>8, <1>9 DEF Receive

\* b, k and s are the ticket's bundle, its acknowledged segments and its number.
LEMMA NextReceived ==
  ASSUME Faults = {}, acks = <<>>, link \in Links, link' = link, last \in Numbers,
         NEW b \in Bundles, NEW k \in Nat, NEW s \in Numbers, Follows(b, k, s),
         NEW f, f.seq = s, f.seg = <<b, k + 1>>, f.last <=> k + 1 = Segments[b], ~f.first,
         Unexpected(f) \/ (NextSegment(f))
  PROVE  /\ Follows(b, k, s)'
         /\ acks' # <<>> /\ Head(acks').kind = "ack" => Has(b, k + 1, s)'
         /\ accepted' \in {accepted, accepted \cup {Whole(b)}}
<1> DEFINE G == acks' # <<>> /\ Head(acks').kind = "ack" => Has(b, k + 1, s)'
           A == accepted' \in {accepted, accepted \cup {Whole(b)}}
<1>1. ASSUME Reply("tempnack", f), acks' # <<>>  PROVE Head(acks').kind # "ack"
  <2>1. acks' = <<[kind |-> "tempnack", seq |-> NextSeq(f.seq)]>>
    BY <1>1, ReplyOnce
  <2> QED
    BY <2>1
<1>2. NextSeq(s) # s /\ NextSeq(last) # last
  BY NextSeqOther
<1>3. \A c, j, q : Whole(c)' = Whole(c) /\ Prefix(c, j)' = Prefix(c, j) /\ NextSeq(q)' = NextSeq(q)
  BY DEF Whole, Prefix, NextSeq
<1>4. Has(b, k + 1, s)' => Follows(b, k, s)'
  BY DEF Follows
<1>5. CASE UNCHANGED receiver /\ Has(b, k + 1, s)
  <2>1. Has(b, k + 1, s)'
    BY <1>3, <1>5 DEF Has, receiver
  <2> QED
    BY <1>4, <1>5, <2>1 DEF receiver
<1>6. CASE UNCHANGED receiver /\ NextSeq(last) = s /\ Has(b, k, last) /\ Reply("tempnack", f)
  <2>1. last' = last /\ accepted' = accepted /\ rx' = rx
    BY <1>6 DEF receiver
  <2>2. NextSeq(last)' = s /\ Has(b, k, last)'
    BY <1>3, <1>6, <2>1 DEF Has, NextSeq
  <2>3. Follows(b, k, s)'
    BY <2>2 DEF Follows
  <2> QED
    BY <1>1, <1>6, <2>1, <2>3
<1>7. CASE Unexpected(f)
  <2>1. CASE f.seq = last
    BY <1>2, <1>5, <1>7, <2>1 DEF Unexpected, Follows, Has
  <2>2. CASE f.seq # last
    BY <1>6, <1>7, <2>2 DEF Unexpected, Follows, Has
  <2> QED
    BY <2>1, <2>2
<1>8. CASE NextSegment(f)
  <2>1. CASE rx # None /\ ~InOrder(f) /\ UNCHANGED receiver
    <3>1. Has(b, k + 1, s)
      BY <1>2, <2>1 DEF InOrder, Follows, Has
    <3> QED
      BY <1>5, <2>1, <3>1
  <2>2. CASE /\ InOrder(f) /\ last' = f.seq
             /\ \/ /\ ~f.last \/ "last_refused" \in Faults
                   /\ rx' = None /\ Reply("tempnack", f) /\ UNCHANGED accepted
                \/ ~f.last /\ rx' = [seq |-> f.seq, buf |-> Append(rx.buf, f.seg)] /\ UNCHANGED accepted
                \/ f.last /\ rx' = None /\ Dispatch(Append(rx.buf, f.seg), f)
    <3>1. rx # None /\ Has(b, k, last) /\ rx = [seq |-> last, buf |-> Prefix(b, k)]
      BY <1>2, <2>2 DEF InOrder, Follows, Has
    <3>2. Append(rx.buf, f.seg) = Prefix(b, k + 1)
      BY <3>1, PrefixGrows
    <3>3. CASE ~f.last /\ accepted' = accepted
               /\ rx' \in {None, [seq |-> s, buf |-> Prefix(b, k + 1)]}
      <4>1. Has(b, k + 1, s)'
        BY <1>3, <2>2, <3>3 DEF Has
      <4> QED
        BY <1>4, <3>3, <4>1
    <3>4. CASE f.last /\ rx' = None /\ Dispatch(Append(rx.buf, f.seg), f)
      <4>1. accepted' = accepted \cup {Whole(b)}
        BY <3>2, <3>4, PrefixWhole DEF Dispatch
      <4>2. Has(b, k + 1, s)'
        BY <1>3, <2>2, <3>4, <4>1 DEF Has
      <4> QED
        BY <1>4, <4>1, <4>2
    <3> QED
      BY <2>2, <3>2, <3>3, <3>4
  <2> QED
    BY <1>8, <2>1, <2>2 DEF NextSegment
<1> QED
  BY <1>7, <1>8

LEMMA ReceiveInv == ASSUME Faults = {}, Inv, Receive  PROVE Inv'
<1> DEFINE f == Frame(tk)
<1>1. /\ tk # None /\ locked /\ data = <<f>> /\ acks = <<>> /\ data' = <<>> /\ UNCHANGED sender
      /\ ~Quiet /\ Head(data) = f /\ (sending # None => sending \notin {"failed", "dropped"})
  <2>1. data # <<>> /\ data' = Tail(data) /\ UNCHANGED sender
    BY DEF Receive
  <2>2. tk # None /\ locked /\ data = <<f>> /\ acks = <<>> /\ (sending # None => sending \notin {"failed", "dropped"})
    BY <2>1 DEF Inv, Flight, Quiet
  <2> HIDE DEF f
  <2> QED
    BY <2>1, <2>2 DEF Quiet
<1>2. /\ f.seq = tk.seq /\ f.seg = <<tk.bundle, tk.acked + 1>>
      /\ f.first <=> tk.acked = 0
      /\ f.last <=> tk.acked + 1 = Segments[tk.bundle]
  BY FrameFields
<1>3. /\ tk.acked \in Nat /\ tk.bundle \in Bundles /\ tk.seq \in Numbers /\ last \in Numbers
      /\ link \in Links /\ link' = link /\ tk' = tk /\ sending' = sending /\ locked' = locked /\ sent' = sent
  BY <1>1 DEF Inv, TypeOK, TicketOK, Ticket, sender
<1>4. /\ tk.multi <=> Segments[tk.bundle] > 1
      /\ tk.multi => Ahead
      /\ ~tk.multi => tk.acked = 0 /\ tk.done = 0
  BY <1>1 DEF Inv, Counting
<1>5. acks' = <<>> \/ \E kind \in {"ack", "nack", "tempnack"} : acks' = <<[kind |-> kind, seq |-> NextSeq(tk.seq)]>>
  <2>1. \E kind \in {"ack", "nack", "tempnack"} : Reply(kind, f)
    BY <1>1 DEF Receive, Dispatch, FirstSegment, Unexpected, NextSegment
  <2> QED
    BY <1>1, <1>2, <2>1, ReplyOnce
<1>6. tk.acked = 0 /\ acks' # <<>> /\ Head(acks').kind = "ack" =>
           IF tk.multi THEN Has(tk.bundle, 1, tk.seq)' ELSE (Whole(tk.bundle) \in accepted)'
  BY <1>1, <1>4, FirstReceived
<1> DEFINE Stored == accepted' \in {accepted, accepted \cup {Whole(tk.bundle)}}
<1>7. tk.acked = 0 => Stored
  <2>1. ASSUME tk.acked = 0, f.last  PROVE <<f.seg>> = Whole(tk.bundle)
    <3>1. Segments[tk.bundle] = 1
      BY <1>2, <2>1
    <3>2. f.seg = <<tk.bundle, 1>>
      BY <1>2, <2>1
    <3> HIDE DEF f
    <3> QED
      BY <3>1, <3>2, PrefixOne, PrefixWhole
  <2> HIDE DEF f
  <2> QED
    BY <1>1, <1>2, <2>1 DEF Receive, Dispatch
<1>8. ASSUME tk.acked > 0
      PROVE  /\ Follows(tk.bundle, tk.acked, tk.seq)'
             /\ acks' # <<>> /\ Head(acks').kind = "ack" => Has(tk.bundle, tk.acked + 1, tk.seq)'
             /\ Stored /\ tk.multi /\ Ahead
  <2>1. tk.multi /\ Ahead
    BY <1>3, <1>4, <1>8
  <2>2. Follows(tk.bundle, tk.acked, tk.seq)
    BY <1>1, <1>8, <2>1 DEF Inv, Agreed
  <2>3. ~f.first
    BY <1>2, <1>3, <1>8
  <2> HIDE DEF f
  <2>4. Unexpected(f) \/ NextSegment(f)
    BY <1>1, <2>3 DEF Receive
  <2>5. PICK b \in Bundles, k \in Nat, s \in Numbers : b = tk.bundle /\ k = tk.acked /\ s = tk.seq
    BY <1>3
  <2>6. Follows(b, k, s) /\ f.seq = s /\ f.seg = <<b, k + 1>> /\ (f.last <=> k + 1 = Segments[b])
    BY <1>2, <2>2, <2>5
  <2>7. /\ Follows(b, k, s)'
        /\ acks' # <<>> /\ Head(acks').kind = "ack" => Has(b, k + 1, s)'
        /\ accepted' \in {accepted, accepted \cup {Whole(b)}}
    BY <1>1, <1>3, <2>3, <2>4, <2>6, NextReceived
  <2>8. (b = tk.bundle /\ k = tk.acked /\ s = tk.seq)'
    BY <1>3, <2>5
  <2> QED
    BY <2>1, <2>5, <2>7, <2>8
<1>9. Stored
  BY <1>3, <1>7, <1>8
<1>10. Flight'
  <2>1. NextSeq(tk.seq)' = NextSeq(tk.seq) /\ tk' # None /\ locked' /\ data' = <<>>
    BY <1>1, <1>3 DEF NextSeq
  <2>2. sending' # None => tk' # None /\ locked'
    BY <2>1
  <2>3. sending' \in {"failed", "dropped"} => Quiet'
    BY <1>1, <1>3, NoneAssumption
  <2>4. CASE acks' = <<>>
    BY <2>1, <2>2, <2>3, <2>4 DEF Flight, Quiet
  <2>5. ASSUME NEW kind \in {"ack", "nack", "tempnack"}, acks' = <<[kind |-> kind, seq |-> NextSeq(tk.seq)]>>
        PROVE  Flight'
    <3>1. NextSeq(tk.seq) \in Nat
      BY <1>3, NextSeqType, NumbersAreNat
    <3>2. \E a \in AckFrame : acks' = <<a>> /\ a.seq = NextSeq(tk.seq)
      BY <2>5, <3>1 DEF AckFrame
    <3> QED
      BY <2>1, <2>2, <2>3, <3>2 DEF Flight
  <2> QED
    BY <1>5, <2>4, <2>5
<1>11. Counting'
  BY <1>1, <1>3, <1>4 DEF Inv, Counting, Ahead
<1>12. Agreed'
  <2>1. ASSUME tk.acked > 0  PROVE Ahead' /\ Follows(tk.bundle, tk.acked, tk.seq)'
    BY <1>3, <1>8, <2>1 DEF Ahead
  <2>2. ASSUME Positive'  PROVE (IF tk.multi THEN Has(tk.bundle, tk.acked + 1, tk.seq) ELSE Whole(tk.bundle) \in accepted)'
    <3>1. acks' # <<>> /\ Head(acks').kind = "ack"
      BY <2>2 DEF Positive
    <3>2. CASE tk.acked = 0
      <4>1. tk.acked + 1 = 1 /\ tk'.acked + 1 = 1
        BY <1>3, <3>2
      <4> QED
        BY <1>3, <1>6, <3>1, <3>2, <4>1
    <3>3. CASE tk.acked > 0
      BY <1>3, <1>8, <3>1, <3>3
    <3> QED
      BY <1>3, <3>2, <3>3
  <2> QED
    BY <1>3, <2>1, <2>2 DEF Agreed
<1>13. Intact' /\ AckedIsAccepted'
  BY <1>3, <1>9 DEF Inv, Intact, AckedIsAccepted, Whole
<1> QED
  BY <1>10, <1>11, <1>12, <1>13, ReceiveType DEF Inv

LEMMA StutterInv == ASSUME Inv, UNCHANGED vars  PROVE Inv'
<1>1. UNCHANGED <<sender, data, acks, receiver>>
  BY DEF vars
<1>2. /\ \A b, k, s : Has(b, k, s)' <=> Has(b, k, s)
      /\ \A b, k, s : Follows(b, k, s)' <=> Follows(b, k, s)
  BY <1>1, HasFrame DEF Follows, receiver, sender, NextSeq
<1>3. Frame(tk)' = Frame(tk) /\ NextSeq(tk.seq)' = NextSeq(tk.seq)
  BY <1>1 DEF Frame, NextSeq, sender
<1>4. Flight' /\ Counting'
  BY <1>1, <1>3 DEF Inv, Flight, Counting, Ahead, Quiet, sender
<1>5. Agreed'
  BY <1>1, <1>2 DEF Inv, Agreed, Ahead, Positive, sender, receiver, Whole
<1>6. Intact' /\ AckedIsAccepted'
  BY <1>1 DEF Inv, Intact, AckedIsAccepted, sender, receiver, Whole
<1> QED
  BY <1>4, <1>5, <1>6, StutterType DEF Inv

LEMMA InitInv == Init => Inv
  BY InitType DEF Init, Inv, Flight, Quiet, Counting, Agreed, Intact, AckedIsAccepted

LEMMA NextInv == ASSUME Faults = {}  PROVE Inv /\ [Next]_vars => Inv'
<1> SUFFICES ASSUME Inv, [Next]_vars  PROVE Inv'
  OBVIOUS
<1>1. ASSUME NEW b \in Bundles, Enqueue(b)  PROVE Inv'
  BY <1>1, EnqueueInv
<1>2. ASSUME NEW attempt \in Attempts, Send(attempt)  PROVE Inv'
  BY <1>2, SendInv
<1>3. CASE SendReturns \/ Acknowledge \/ LockTimeout
  BY <1>3, SendReturnsInv, AcknowledgeInv, LockTimeoutInv
<1>4. CASE Receive \/ ReceiveTimeout
  BY <1>4, ReceiveInv, ReceiveTimeoutInv
<1>5. CASE UNCHANGED vars
  BY <1>5, StutterInv
<1> QED
  BY <1>1, <1>2, <1>3, <1>4, <1>5 DEF Next

\* Over either adapter, with frames lost, attempts given up or tried again, segments
\* refused for lack of memory and receptions that time out, a number that can be as
\* short as one bit suffices: dispatching is given nothing but bundles as they were sent.
THEOREM IntactCorrect == ASSUME Faults = {}  PROVE Spec => []Intact
<1>1. Init => Inv
  BY InitInv
<1>2. Inv /\ [Next]_vars => Inv'
  BY NextInv
<1>3. Inv => Intact
  BY DEF Inv
<1> QED
  BY <1>1, <1>2, <1>3, PTL DEF Spec

\* Under the same hypothesis a bundle is reported as sent only when the neighbour has
\* stored the whole of it, so that routing loses nothing by dropping its own copy.
THEOREM AckedCorrect == ASSUME Faults = {}  PROVE Spec => []AckedIsAccepted
<1>1. Init => Inv
  BY InitInv
<1>2. Inv /\ [Next]_vars => Inv'
  BY NextInv
<1>3. Inv => AckedIsAccepted
  BY DEF Inv
<1> QED
  BY <1>1, <1>2, <1>3, PTL DEF Spec

(***************************************************************************)
(* The two ends together implement ReliableTransfer.  A frame makes the    *)
(* receiver store at most one bundle, and by Intact' one of ours; an       *)
(* acknowledgement reports at most one, and by AckedIsAccepted' a stored   *)
(* one.  No other step changes what ReliableTransfer sees.                 *)
(***************************************************************************)
LEMMA StepImplements ==
  ASSUME Faults = {}, Inv, [Next]_vars
  PROVE  [Reliable!Next]_<<accepted, {Whole(b) : b \in sent}>>
<1> DEFINE reported == {Whole(b) : b \in sent}
<1>1. Inv'
  BY NextInv
<1>2. \A b : Whole(b)' = Whole(b)
  BY DEF Whole
<1>3. CASE accepted' = accepted /\ sent' = sent
  <2>1. reported' = reported
    BY <1>2, <1>3
  <2> QED
    BY <1>3, <2>1
<1>4. CASE Receive
  <2>1. sent' = sent /\ (accepted' = accepted \/ \E buf : accepted' = accepted \cup {buf})
    BY <1>4 DEF Receive, Dispatch, FirstSegment, Unexpected, NextSegment, sender, receiver
  <2>2. ASSUME NEW buf, accepted' = accepted \cup {buf}
        PROVE  \E b \in Bundles : accepted' = accepted \cup {Whole(b)}
    <3>1. \E b \in Bundles : buf = Whole(b)
      BY <1>1, <1>2, <2>2 DEF Inv, Intact
    <3> QED
      BY <2>2, <3>1
  <2>3. reported' = reported
    BY <1>2, <2>1
  <2>4. CASE \E b \in Bundles : accepted' = accepted \cup {Whole(b)}
    BY <2>3, <2>4 DEF Reliable!Next, Reliable!Store
  <2> QED
    BY <1>3, <2>1, <2>2, <2>4
<1>5. CASE Acknowledge
  <2>1. /\ accepted' = accepted
        /\ sent' = sent \/ (tk # None /\ sent' = sent \cup {tk.bundle})
    BY <1>5 DEF Acknowledge, receiver
  <2>2. CASE tk # None /\ sent' = sent \cup {tk.bundle}
    <3>1. tk.bundle \in Bundles
      BY <2>2 DEF Inv, TypeOK, TicketOK, Ticket
    <3>2. Whole(tk.bundle) \in accepted
      BY <1>1, <1>2, <2>1, <2>2 DEF Inv, AckedIsAccepted
    <3>3. reported' = reported \cup {Whole(tk.bundle)}
      BY <1>2, <2>2
    <3> QED
      BY <2>1, <3>1, <3>2, <3>3 DEF Reliable!Next, Reliable!Report
  <2> QED
    BY <1>3, <2>1, <2>2
<1>6. CASE (\E b \in Bundles : Enqueue(b)) \/ (\E attempt \in Attempts : Send(attempt)) \/ SendReturns
  BY <1>3, <1>6 DEF Enqueue, Send, SendReturns, receiver
<1>7. CASE LockTimeout \/ ReceiveTimeout \/ UNCHANGED vars
  BY <1>3, <1>7 DEF LockTimeout, ReceiveTimeout, vars, sender, receiver
<1> QED
  BY <1>4, <1>5, <1>6, <1>7 DEF Next

\* Without the faults, segmentation, numbering, acknowledgements and timeouts at both
\* ends look to routing like a neighbour that stores whole bundles, one in a step, and
\* reports those it has stored.
THEOREM TransferImplementsReliable == ASSUME Faults = {}  PROVE Spec => ImplementsReliable
<1>1. Init => Reliable!Init
  BY DEF Init, Reliable!Init
<1>2. Init => Inv
  BY InitInv
<1>3. Inv /\ [Next]_vars => Inv'
  BY NextInv
<1>4. Inv /\ [Next]_vars => [Reliable!Next]_<<accepted, {Whole(b) : b \in sent}>>
  BY StepImplements
<1> QED
  BY <1>1, <1>2, <1>3, <1>4, PTL DEF Spec, ImplementsReliable, Reliable!Spec
=============================================================================
