---------------------------- MODULE MCBundleFlow ----------------------------
(* Instances of BundleFlow for TLC. *)
EXTENDS BundleFlow, TLC

CONSTANTS p1, p2, far, group, flood, own, mine, note, receipt, chat, news

Bundle(src, dst, srv, single, prio, long, report, via) ==
  [src |-> src, dst |-> dst, srv |-> srv, single |-> single, prio |-> prio,
   long |-> long, report |-> report, via |-> via]

\* flood: to a group some of whose members are here, from far away, long, less urgent;
\* own: from an application here to a peer; receipt: the report that it has arrived;
\* mine and note: for a service here, the one more urgent than the other.
HeaderOf ==
  flood :> Bundle(far, group, news, FALSE, 0, TRUE, None, {p1}) @@
  own :> Bundle(Self, p2, chat, TRUE, 1, FALSE, None, {}) @@
  mine :> Bundle(p1, Self, chat, TRUE, 1, FALSE, None, {p1, p2}) @@
  note :> Bundle(p2, Self, chat, TRUE, 0, FALSE, None, {p2}) @@
  receipt :> Bundle(p2, Self, chat, TRUE, 0, FALSE, own, {p1})
HeaderSafe == [b \in Bundles |-> HeaderOf[b]]
\* Here both are short and go to the group, so they compete for the service.
HeaderLive == flood :> Bundle(far, group, news, FALSE, 1, FALSE, None, {p1}) @@
              own :> Bundle(Self, group, news, FALSE, 1, FALSE, None, {})
TwoApps == chat :> "chat" @@ news :> "news"

NoCalls == {}
ManyCalls == {<<"remove", news>>, <<"register", chat>>, <<"passivate", news>>, <<"activate", news>>}

\* The first services have registered, as far as there are registrations.
InUse(v) == [srv |-> v, active |-> TRUE, busy |-> FALSE]
Unused == [srv |-> None, active |-> FALSE, busy |-> FALSE]
StartedSome == [r \in Blocks |-> IF r = 1 THEN InUse(news) ELSE IF r = 2 THEN InUse(chat) ELSE Unused]
=============================================================================
