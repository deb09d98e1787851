---------------------------- MODULE MCBundleLive ----------------------------
(***************************************************************************)
(* The liveness of BundleFlow.  From some time on, calm, nothing arrives   *)
(* or changes, attempts succeed, peers answer and services process what    *)
(* they get: what must then happen is asked from every state the node can  *)
(* be in at that time.                                                     *)
(***************************************************************************)
EXTENDS MCBundleFlow

VARIABLES
  calm,
  unheard  \* a ticket has ended, and routing has neither been woken then nor since

liveVars == <<vars, calm, unheard>>

Ends(b) == node.ticket[b].to # None /\ node'.ticket[b].to = None
Listen == unheard' = (~awake' /\ (unheard \/ \E b \in Bundles : Ends(b)))

Transmit(b) == ExpiredAttempt(b) \/ (~node.ticket[b].pend /\ Attempt(b, "ok"))
Goes(A) == calm /\ calm' = calm /\ A /\ Listen
CalmNext == \/ Goes(AgentStep) \/ Goes(RoutingPass) \/ Goes(Prune)
            \/ \E b \in Bundles : Goes(AppDone(b)) \/ Goes(Transmit(b)) \/ Goes(Answer(b, "ok"))
Calm == ~calm /\ calm' = TRUE /\ UNCHANGED <<vars, unheard>>
Stormy == ~calm /\ calm' = calm /\ Next /\ Listen

\* The agent, routing, the convergence layer (OldestIsTried in ConvergenceLayer), the
\* applications and the peers go on.
FairSpec ==
  /\ Init /\ calm = FALSE /\ unheard = FALSE
  /\ [][Stormy \/ Calm \/ CalmNext]_liveVars
  /\ WF_liveVars(Goes(AgentStep)) /\ WF_liveVars(Goes(RoutingPass))
  /\ \A b \in Bundles : /\ WF_liveVars(Goes(Transmit(b))) /\ WF_liveVars(Goes(AppDone(b)))
                         /\ WF_liveVars(Goes(Answer(b, "ok")))

\* A bundle for a registered service is given to it and processed, although services
\* are busy with other bundles, routing sleeps until it is woken, and a pass delivers
\* one bundle only.
Due(b) == "local" \in node.flags[b] /\ Serving(b) # {}
LocalDelivered == \A b \in Bundles : calm /\ Due(b) ~> ~Due(b)

\* A bundle that has a neighbour to go to is sent there, although the convergence
\* layer refuses bundles while its tickets are used up: whatever ends a ticket wakes
\* routing again, except that deleting a bundle does not.
Routable(b) == /\ b \in node.routed /\ "forward" \in node.flags[b]
               /\ Targets(node, b) # {}
ForwardedIfHeard == \A b \in Bundles : calm /\ Routable(b) ~> ~Routable(b) \/ unheard
=============================================================================
