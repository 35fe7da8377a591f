----------------------------- MODULE MCDelivery -----------------------------
(***************************************************************************)
(* The two ways out of the program for what it has found: the notification *)
(* engine and the realtime broadcaster.  A behaviour moves one of them.    *)
(***************************************************************************)
EXTENDS Broadcaster, Notifications, TLC

CONSTANTS Parts, c1, c2, ta, tb
VARIABLE part

OneTenant == (c1 :> ta) @@ (c2 :> ta)

DeliveryInit == part \in Parts /\ Init /\ NotifyInit

DeliveryNext ==
  \/ part = "broadcaster" /\ Next /\ UNCHANGED <<part, notifyVars>>
  \/ part = "notifications" /\ NotifyNext /\ UNCHANGED <<part, vars>>

DeliverySpec ==
  /\ DeliveryInit /\ [][DeliveryNext]_<<part, vars, notifyVars>>
  /\ BroadcasterFairness /\ NotifyFairness

\* Three alerts about one incident, of which two ask for the same thing; and
\* alerts of two tenants, one of them safe.
MCAlerts == [
  e1 |-> [kind |-> "risk", tenant |-> "t1", target |-> "i1", verdict |-> "MALICIOUS", secrets |-> {"credential"}],
  e2 |-> [kind |-> "risk", tenant |-> "t1", target |-> "i1", verdict |-> "SUSPICIOUS", secrets |-> {}],
  e3 |-> [kind |-> "remediation", tenant |-> "t1", target |-> "i1", verdict |-> "none", secrets |-> {}],
  e4 |-> [kind |-> "analytics", tenant |-> "t2", target |-> NoTarget, verdict |-> "none", secrets |-> {}],
  e5 |-> [kind |-> "risk", tenant |-> "t2", target |-> "i1", verdict |-> "SAFE", secrets |-> {}]]
MCChannelsOf == [t1 |-> {"slack"}, t2 |-> {"email", "webhook", "teams"}]
MCRoute == [t1 |-> [slack |-> "url"],
            t2 |-> [email |-> "simulated", webhook |-> "refused", teams |-> "none"]]
MCScenarios == {{"e1", "e2", "e3"}, {"e2", "e4", "e5"}}
=============================================================================
