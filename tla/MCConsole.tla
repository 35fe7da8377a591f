----------------------------- MODULE MCConsole ------------------------------
(***************************************************************************)
(* What people do at the console: they remediate, give feedback, do so in  *)
(* sessions, and use the endpoints over the database, the memory of past   *)
(* cases and the retrieval index.  These share no state that the           *)
(* properties are about, so a behaviour moves one of them.                 *)
(***************************************************************************)
EXTENDS Remediation, RemediationAdapters, Feedback, Sessions, ApiDatabase, Memory, RagIndex, TLC

CONSTANTS Parts, w1, w2, t1, t2, quarantine, block
VARIABLE part

\* The parts that do not move have one initial state.
ConsoleInit ==
  /\ part \in Parts /\ Init /\ AdaptersInit /\ FeedbackInit /\ SessionInit /\ ApiInit /\ MemInit /\ RagInit
  /\ part = "sessions" \/ \A u \in DOMAIN Users : account[u].role = "ANALYST"
  /\ part \in {"index", "batch"} \/ ~(pgDown \/ embDown)

ConsoleNext ==
  \/ /\ part = "remediation" /\ Next
     /\ UNCHANGED <<part, adapterVars, fbVars, sessionVars, apiVars, memVars, ragVars>>
  \/ /\ part = "adapters" /\ AdaptersNext
     /\ UNCHANGED <<part, vars, fbVars, sessionVars, apiVars, memVars, ragVars>>
  \/ /\ part \in {"convergence", "tuning"} /\ FeedbackNext(part)
     /\ UNCHANGED <<part, adapterVars, vars, sessionVars, apiVars, memVars, ragVars>>
  \/ /\ part = "sessions" /\ SessionNext
     /\ UNCHANGED <<part, adapterVars, vars, fbVars, apiVars, memVars, ragVars>>
  \/ /\ part \in {"login", "data"} /\ ApiNext(part)
     /\ UNCHANGED <<part, adapterVars, vars, fbVars, sessionVars, memVars, ragVars>>
  \/ /\ part = "memory" /\ MemNext
     /\ UNCHANGED <<part, adapterVars, vars, fbVars, sessionVars, apiVars, ragVars>>
  \/ /\ part \in {"index", "batch"} /\ RagNext(part)
     /\ UNCHANGED <<part, adapterVars, vars, fbVars, sessionVars, apiVars, memVars>>

ConsoleSpec ==
  ConsoleInit /\ [][ConsoleNext]_<<part, vars, adapterVars, fbVars, sessionVars, apiVars, memVars, ragVars>>

Actions == (quarantine :> "QUARANTINED") @@ (block :> "BLOCKED")

Request(k, dry, conf, t) ==
  [key |-> k, dry |-> dry, confident |-> conf, lineage |-> TRUE, token |-> t, bound |-> TRUE]

\* A quarantine, which needs no approval: live, simulated, and refused for lack of
\* confidence or of lineage; and a block with an approval, without one, and with
\* one for another message.
Mixed == {Request(quarantine, FALSE, TRUE, "None"), Request(quarantine, TRUE, TRUE, "None"),
          Request(quarantine, FALSE, FALSE, "None"),
          [Request(quarantine, FALSE, TRUE, "None") EXCEPT !.lineage = FALSE],
          Request(block, FALSE, TRUE, t1), Request(block, FALSE, TRUE, "None"),
          [Request(block, FALSE, TRUE, t2) EXCEPT !.bound = FALSE]}

Quarantines == {Request(quarantine, FALSE, TRUE, "None"), Request(quarantine, TRUE, TRUE, "None")}

\* An analyst whose identifier names a senior, one with the role, and one of
\* another tenant.
MCAnalysts ==
  [senior |-> [tenant |-> "t1", role |-> "ANALYST", trust |-> "unset", namedSenior |-> TRUE],
   lead |-> [tenant |-> "t1", role |-> "ADMIN", trust |-> "unset", namedSenior |-> FALSE],
   other |-> [tenant |-> "t2", role |-> "ADMIN", trust |-> "unset", namedSenior |-> FALSE]]
MCIncidents == [i1 |-> [tenant |-> "t1", entity |-> "m1"]]

\* A quarantine with the right mailbox and without one, the deletion that follows
\* it; blocks of two domains whose objects have the same name, and of an address;
\* a simulated one, and one of a target that is no network address.
AdapterOrder(a, act, m, t, dry) == [adapter |-> a, action |-> act, message |-> m, target |-> t, dry |-> dry]
MCOrders ==
  {AdapterOrder("graph", "QUARANTINED", "m", "ann@corp", FALSE), AdapterOrder("graph", "BLOCKED", "m", "ann@corp", FALSE),
   AdapterOrder("graph", "QUARANTINED", "m", "default_recipient", FALSE),
   AdapterOrder("panos", "BLOCKED", "m", "a.b.com", FALSE), AdapterOrder("panos", "BLOCKED", "m", "a-b.com", FALSE),
   AdapterOrder("panos", "BLOCKED", "m", "203.0.113.7", FALSE),
   AdapterOrder("panos", "BLOCKED", "m", "a.b.com", TRUE), AdapterOrder("panos", "BLOCKED", "m", "ann@corp", FALSE)}
MCMailboxOf == [m |-> "ann@corp"]
MCObjectName == [t \in {"a.b.com", "a-b.com"} |-> "ScamON_a_b_com"] @@ ("203.0.113.7" :> "ScamON_203_0_113_7")

MCUsers == [u1 |-> "t1", u2 |-> "t2"]

\* An investigation with one severe finding.
MCCases == [a |-> [evidence |-> <<"high">>, senders |-> 0, urls |-> 0, attachments |-> 0,
                   correlations |-> 0, confidence |-> 200]]
=============================================================================
