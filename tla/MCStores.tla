------------------------------ MODULE MCStores ------------------------------
(***************************************************************************)
(* What the tasks of a process share: the registry of modules, the         *)
(* deduplication engine, the event bus, the threat-intelligence manager    *)
(* and the names that the check of links has resolved; the locks, rate     *)
(* limits and marks that processes share through Redis; and the headers of *)
(* a letter, which every relay shares.  A behaviour uses one of them.      *)
(***************************************************************************)
EXTENDS DedupEngine, RedisLease, EventBus, IntelEnrichment, Lifecycle, LinkChecks,
        MailHeaders, TLC

CONSTANTS Parts, k1, k2, k3, t1, t2, q1, q2, q3
VARIABLE part

MCTenantOf == (k1 :> t1) @@ (k2 :> t1) @@ (k3 :> t2)
OneProvider == <<"virustotal">>
IndicatorSymmetry == Permutations(Indicators)

\* Link 1 leads to 2 through another spelling of it, 2 to 3 and 3 back to 2, too
\* far from 5, which leads to 1; 4 is a page.
LinkHost == <<"shop", "cdn", "shop", "cdn", "shop">>
LinkTarget == <<6, 3, 7, 0, 1>>
LinkSpelling == <<1, 2, 3, 4, 5, 2, 2>>
LinkZones == [{"shop", "cdn"} -> {"public", "private"}]
MCOrgOf == [d \in MailDomains |-> IF d = "mail.shop.com" THEN "shop.com" ELSE d]
MCMarkSets ==
  {{}, {"other_id_domain", "re_prefix", "address_in_name"},
   {"no_message_id", "re_prefix", "references", "webmail_reply_to"}}
NoLetter ==
  [from |-> None, marks |-> {}, spf |-> {}, received |-> <<>>, dkim |-> <<>>, seals |-> <<>>]

QuietZone == [h \in {"shop", "cdn"} |-> "public"]

StoresInit ==
  /\ part \in Parts /\ Init /\ RedisInit /\ BusInit /\ IntelInit /\ LifeInit
  /\ LinkInit /\ (part = "links" \/ zone = QuietZone)
  /\ EnrichInit /\ (part = "enrichment" \/ setup = [registry |-> "simulated", keyed |-> FALSE])
  /\ IF part = "headers" THEN LetterInit ELSE letter = NoLetter

StoresNext ==
  \/ /\ part = "dedup" /\ Next
     /\ UNCHANGED <<part, enrichVars, redisVars, busVars, intelVars, lifeVars, linkVars, letterVars>>
  \/ /\ part \in {"lock", "rate", "mark"} /\ RedisNext(part)
     /\ UNCHANGED <<part, enrichVars, vars, busVars, intelVars, lifeVars, linkVars, letterVars>>
  \/ /\ part = "bus" /\ BusNext
     /\ UNCHANGED <<part, enrichVars, vars, redisVars, intelVars, lifeVars, linkVars, letterVars>>
  \/ /\ part = "intel" /\ IntelNext
     /\ UNCHANGED <<part, enrichVars, vars, redisVars, busVars, lifeVars, linkVars, letterVars>>
  \/ /\ part = "enrichment" /\ EnrichNext
     /\ UNCHANGED <<part, vars, redisVars, busVars, lifeVars, linkVars, letterVars>>
  \/ /\ part = "modules" /\ LifeNext
     /\ UNCHANGED <<part, enrichVars, vars, redisVars, busVars, intelVars, linkVars, letterVars>>
  \/ /\ part = "links" /\ LinkNext
     /\ UNCHANGED <<part, enrichVars, vars, redisVars, busVars, intelVars, lifeVars, letterVars>>
  \/ /\ part = "headers" /\ LetterNext
     /\ UNCHANGED <<part, enrichVars, vars, redisVars, busVars, intelVars, lifeVars, linkVars>>

StoresSpec ==
  /\ StoresInit
  /\ [][StoresNext]_<<part, vars, redisVars, busVars, intelVars, enrichVars, lifeVars, linkVars, letterVars>>

\* A listed link with its domain, an address elsewhere, the address of a relay,
\* and a file.
MCIocs ==
  ("url" :> [kind |-> "url", host |-> "bad.com", new |-> FALSE, lists |-> {"OpenPhish", "PhishTank"}])
  @@ ("bad.com" :> [kind |-> "domain", host |-> "", new |-> TRUE, lists |-> {"VirusTotal", "AlienVaultOTX"}])
  @@ ("mail" :> [kind |-> "email", host |-> "ok.com", new |-> FALSE, lists |-> {}])
  @@ ("ok.com" :> [kind |-> "domain", host |-> "", new |-> FALSE, lists |-> {}])
  @@ ("relay" :> [kind |-> "ip", host |-> "", new |-> FALSE, lists |-> {"AbuseIPDB"}])
  @@ ("file" :> [kind |-> "hash", host |-> "", new |-> FALSE, lists |-> {"VirusTotal"}])
NoIocs == [text |-> {}, origin |-> {}, hops |-> {}, from |-> {}, spf |-> {}, dkim |-> {}, names |-> {}]
MCIocMails ==
  {[NoIocs EXCEPT !.text = {"url"}], [NoIocs EXCEPT !.text = {"url", "mail"}, !.from = {"ok.com"}],
   [NoIocs EXCEPT !.origin = {"relay"}, !.names = {"file"}]}
Reply(s, h, m) == [status |-> s, hits |-> h, more |-> m]
Said(vt, abuse, google, tank) ==
  ("VirusTotal_v3" :> vt) @@ ("AbuseIPDB_v2" :> abuse) @@ ("GoogleSafeBrowsing_v4" :> google)
  @@ ("Google Safe Browsing" :> google) @@ ("PhishTank" :> tank)
MCReplies ==
  {Said(Reply(200, 2, 2), Reply(200, 24, 0), Reply(200, 0, 0), Reply(200, 1, 0)),
   Said(Reply(200, 1, 4), Reply(200, 25, 0), Reply(200, 1, 1), Reply(0, 0, 0)),
   Said(Reply(404, 0, 0), Reply(404, 0, 0), Reply(0, 0, 0), Reply(500, 0, 0))}
MCOutages == {{}, {"VirusTotal", "PhishTank", "VirusTotal_v3"}}

MCAncestors == [base |-> {"base"}, risk |-> {"base", "risk"}]
=============================================================================
