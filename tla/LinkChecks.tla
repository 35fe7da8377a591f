----------------------------- MODULE LinkChecks -----------------------------
(***************************************************************************)
(* url_intelligence/: the first link of a mail is looked up in the feeds,  *)
(* its redirects are followed hop by hop, and the page at the end may be   *)
(* opened in the sandbox.  Every hop, and the sandbox once more, has the   *)
(* validator ask CachedDNSResolver (authentication/dns) for the host's     *)
(* addresses.  The cache outlives the mail.  Names change their addresses  *)
(* and time passes between any two steps.                                  *)
(***************************************************************************)
EXTENDS Naturals, Sequences, FiniteSets, Dict

CONSTANTS
  Links,        \* canonical URLs, each an index of its place in sorted order
  Host,         \* link -> the host it names
  Target,       \* link -> what it redirects to, as the server spells it, or 0
  Canonical,    \* a spelling -> its canonical URL
  Wordy,        \* links with a word such as "login" or "verify"
  MailLinks,    \* the sets of links that mails have
  Zones,        \* the addresses that hosts may have at first
  MaxHops,      \* the expander's max_hops (5)
  PositiveTtl, NegativeTtl,     \* 300 s and 60 s
  CacheSize,    \* max_cache_size
  MaxMails, MaxLinkTime, MaxRezones     \* bounds

ASSUME LinkAssumption ==
  /\ {MaxHops, CacheSize} \subseteq Nat \ {0}
  /\ {PositiveTtl, NegativeTtl, MaxLinkTime, MaxMails, MaxRezones} \subseteq Nat
\* A redirect leads to a link; 0 is none.
ASSUME RedirectAssumption ==
  /\ Links \subseteq Nat \ {0} /\ MailLinks \subseteq SUBSET Links
  /\ \A l \in Links : Target[l] # 0 => Canonical[Target[l]] \in Links
ASSUME ZoneAssumption ==
  Zones \subseteq [{Host[l] : l \in Links} -> {"public", "private", "none"}]

VARIABLES
  zone,         \* host -> its addresses: "public", "private", "none"
  dns,          \* the resolver's OrderedDict: [host, ans, at, ttl], oldest use first
  job,          \* the analysis under way
  linkClock,
  mailsDone, rezones,
  shown         \* host -> time -> the addresses the host had then (history)

linkVars == <<zone, dns, job, linkClock, mailsDone, rezones, shown>>

Hosts == {Host[l] : l \in Links}
Addresses == {"public", "private", "none"}
NoJob == [pc |-> "idle", at |-> 0, hops |-> <<>>, visited |-> {}, loop |-> FALSE, lost |-> FALSE,
          eager |-> FALSE, sandbox |-> "SKIPPED", since |-> 0]

LinkInit ==
  /\ zone \in Zones
  /\ dns = <<>> /\ job = NoJob /\ linkClock = 0 /\ mailsDone = 0 /\ rezones = 0
  /\ shown = [h \in Hosts |-> [t \in 0..MaxLinkTime |-> IF t = 0 THEN {zone[h]} ELSE {}]]

(* CachedDNSResolver.resolve_a ********************************************)
AnswersOf(h) == {i \in DOMAIN dns : dns[i].host = h}
DnsWithout(h) == IF AnswersOf(h) = {} THEN dns ELSE DelAt(dns, CHOOSE i \in AnswersOf(h) : TRUE)
DnsExpired(x) == linkClock - x.at > x.ttl
FreshAnswers(h) == {dns[i] : i \in {j \in AnswersOf(h) : ~DnsExpired(dns[j])}}

NewEntry(h, ans) ==
  [host |-> h, ans |-> ans, at |-> linkClock, ttl |-> IF ans = "none" THEN NegativeTtl ELSE PositiveTtl]

\* _put_in_cache, after an expired entry of the host was deleted.
PutInCache(x) ==
  LET kept == DnsWithout(x.host) IN
    Append(IF Len(kept) >= CacheSize THEN Tail(kept) ELSE kept, x)

\* Mutant: an entry that is used again lives on.
DnsHitRenewed(x) == Append(DnsWithout(x.host), [x EXCEPT !.at = linkClock])

\* move_to_end.
DnsHit(x) == Append(DnsWithout(x.host), x)

\* What a look-up may answer, and the cache after it.  All attempts may fail.
Resolutions(h) ==
  IF FreshAnswers(h) # {} THEN {[ans |-> x.ans, cache |-> DnsHit(x)] : x \in FreshAnswers(h)}
  ELSE {[ans |-> a, cache |-> PutInCache(NewEntry(h, a))] : a \in {zone[h], "none"}}

\* SSRFValidator.validate_url: without records the system's resolver is asked,
\* which may fail too; a name without an address is refused.
Checks(l) ==
  LET h == Host[l] IN
  {r \in Resolutions(h) : r.ans # "none"}
    \cup {[ans |-> a, cache |-> r.cache] :
            a \in {zone[h], "none"}, r \in {x \in Resolutions(h) : x.ans = "none"}}

(* URLIntelligencePipeline.analyze_urls ***********************************)
FirstLink(links) == CHOOSE l \in links : \A k \in links : l <= k

\* Mutant: the first URL is not among those visited.
AnalyzeUnvisited(links, eager) ==
  /\ job.pc = "idle" /\ mailsDone < MaxMails /\ mailsDone' = mailsDone + 1
  /\ job' = IF links = {} THEN [NoJob EXCEPT !.pc = "done"]
            ELSE [NoJob EXCEPT !.pc = "check", !.at = FirstLink(links), !.eager = eager]
  /\ UNCHANGED <<zone, dns, linkClock, rezones, shown>>

\* "eager": some link of the mail is shortened or says another address.
AnalyzeUrls(links, eager) ==
  /\ job.pc = "idle" /\ mailsDone < MaxMails /\ mailsDone' = mailsDone + 1
  /\ job' = IF links = {} THEN [NoJob EXCEPT !.pc = "done"]
            ELSE [NoJob EXCEPT !.pc = "check", !.at = FirstLink(links),
                               !.visited = {FirstLink(links)}, !.eager = eager]
  /\ UNCHANGED <<zone, dns, linkClock, rezones, shown>>

(* RedirectExpander.expand_url ********************************************)
Hop(l, ok) == [link |-> l, safe |-> ok]

CheckHop ==
  /\ job.pc = "check"
  /\ \E r \in Checks(job.at) :
       /\ dns' = r.cache
       /\ job' = IF r.ans = "public" THEN [job EXCEPT !.pc = "request", !.since = linkClock]
                 ELSE [job EXCEPT !.pc = "sandbox", !.hops = Append(@, Hop(job.at, FALSE))]
  /\ UNCHANGED <<zone, linkClock, mailsDone, rezones, shown>>

\* normalize_url_canonical of where l redirects to.
NextLink(l) == Canonical[Target[l]]

\* _execute_pinned_request: an answer, or a failure, which counts as a page.
PinnedRequest ==
  /\ job.pc = "request"
  /\ LET hops == Append(job.hops, Hop(job.at, TRUE)) IN
       \/ /\ Target[job.at] # 0
          /\ LET next == NextLink(job.at) IN
               job' = IF next \in job.visited
                      THEN [job EXCEPT !.pc = "sandbox", !.hops = hops, !.loop = TRUE]
                      ELSE [job EXCEPT !.pc = IF Len(hops) < MaxHops THEN "check" ELSE "sandbox",
                                       !.at = next, !.visited = @ \cup {next}, !.hops = hops]
       \/ job' = [job EXCEPT !.pc = "sandbox", !.hops = hops, !.lost = Target[job.at] # 0]
  /\ UNCHANGED <<zone, dns, linkClock, mailsDone, rezones, shown>>

(* PlaywrightSandboxEngine.run_sandbox on the last hop ********************)
LastHop(s) == s[Len(s)]
Justified == job.eager \/ Len(job.hops) > 1 \/ LastHop(job.hops).link \in Wordy

\* Mutant: the page is opened without a check of its own.
SandboxUnchecked ==
  /\ job.pc = "sandbox"
  /\ job' = [job EXCEPT !.pc = "done", !.sandbox = IF Justified THEN "SUCCESS" ELSE "SKIPPED"]
  /\ UNCHANGED <<zone, dns, linkClock, mailsDone, rezones, shown>>

Sandbox ==
  /\ job.pc = "sandbox"
  /\ \/ /\ ~Justified
        /\ job' = [job EXCEPT !.pc = "done"] /\ UNCHANGED dns
     \/ /\ Justified     \* playwright is not installed
        /\ job' = [job EXCEPT !.pc = "done", !.sandbox = "UNAVAILABLE"] /\ UNCHANGED dns
     \/ /\ Justified
        /\ \E r \in Checks(LastHop(job.hops).link) :
             /\ dns' = r.cache
             /\ job' = [job EXCEPT !.pc = "done", !.since = linkClock,
                                !.sandbox = IF r.ans = "public" THEN "SUCCESS" ELSE "FAILED"]
  /\ UNCHANGED <<zone, linkClock, mailsDone, rezones, shown>>

ReportLinks ==
  /\ job.pc = "done" /\ job' = NoJob
  /\ UNCHANGED <<zone, dns, linkClock, mailsDone, rezones, shown>>

(* The world **************************************************************)
Rezone(h, a) ==
  /\ rezones < MaxRezones /\ rezones' = rezones + 1
  /\ zone' = [zone EXCEPT ![h] = a]
  /\ shown' = [shown EXCEPT ![h][linkClock] = @ \cup {a}]
  /\ UNCHANGED <<dns, job, linkClock, mailsDone>>

LinkTick ==
  /\ linkClock < MaxLinkTime /\ linkClock' = linkClock + 1
  /\ shown' = [h \in Hosts |-> [shown[h] EXCEPT ![linkClock + 1] = {zone[h]}]]
  /\ UNCHANGED <<zone, dns, job, mailsDone, rezones>>

LinkNext ==
  \/ \E links \in MailLinks, eager \in BOOLEAN : AnalyzeUrls(links, eager)
  \/ CheckHop \/ PinnedRequest \/ Sandbox \/ ReportLinks
  \/ \E h \in Hosts, a \in Addresses : Rezone(h, a)
  \/ LinkTick

LinkSpec == LinkInit /\ [][LinkNext]_linkVars

-----------------------------------------------------------------------------
(* Properties *************************************************************)
\* Types, and the bound of the cache, in which a host is at most once.
LinkTypeOK ==
  /\ Len(dns) <= CacheSize
  /\ \A i, j \in DOMAIN dns : dns[i].host = dns[j].host => i = j
  /\ job.pc \in {"idle", "check", "request", "sandbox", "done"}
  /\ Len(job.hops) <= MaxHops

WasPublic(l) ==
  \E t \in 0..job.since : job.since - t <= PositiveTtl /\ "public" \in shown[Host[l]][t]

\* A request leaves the program, and a page is opened, only for a host that had a
\* public address at most PositiveTtl ago: using a cached answer does not prolong
\* its life, a refused hop ends the chain and is not opened after all.
ReachedWasPublic ==
  /\ job.pc = "request" => WasPublic(job.at)
  /\ job.sandbox = "SUCCESS" => WasPublic(LastHop(job.hops).link)

\* The report is the redirect chain: hops follow one another as the servers said,
\* none comes twice however its address was spelt, only the last may be refused;
\* and it is cut short only by a refusal, a failed request, a loop, which
\* is reported, or max_hops.
ChainIsExact ==
  (job.pc \in {"sandbox", "done"} /\ job.hops # <<>>) =>
    LET n == Len(job.hops)
        Further(i) == IF Target[job.hops[i].link] = 0 THEN 0 ELSE NextLink(job.hops[i].link)
    IN /\ \A i \in 1..(n - 1) : job.hops[i].safe /\ job.hops[i + 1].link = Further(i)
       /\ \A i, j \in 1..n : job.hops[i].link = job.hops[j].link => i = j
       /\ job.loop => \E i \in 1..n : job.hops[i].link = Further(n)
       /\ (job.hops[n].safe /\ ~job.loop /\ ~job.lost /\ n < MaxHops) => Further(n) = 0

\* The check of links over changing names and a cache that outlives a mail: the
\* chain in the report is exact, what is requested or opened was public within
\* the life of a cache entry.
LinksSound == LinkTypeOK /\ ReachedWasPublic /\ ChainIsExact
=============================================================================
