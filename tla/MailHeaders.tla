---------------------------- MODULE MailHeaders ----------------------------
(***************************************************************************)
(* transmission/ and authentication/: what the headers of a mail say of    *)
(* its way and of its sender.  A letter is written and travels: relays put *)
(* Received headers, DKIM signatures and ARC seals on top.  After every    *)
(* step the two engines can be asked about it, as the orchestrator does in *)
(* its parallel stage: the authentication engine then works on a temporary *)
(* TransmissionAnalysis, which has the sender's domain and nothing else.   *)
(* Scores are in hundredths; times are in seconds.                         *)
(***************************************************************************)
EXTENDS Naturals, Sequences, FiniteSetsExt

CONSTANTS
  MailDomains,  \* domains of senders and signatures
  OrgOf,        \* domain -> its organizational domain
  MarkSets,     \* sets of header marks that letters have
  SpfHeaders,   \* the words in the Received-SPF header (none: no header)
  HopTimes,     \* times that Received headers carry
  MaxHeaders    \* bound: headers put on top on the way

VARIABLE letter

letterVars == <<letter>>

None == "none"
Times == {[given |-> FALSE, at |-> 0, zoned |-> FALSE]}
           \cup [given : {TRUE}, at : HopTimes, zoned : BOOLEAN]
\* Received headers as parse_received_hops reads them: address and date may be missing.
Received == [ip : {"public", "private", None}, time : Times]
Signatures == [d : MailDomains \cup {None}, long : BOOLEAN]

LetterInit ==
  letter \in [from : MailDomains \cup {None}, marks : MarkSets, spf : SpfHeaders,
              received : {<<>>}, dkim : {<<>>}, seals : {<<>>}]

(* transmission/hop_analyzer **********************************************)
Hops(m) == m.received
Stamped(m) == {i \in DOMAIN Hops(m) : Hops(m)[i].time.given}
\* The newest header comes first; the delay is counted from the next older time.
Older(m, i) == {j \in Stamped(m) : j > i}

\* Mutant: a header without a time interrupts the count.
AdjacentLatency(m, i) ==
  IF {i, i + 1} \subseteq Stamped(m) /\ Hops(m)[i].time.at > Hops(m)[i + 1].time.at
  THEN Hops(m)[i].time.at - Hops(m)[i + 1].time.at ELSE 0

Latency(m, i) ==
  IF i \notin Stamped(m) \/ Older(m, i) = {} THEN 0
  ELSE LET then == Hops(m)[Min(Older(m, i))].time.at
           now == Hops(m)[i].time.at
       IN IF now > then THEN now - then ELSE 0

\* Dates with and without a zone cannot be subtracted: the analysis raises.
Incomparable(m) == {Hops(m)[i].time.zoned : i \in Stamped(m)} = BOOLEAN

\* Mutant: the search starts at the edge.
NewestExternal(externals) == Min(externals)

\* "First external hop from end of chain".
OldestExternal(externals) == Max(externals)

\* classify_relay_and_provider: a hop without an address counts as external.
Externals(m) == {i \in DOMAIN Hops(m) : Hops(m)[i].ip # "private"}
Origin(m) == IF Externals(m) = {} THEN None ELSE Hops(m)[OldestExternal(Externals(m))].ip

(* transmission/identity and forgery_detector *****************************)
Worth(found, points) == IF found THEN points ELSE 0
SlowHops(m) == {i \in DOMAIN Hops(m) : Latency(m, i) > 60}

\* detect_header_anomalies: points for what is wrong with the headers themselves.
HeaderPoints(m) ==
  Worth("no_message_id" \in m.marks, 15)
    + Worth({"other_id_domain", "no_message_id"} \cap m.marks = {"other_id_domain"} /\ m.from # None, 10)
    + Worth({"re_prefix", "references"} \cap m.marks = {"re_prefix"}, 30)
    + 5 * Cardinality(SlowHops(m))

\* A title with a free webmail address, or another address in the name.
SpoofedName(m) == {"title_on_webmail", "address_in_name"} \cap m.marks # {}

\* evaluate_sender_identity: a reply-to of a free mailer is another address, too.
ReplyPoints(m) ==
  Worth({"other_reply_to", "webmail_reply_to"} \cap m.marks # {}, 25) + Worth("webmail_reply_to" \in m.marks, 30)

AnomalyPoints(m) == HeaderPoints(m) + Worth(SpoofedName(m), 40) + ReplyPoints(m)

\* The orchestrator puts a bare analysis in the place of one that raised.
Transmission(m) ==
  IF Incomparable(m) THEN [ok |-> FALSE, origin |-> None, latency |-> 0, integrity |-> 100]
  ELSE [ok |-> TRUE, origin |-> Origin(m),
        latency |-> MapThenSumSet(LAMBDA i : Latency(m, i), DOMAIN Hops(m)),
        integrity |-> IF AnomalyPoints(m) > 100 THEN 0 ELSE 100 - AnomalyPoints(m)]

(* authentication/ ********************************************************)
evaluate_spf_record(from, ip, words) ==
  IF from = None \/ ip = None THEN "NONE"
  ELSE IF "pass" \in words THEN "PASS"
  ELSE IF "softfail" \in words THEN "SOFTFAIL"
  ELSE IF "fail" \in words THEN "FAIL" ELSE "PASS"

\* verify_dkim_signatures: a signature without d= speaks for the sender.
Signer(m, s) == IF s.d = None THEN m.from ELSE s.d
Results(m) == {[domain |-> Signer(m, s), ok |-> s.long] : s \in {m.dkim[i] : i \in DOMAIN m.dkim}}
DkimOverall(m) ==
  IF \E r \in Results(m) : r.ok THEN "PASS" ELSE IF Results(m) # {} THEN "FAIL" ELSE "NONE"

check_domain_alignment(a, b) == a # None /\ b # None /\ OrgOf[a] = OrgOf[b]

\* Mutant: only the topmost signature is aligned.
FirstSignatureAligned(m) ==
  /\ m.dkim # <<>> /\ m.dkim[1].long
  /\ check_domain_alignment(Signer(m, m.dkim[1]), m.from)

DkimAligned(m) == \E r \in Results(m) : r.ok /\ check_domain_alignment(r.domain, m.from)

evaluate_dmarc(m, spf) ==
  IF m.from = None THEN "NONE" ELSE IF spf = "PASS" \/ DkimAligned(m) THEN "PASS" ELSE "FAIL"

\* validate_arc_chain: the outcome of the signature is logged only.
ArcValid(m) == m.seals # <<>>
ArcLatest(m) == IF m.seals = <<>> THEN "none" ELSE IF m.seals[1] = "fail" THEN "fail" ELSE "pass"

\* AuthenticationPipeline.verify.
Verify(m, ip) ==
  LET spf == evaluate_spf_record(m.from, ip, m.spf)
      dmarc == evaluate_dmarc(m, spf)
  IN [spf |-> spf, dkim |-> DkimOverall(m), dmarc |-> dmarc, arc |-> ArcValid(m), latest |-> ArcLatest(m),
      pass |-> dmarc = "PASS" \/ (spf = "PASS" /\ DkimOverall(m) = "PASS"),
      impact |-> Worth(dmarc = "FAIL", 30) + Worth(spf \in {"FAIL", "SOFTFAIL"}, 10)
                   + Worth(DkimOverall(m) = "FAIL", 10)]

\* What the parallel stage gets: the temporary analysis has no address.
InPipeline(m) == Verify(m, None)

(* The way of the letter **************************************************)
Headers(m) == Len(m.received) + Len(m.dkim) + Len(m.seals)
OnTop(x, s) == <<x>> \o s

Relay(h) == Headers(letter) < MaxHeaders /\ letter' = [letter EXCEPT !.received = OnTop(h, @)]
Sign(s) == Headers(letter) < MaxHeaders /\ letter' = [letter EXCEPT !.dkim = OnTop(s, @)]
Seal(cv) == Headers(letter) < MaxHeaders /\ letter' = [letter EXCEPT !.seals = OnTop(cv, @)]

LetterNext ==
  \/ \E h \in Received : Relay(h)
  \/ \E s \in Signatures : Sign(s)
  \/ \E cv \in {"none", "pass", "fail"} : Seal(cv)

LetterSpec == LetterInit /\ [][LetterNext]_letterVars

-----------------------------------------------------------------------------
(* Properties *************************************************************)
\* Without an address SPF is not evaluated, so a mail passes in the pipeline exactly when
\* a good signature, wherever it stands, is of the sender's organisation; such a
\* mail would pass with its address known too.
PassesBySignatureOnly ==
  /\ InPipeline(letter).pass <=>
       \E i \in DOMAIN letter.dkim :
         /\ letter.dkim[i].long /\ letter.from # None
         /\ letter.dkim[i].d = None \/ OrgOf[letter.dkim[i].d] = OrgOf[letter.from]
  /\ InPipeline(letter).pass => Verify(letter, Transmission(letter).origin).pass
  /\ InPipeline(letter).impact <= 50

\* No time is lost or counted twice between hops: the delays add up to at least what lies
\* between the oldest and the newest time, and to just that when clocks agree.
DelaysAddUp ==
  (Transmission(letter).ok /\ Stamped(letter) # {}) =>
    LET first == Hops(letter)[Max(Stamped(letter))].time.at
        last == Hops(letter)[Min(Stamped(letter))].time.at
        ordered == \A i, j \in Stamped(letter) : i < j => Hops(letter)[j].time.at <= Hops(letter)[i].time.at
    IN /\ first + Transmission(letter).latency >= last
       /\ ordered => first + Transmission(letter).latency = last

\* A relay changes nothing that was found before it: while the dates can be compared, the origin
\* stays once an external hop is known, the delay does not shrink and the
\* integrity does not recover; and dates that cannot be compared stay so.
RelaysOnlyAdd ==
  [][letter'.received # letter.received =>
       LET old == Transmission(letter)  new == Transmission(letter') IN
       new.ok => /\ old.ok
                 /\ Externals(letter) # {} => new.origin = old.origin
                 /\ new.latency >= old.latency /\ new.integrity <= old.integrity]_letterVars

\* A signature added on the way never turns a pass into a fail; a good one never
\* costs points, and a bad one at most ten.
SignaturesOnlyHelp ==
  [][letter'.dkim # letter.dkim =>
       LET old == InPipeline(letter)  new == InPipeline(letter') IN
       /\ old.pass => new.pass
       /\ new.impact <= old.impact + Worth(~letter'.dkim[1].long, 10)]_letterVars

\* The judgement of a letter's headers as it travels: the way, the delays and the
\* signatures are read alike however many relays and lists it passed.
HeadersSound == []PassesBySignatureOnly /\ []DelaysAddUp /\ RelaysOnlyAdd /\ SignaturesOnlyHelp
=============================================================================
