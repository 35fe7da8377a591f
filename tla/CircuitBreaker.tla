--------------------------- MODULE CircuitBreaker ---------------------------
(***************************************************************************)
(* ProviderCircuitBreaker (threat_intel/resilience/circuit_breaker.py): a  *)
(* breaker is a record, and each method a function of it and of the time.  *)
(* The manager of the threat-intelligence providers, the providers that    *)
(* call a live service, and the remediation adapters keep one each.        *)
(***************************************************************************)
EXTENDS Integers, SequenceTheorems, TLAPS

CONSTANTS
  Threshold,   \* failure_threshold
  Recovery     \* recovery_timeout

ASSUME BreakerAssumption == {Threshold, Recovery} \subseteq Nat \ {0}

NewBreaker == [state |-> "CLOSED", failures |-> 0, since |-> 0]

\* Mutant: a breaker that let a probe through is closed at once.
ReopenAfterAllow(b, t) ==
  IF b.state = "OPEN" THEN [state |-> "CLOSED", failures |-> 0, since |-> t] ELSE b

\* allow_request: whether it permits the call, and the breaker it leaves.
Allows(b, t) == b.state # "OPEN" \/ t - b.since >= Recovery
AfterAllow(b, t) ==
  IF b.state = "OPEN" THEN [b EXCEPT !.state = "HALF_OPEN", !.since = t] ELSE b

\* record_success.
AfterSuccess(b, t) ==
  IF b.state = "HALF_OPEN" THEN [state |-> "CLOSED", failures |-> 0, since |-> t]
  ELSE [b EXCEPT !.failures = 0]

\* record_failure trips the breaker at the threshold.
AfterFailure(b, t) ==
  LET n == b.failures + 1 IN
  IF n >= Threshold /\ b.state # "OPEN" THEN [state |-> "OPEN", failures |-> n, since |-> t]
  ELSE [b EXCEPT !.failures = n]

-----------------------------------------------------------------------------
(***************************************************************************)
(* What a breaker has heard of a row of calls that ended, at time t: it    *)
(* counts the failures at their end, is open since the last one of         *)
(* Threshold, and half open only once the recovery time has passed since.  *)
(***************************************************************************)
BreakerRow == [state : {"CLOSED", "OPEN", "HALF_OPEN"}, failures : Nat, since : Nat]
CallRow == [at : Nat, ok : BOOLEAN]

Heard(b, c, t) ==
  /\ b \in BreakerRow /\ c \in Seq(CallRow) /\ b.failures <= Len(c)
  /\ \A i \in (Len(c) - b.failures + 1)..Len(c) : ~c[i].ok
  /\ b.failures < Len(c) => c[Len(c) - b.failures].ok
  /\ b.state = "CLOSED" <=> b.failures < Threshold
  /\ b.state = "OPEN" => b.since = c[Len(c)].at
  /\ b.state = "HALF_OPEN" => t - c[Len(c)].at >= Recovery

\* A breaker refuses exactly when the last Threshold calls failed and the recovery
\* time has not passed.
LEMMA HeardRests ==
  ASSUME NEW b, NEW c, NEW t \in Nat, Heard(b, c, t)
  PROVE  ~Allows(b, t) <=> /\ Len(c) >= Threshold /\ t - c[Len(c)].at < Recovery
                           /\ \A i \in (Len(c) - Threshold + 1)..Len(c) : ~c[i].ok
<1>1. PICK n \in Nat, k \in Nat : n = Len(c) /\ k = b.failures /\ k <= n
  BY LenProperties DEF Heard, BreakerRow
<1>2. Threshold \in Nat \ {0} /\ Recovery \in Nat \ {0}
  BY BreakerAssumption
<1>3. n > 0 => c[n].at \in Nat
  <2>1. n > 0 => c[n] \in CallRow
    BY <1>1, ElementOfSeq DEF Heard
  <2> QED BY <2>1 DEF CallRow
<1>4. CASE k < Threshold
  <2>1. Allows(b, t)
    BY <1>1, <1>4 DEF Heard, Allows
  <2>2. ASSUME n >= Threshold PROVE n - k \in (n - Threshold + 1)..n /\ c[n - k].ok
    BY <1>1, <1>2, <1>4, <2>2 DEF Heard
  <2> QED BY <1>1, <2>1, <2>2
<1>5. CASE k >= Threshold
  <2>1. n >= Threshold /\ n > 0 /\ \A i \in (n - Threshold + 1)..n : ~c[i].ok
    BY <1>1, <1>2, <1>5 DEF Heard
  <2>2. b.state \in {"OPEN", "HALF_OPEN"}
    BY <1>1, <1>2, <1>5 DEF Heard, BreakerRow
  <2>3. CASE b.state = "OPEN"
    BY <1>1, <1>2, <1>3, <2>1, <2>3 DEF Heard, Allows
  <2>4. CASE b.state = "HALF_OPEN"
    BY <1>1, <1>2, <1>3, <2>1, <2>4 DEF Heard, Allows
  <2> QED BY <2>2, <2>3, <2>4
<1> QED BY <1>1, <1>2, <1>4, <1>5

\* Time alone changes nothing that a breaker has heard.
LEMMA HeardLater ==
  ASSUME NEW b, NEW c, NEW t \in Nat, NEW u \in Nat, Heard(b, c, t), t <= u
  PROVE  Heard(b, c, u)
<1>1. ASSUME b.state = "HALF_OPEN" PROVE u - c[Len(c)].at >= Recovery
  <2>1. PICK n \in Nat : n = Len(c) /\ b.failures <= n
    BY LenProperties DEF Heard
  <2>2. n > 0
    BY <1>1, <2>1, BreakerAssumption DEF Heard, BreakerRow
  <2>3. c[n].at \in Nat
    <3>1. c[n] \in CallRow
      BY <2>1, <2>2, ElementOfSeq DEF Heard
    <3> QED BY <3>1 DEF CallRow
  <2> QED BY <1>1, <2>1, <2>3, BreakerAssumption DEF Heard
<1> QED BY <1>1 DEF Heard

\* Letting a call through, as a probe perhaps, is no news.
LEMMA HeardAllow ==
  ASSUME NEW b, NEW c, NEW t \in Nat, Heard(b, c, t), Allows(b, t)
  PROVE  Heard(AfterAllow(b, t), c, t) /\ AfterAllow(b, t).state # "OPEN"
<1>1. CASE b.state # "OPEN"
  BY <1>1 DEF AfterAllow
<1>2. CASE b.state = "OPEN"
  <2>1. PICK d : d = AfterAllow(b, t)
    OBVIOUS
  <2>2. d \in BreakerRow /\ d.state = "HALF_OPEN" /\ d.failures = b.failures
    BY <1>2, <2>1 DEF Heard, BreakerRow, AfterAllow
  <2>3. t - c[Len(c)].at >= Recovery /\ ~(b.failures < Threshold)
    BY <1>2 DEF Heard, Allows
  <2>4. Heard(d, c, t)
    BY <2>2, <2>3 DEF Heard
  <2> QED BY <2>1, <2>2, <2>4
<1> QED BY <1>1, <1>2

\* record_success of a call that was let through.
LEMMA HeardSuccess ==
  ASSUME NEW b, NEW c, NEW t \in Nat, Heard(b, c, t), b.state # "OPEN"
  PROVE  Heard(AfterSuccess(b, t), Append(c, [at |-> t, ok |-> TRUE]), t)
<1> DEFINE d == AfterSuccess(b, t)
           e == [at |-> t, ok |-> TRUE]
           n == Len(c)
<1>1. n \in Nat
  BY LenProperties DEF Heard
<1>2. e \in CallRow /\ e.at = t /\ e.ok
  BY <1>1 DEF CallRow
<1>3. d \in BreakerRow /\ d.failures = 0 /\ d.state = "CLOSED"
  BY <1>1, BreakerAssumption DEF Heard, BreakerRow, AfterSuccess
<1> HIDE DEF d, e, n
<1>4. PICK f : f = Append(c, e) /\ f \in Seq(CallRow) /\ Len(f) = n + 1 /\ f[n + 1] = e
  <2>1. c \in Seq(CallRow) /\ n = Len(c)
    BY DEF Heard, n
  <2>2. Append(c, e) \in Seq(CallRow) /\ Len(Append(c, e)) = n + 1 /\ Append(c, e)[n + 1] = e
    BY <1>2, <2>1, AppendProperties
  <2> QED BY <2>2
<1>5. Heard(d, f, t)
  BY <1>1, <1>2, <1>3, <1>4, BreakerAssumption DEF Heard
<1> QED BY <1>4, <1>5 DEF d, e

\* record_failure of a call that was let through.
LEMMA HeardFailure ==
  ASSUME NEW b, NEW c, NEW t \in Nat, Heard(b, c, t), b.state # "OPEN"
  PROVE  Heard(AfterFailure(b, t), Append(c, [at |-> t, ok |-> FALSE]), t)
<1> DEFINE d == AfterFailure(b, t)
           e == [at |-> t, ok |-> FALSE]
           n == Len(c)
           k == b.failures
<1>1. n \in Nat /\ k \in Nat /\ k <= n
  BY LenProperties DEF Heard, BreakerRow
<1>2. e \in CallRow /\ e.at = t /\ ~e.ok
  BY <1>1 DEF CallRow
<1>3. Threshold \in Nat \ {0}
  BY BreakerAssumption
<1>4. d \in BreakerRow /\ d.failures = k + 1 /\ (d.state = "CLOSED" <=> k + 1 < Threshold)
      /\ d.state # "HALF_OPEN" /\ (d.state = "OPEN" => d.since = t)
  <2>1. CASE k + 1 >= Threshold
    BY <1>1, <1>3, <2>1 DEF AfterFailure, BreakerRow
  <2>2. CASE k + 1 < Threshold
    <3>1. d = [b EXCEPT !.failures = k + 1] /\ b.state = "CLOSED"
      BY <1>1, <1>3, <2>2 DEF AfterFailure, Heard, BreakerRow
    <3> QED BY <1>3, <2>2, <3>1 DEF Heard, BreakerRow
  <2> QED BY <1>1, <1>3, <2>1, <2>2
<1>0. c \in Seq(CallRow) /\ (\A i \in (n - k + 1)..n : ~c[i].ok) /\ (k < n => c[n - k].ok)
  BY DEF Heard
<1> HIDE DEF d, e, n, k
<1>5. PICK f : f = Append(c, e) /\ f \in Seq(CallRow) /\ Len(f) = n + 1 /\ f[n + 1] = e
               /\ \A i \in 1..n : f[i] = c[i]
  <2>1. /\ Append(c, e) \in Seq(CallRow) /\ Len(Append(c, e)) = n + 1 /\ Append(c, e)[n + 1] = e
        /\ \A i \in 1..n : Append(c, e)[i] = c[i]
    BY <1>0, <1>2, AppendProperties DEF n
  <2> QED BY <2>1
<1>6. \A i \in ((n + 1) - (k + 1) + 1)..(n + 1) : ~f[i].ok
  <2> SUFFICES ASSUME NEW i \in ((n + 1) - (k + 1) + 1)..(n + 1) PROVE ~f[i].ok
    OBVIOUS
  <2>1. CASE i = n + 1
    BY <1>2, <1>5, <2>1
  <2>2. CASE i # n + 1
    <3>1. i \in (n - k + 1)..n /\ i \in 1..n
      BY <1>1, <2>2
    <3> QED BY <1>0, <1>5, <3>1
  <2> QED BY <2>1, <2>2
<1>7. k + 1 < n + 1 => f[(n + 1) - (k + 1)].ok
  <2> SUFFICES ASSUME k < n PROVE f[(n + 1) - (k + 1)].ok
    BY <1>1
  <2>1. (n + 1) - (k + 1) = n - k /\ n - k \in 1..n
    BY <1>1
  <2> QED BY <1>0, <1>5, <2>1
<1>8. Heard(d, f, t)
  <2>1. d.failures <= Len(f) /\ (d.state = "OPEN" => d.since = f[Len(f)].at)
    BY <1>1, <1>2, <1>4, <1>5
  <2>2. d.state = "CLOSED" <=> d.failures < Threshold
    BY <1>4
  <2>3. (\A i \in (Len(f) - d.failures + 1)..Len(f) : ~f[i].ok) /\ (d.failures < Len(f) => f[Len(f) - d.failures].ok)
    BY <1>4, <1>5, <1>6, <1>7
  <2> QED BY <1>4, <1>5, <2>1, <2>2, <2>3 DEF Heard
<1> QED BY <1>5, <1>8 DEF d, e
=============================================================================
