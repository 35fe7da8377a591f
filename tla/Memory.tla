------------------------------- MODULE Memory -------------------------------
(***************************************************************************)
(* What an organisation remembers of its investigations.  Every request    *)
(* of POST /investigate is served by a thread of its own; it looks up the  *)
(* organisation's store (api/main.py), builds one from the snapshot file   *)
(* if there is none, and after the verdict LearningPipeline saves a record *)
(* per finding.  Each save is an insertion in the dictionary followed by a *)
(* snapshot of the whole dictionary: the file is opened for writing, which *)
(* empties it, and then written.  Nothing is locked.  AnalystFeedback-     *)
(* System and MemoryManager change the same store through its update and   *)
(* delete.  The process may die between any two of these steps.            *)
(*                                                                         *)
(* A record's vector is a function of its text and of the process that     *)
(* embedded it: DeterministicEmbeddingProvider uses Python's hash(), which *)
(* is seeded anew in every process.                                        *)
(***************************************************************************)
EXTENDS Naturals, FiniteSets, Sequences, Dict

CONSTANTS
  Threads,      \* the threads that serve requests
  Cases,        \* case -> what its investigation found
  Opinions,     \* the verdicts of analysts that are tried
  MaxVisits,    \* bound: requests that look the store up, one after the other
  MaxTogether,  \* bound: requests when some of them overlap
  MaxCrashes    \* bound: times the process dies

ASSUME CasesAssumption ==
  \A c \in DOMAIN Cases :
    /\ Cases[c].evidence \in Seq(STRING) /\ Cases[c].confidence \in 0..1000
    /\ {Cases[c].senders, Cases[c].urls, Cases[c].attachments, Cases[c].correlations} \subseteq Nat
ASSUME OpinionsAssumption == Opinions \subseteq {"confirmed_phishing", "false_positive", "false_negative", "safe_email"}
ASSUME VisitsAssumption == {MaxVisits, MaxTogether, MaxCrashes} \subseteq Nat

VARIABLES
  objects,      \* the store objects of this process, each a sequence of records
  services,     \* _organization_memory_services[org]: an object's number, 0 if none
  thread,       \* thread -> where it is and what it holds
  memFile,      \* the snapshot: its length and what it says
  visits,       \* requests so far
  process,      \* which process this is: 0, 1, ...
  verdicts,     \* record -> the confidence an analyst gave it last (history)
  overlapped    \* two threads have used stores at the same time (history)

memVars == <<objects, services, thread, memFile, visits, process, verdicts, overlapped>>

(* Records ****************************************************************)
(* A memory_id is a new uuid; it is modelled by what the record is of: the *)
(* request and the process that made it, the case, the kind of memory and  *)
(* its number among those.                                                 *)
Kinds == {"investigation", "evidence", "threat", "sender", "url", "attachment", "pattern"}

Record(n, c, kind, j) ==
  [id |-> [visit |-> n, seed |-> process, case |-> c, kind |-> kind, nth |-> j],
   conf |-> Cases[c].confidence]

\* The texts that the repositories embed: a threat's is its evidence's.
Text(id) == <<IF id.kind \in {"evidence", "threat"} THEN "finding" ELSE id.kind, id.case, id.nth>>

Vector(r) == <<Text(r.id), r.id.seed>>

Has(s, id) == \E i \in DOMAIN s : s[i].id = id

(* What a request does to the store, one change after the other: "at" says *)
(* which comes first.                                                      *)
Earlier(x, y) == x.at[1] < y.at[1] \/ (x.at[1] = y.at[1] /\ x.at[2] < y.at[2])

Insertion(n, c, kind, j, at) == [op |-> "insert", at |-> at, rec |-> Record(n, c, kind, j)]

Severe(c, j) == Cases[c].evidence[j] \in {"high", "critical"}

\* Mutant: the threat is saved before the evidence it comes from.
ThreatPlaceEarly(j) == <<2, 2 * j - 1>>

\* A threat follows its evidence at once.
ThreatPlace(j) == <<2, 2 * j + 1>>

SavesOf(n, c, kind, count, stage) == {Insertion(n, c, kind, j, <<stage, j>>) : j \in 1..count}

\* LearningPipeline.ingest_investigation
Lessons(n, c) ==
  LET x == Cases[c] IN
    {Insertion(n, c, "investigation", 0, <<1, 0>>)}
    \cup {Insertion(n, c, "evidence", j, <<2, 2 * j>>) : j \in DOMAIN x.evidence}
    \cup {Insertion(n, c, "threat", j, ThreatPlace(j)) : j \in {i \in DOMAIN x.evidence : Severe(c, i)}}
    \cup SavesOf(n, c, "sender", x.senders, 3) \cup SavesOf(n, c, "url", x.urls, 4)
    \cup SavesOf(n, c, "attachment", x.attachments, 5) \cup SavesOf(n, c, "pattern", x.correlations, 6)

(* The dictionary *********************************************************)
Forgetting(s, id) == DelAt(s, CHOOSE i \in DOMAIN s : s[i].id = id)

\* _records[id] = record keeps the place of a key that is there.
Assign(s, rec) ==
  IF Has(s, rec.id)
  THEN [i \in DOMAIN s |-> IF s[i].id = rec.id THEN rec ELSE s[i]]
  ELSE Append(s, rec)

Applied(s, change) ==
  IF change.op = "delete" THEN Forgetting(s, change.rec.id) ELSE Assign(s, change.rec)

(* The snapshot file ******************************************************)
Unreadable(n) == [len |-> n, readable |-> FALSE, says |-> <<>>]
Holding(s) == [len |-> Len(s), readable |-> TRUE, says |-> s]

\* A writer writes from the start of the file; what is longer than its own
\* text stays and makes the file unreadable.
Overwritten(f, s) ==
  IF Len(s) >= f.len THEN Holding(s) ELSE Unreadable(f.len)

\* restore: a file that is missing or cannot be read is an empty store.
Restored == memFile.says

(* similarity_search, the filters before the cut.  "rank" stands for the   *)
(* cosine of each record's vector with the query's.                        *)
Matches(s, kind, least) ==
  {i \in DOMAIN s : kind \in {"any", s[i].id.kind} /\ s[i].conf >= least}

\* Mutant: top_k is applied before the filters.
CutFirst(s, rank, k, kind, least) == Nearest(DOMAIN s, rank, k) \cap Matches(s, kind, least)

similarity_search(s, rank, k, kind, least) == Nearest(Matches(s, kind, least), rank, k)

\* Mutant: every record that has a twin is deleted, the first one too.
EveryTwin(s) ==
  {i \in DOMAIN s : \E j \in DOMAIN s \ {i} : Vector(s[j]) = Vector(s[i])}

\* MemoryManager.deduplicate: every record whose vector an earlier one has.
Duplicates(s) == {i \in DOMAIN s : \E j \in DOMAIN s : j < i /\ Vector(s[j]) = Vector(s[i])}

(* Threads ****************************************************************)
NoChange == [op |-> "none"]
Resting == [pc |-> "idle", visit |-> 0, store |-> 0, todo |-> {}, doing |-> NoChange, dump |-> <<>>]

MemInit ==
  /\ objects = <<>> /\ services = 0
  /\ thread = [t \in Threads |-> Resting]
  /\ memFile = Unreadable(0) /\ visits = 0 /\ process = 0
  /\ verdicts = EmptyDict /\ overlapped = FALSE

Busy(t) == thread[t].pc # "idle"
Used(t) == objects[thread[t].store]
Goes(t, new) == thread' = [thread EXCEPT ![t] = new]

\* get_memory_services, up to the look-up: the store that is known, or a new
\* one, whose constructor restores the snapshot.
GetServices(t) ==
  /\ thread[t].pc = "idle" /\ visits < MaxVisits
  /\ visits' = visits + 1
  /\ \/ /\ services # 0
        /\ Goes(t, [Resting EXCEPT !.pc = "ready", !.visit = visits + 1, !.store = services])
        /\ UNCHANGED objects
     \/ /\ services = 0
        /\ objects' = Append(objects, Restored)
        /\ Goes(t, [Resting EXCEPT !.pc = "built", !.visit = visits + 1, !.store = Len(objects) + 1])
  /\ overlapped' = (overlapped \/ \E u \in Threads \ {t} : Busy(u))
  /\ overlapped' => visits < MaxTogether
  /\ UNCHANGED <<services, memFile, process, verdicts>>

\* ... and the assignment that makes it known.
Publish(t) ==
  /\ thread[t].pc = "built"
  /\ services' = thread[t].store
  /\ Goes(t, [thread[t] EXCEPT !.pc = "ready"])
  /\ UNCHANGED <<objects, memFile, visits, process, verdicts, overlapped>>

Works(t, changes) == Goes(t, [thread[t] EXCEPT !.pc = "change", !.todo = changes])

Learn(t, c) ==
  /\ thread[t].pc = "ready"
  /\ Works(t, Lessons(thread[t].visit, c))
  /\ UNCHANGED <<objects, services, memFile, visits, process, verdicts, overlapped>>

\* correct_record, in thousandths; a record that is not there changes nothing.
Confidence ==
  [confirmed_phishing |-> 990, false_positive |-> 100, false_negative |-> 990, safe_email |-> 950]

correct_record(t, verdict) ==
  /\ thread[t].pc = "ready"
  /\ \E i \in DOMAIN Used(t) :
       Works(t, {[op |-> "update", at |-> <<1, i>>, rec |-> [Used(t)[i] EXCEPT !.conf = Confidence[verdict]]]})
  /\ UNCHANGED <<objects, services, memFile, visits, process, verdicts, overlapped>>

deduplicate(t) ==
  /\ thread[t].pc = "ready" /\ Duplicates(Used(t)) # {}
  /\ Works(t, {[op |-> "delete", at |-> <<1, i>>, rec |-> Used(t)[i]] : i \in Duplicates(Used(t))})
  /\ UNCHANGED <<objects, services, memFile, visits, process, verdicts, overlapped>>

RequestEnds(t) ==
  /\ thread[t].pc = "change" /\ thread[t].todo = {}
  /\ Goes(t, Resting)
  /\ UNCHANGED <<objects, services, memFile, visits, process, verdicts, overlapped>>

\* The next of a thread's changes, and the thread without it.
Following(t) == {c \in thread[t].todo : \A d \in thread[t].todo \ {c} : Earlier(c, d)}
After(t, c) == [thread[t] EXCEPT !.todo = @ \ {c}]

\* Mutant: update takes no snapshot.
ChangeUnsaved(t) ==
  /\ thread[t].pc = "change"
  /\ \E c \in Following(t) :
       \/ /\ c.op = "insert" \/ Has(Used(t), c.rec.id)
          /\ objects' = [objects EXCEPT ![thread[t].store] = Applied(@, c)]
          /\ Goes(t, IF c.op = "update" THEN After(t, c)
                     ELSE [After(t, c) EXCEPT !.pc = "dump", !.doing = c, !.dump = Applied(Used(t), c)])
       \/ /\ c.op # "insert" /\ ~Has(Used(t), c.rec.id)
          /\ Goes(t, IF c.op = "update" THEN Resting ELSE After(t, c))
          /\ UNCHANGED objects
  /\ UNCHANGED <<services, memFile, visits, process, verdicts, overlapped>>

\* insert, update and delete of the store.  update raises for a record that
\* is gone; deleting one that is gone does nothing.
Change(t) ==
  /\ thread[t].pc = "change"
  /\ \E c \in Following(t) :
       \/ /\ c.op = "insert" \/ Has(Used(t), c.rec.id)
          /\ objects' = [objects EXCEPT ![thread[t].store] = Applied(@, c)]
          /\ Goes(t, [After(t, c) EXCEPT !.pc = "dump", !.doing = c, !.dump = Applied(Used(t), c)])
       \/ /\ c.op # "insert" /\ ~Has(Used(t), c.rec.id)
          /\ Goes(t, IF c.op = "update" THEN Resting ELSE After(t, c))
          /\ UNCHANGED objects
  /\ UNCHANGED <<services, memFile, visits, process, verdicts, overlapped>>

\* snapshot lists the values.  When another thread has added or removed one
\* the iteration may raise: the request fails and saves no more.
Dump(t) ==
  /\ thread[t].pc = "dump"
  /\ \/ Goes(t, [thread[t] EXCEPT !.pc = "open", !.dump = Used(t)])
     \/ /\ Len(Used(t)) # Len(thread[t].dump)
        /\ Goes(t, Resting)
  /\ UNCHANGED <<objects, services, memFile, visits, process, verdicts, overlapped>>

Open(t) ==
  /\ thread[t].pc = "open"
  /\ memFile' = Unreadable(0)
  /\ Goes(t, [thread[t] EXCEPT !.pc = "write"])
  /\ UNCHANGED <<objects, services, visits, process, verdicts, overlapped>>

Write(t) ==
  /\ thread[t].pc = "write"
  /\ LET x == thread[t]  done == x.doing IN
       /\ memFile' = Overwritten(memFile, x.dump)
       /\ Goes(t, [x EXCEPT !.pc = "change", !.dump = <<>>, !.doing = NoChange])
       /\ verdicts' = IF done.op = "update" THEN Put(verdicts, done.rec.id, done.rec.conf) ELSE verdicts
  /\ UNCHANGED <<objects, services, visits, process, overlapped>>

MemCrash ==
  /\ process < MaxCrashes
  /\ process' = process + 1
  /\ objects' = <<>> /\ services' = 0
  /\ thread' = [t \in Threads |-> Resting]
  /\ UNCHANGED <<memFile, visits, verdicts, overlapped>>

MemStep(t) ==
  \/ GetServices(t) \/ Publish(t) \/ \E c \in DOMAIN Cases : Learn(t, c)
  \/ \E v \in Opinions : correct_record(t, v)
  \/ deduplicate(t) \/ RequestEnds(t) \/ Change(t) \/ Dump(t) \/ Open(t) \/ Write(t)

MemNext == (\E t \in Threads : MemStep(t)) \/ MemCrash

MemSpec == MemInit /\ [][MemNext]_memVars

-----------------------------------------------------------------------------
(* Properties *************************************************************)
StoreOK(s) ==
  /\ \A i \in DOMAIN s : s[i].id.kind \in Kinds /\ s[i].conf \in 0..1000
  /\ \A i, j \in DOMAIN s : s[i].id = s[j].id => i = j

\* Type correctness; no store and no snapshot holds an identifier twice
\* (a dictionary, which insert replaces in place).
MemTypeOK ==
  /\ services \in 0..Len(objects)
  /\ \A i \in DOMAIN objects : StoreOK(objects[i])
  /\ StoreOK(memFile.says)
  /\ \A t \in Threads : thread[t].pc \in {"idle", "built", "ready", "change", "dump", "open", "write"}
  /\ visits \in 0..MaxVisits /\ process \in 0..MaxCrashes

\* As long as no two requests of the organisation overlapped, the snapshot
\* says what the store holds whenever no operation is under way: insert,
\* update and delete each end with a snapshot.  A verdict or a deletion that
\* were kept in memory only would come undone with the next start.
SnapshotFollowsStore ==
  (~overlapped /\ services # 0 /\ \A t \in Threads : thread[t].pc \in {"idle", "ready", "change"})
    => memFile.says = objects[services]

\* ingest_investigation saves an evidence before the threat made from it, and
\* deduplicate keeps the earlier of two records with one vector: no store and
\* no readable snapshot ever knows a threat without its evidence, wherever the
\* process died and however requests overlapped.
Grounded(s) ==
  \A i \in DOMAIN s : s[i].id.kind = "threat" =>
    \E j \in DOMAIN s : s[j].id.kind = "evidence" /\ Text(s[j].id) = Text(s[i].id)

ThreatHasEvidence ==
  /\ \A i \in DOMAIN objects : Grounded(objects[i])
  /\ Grounded(memFile.says)

\* The last verdict of an analyst on a record is its confidence for as long as
\* the record is remembered, over a crash too, unless requests overlapped.
VerdictSticks ==
  (~overlapped /\ \A t \in Threads : thread[t].pc \notin {"dump", "open", "write"}) =>
    \A i \in DOMAIN objects : \A j \in DOMAIN objects[i] :
      LET r == objects[i][j] IN r.id \in DOMAIN verdicts => r.conf = verdicts[r.id]

\* deduplicate removes records and no content: of every vector in the store
\* exactly one record is left, whatever was learnt twice or by another process.
DeduplicateKeepsOne ==
  \A i \in DOMAIN objects :
    LET s == objects[i]  rest == DOMAIN s \ Duplicates(s) IN
      \A j \in DOMAIN s : \E only \in rest : {x \in rest : Vector(s[x]) = Vector(s[j])} = {only}

\* similarity_search returns fewer than top_k records only when it returns all
\* that pass the filters, and none it leaves out is nearer than one it returns:
\* the filters come before the cut.  (Asked when a request may ask it: the
\* reasoning engine searches between the look-up and the learning.)
SearchIsExact ==
  \A t \in {x \in Threads : thread[x].pc = "ready"} :
    LET s == Used(t) IN
      \A rank \in [DOMAIN s -> 0..1], k \in 1..2, kind \in {"any", "threat"}, least \in {0, 300} :
        LET found == similarity_search(s, rank, k, kind, least)
            right == Matches(s, kind, least)
        IN /\ found \subseteq right
           /\ Cardinality(found) < k => found = right
           /\ \A x \in found, y \in right \ found : rank[x] >= rank[y]

\* What a store remembers survives the process: without overlapping requests the
\* snapshot is the store and an analyst's verdict sticks, and however requests
\* overlap and wherever the process dies no threat is left without its evidence.
MemoryDurable == MemTypeOK /\ SnapshotFollowsStore /\ ThreatHasEvidence /\ VerdictSticks

\* The two questions asked of a store are answered exactly: a search finds the
\* nearest records that pass the filters, and deduplication keeps one of each.
MemoryExact == SearchIsExact /\ DeduplicateKeepsOne

\* Both: MemoryDurable and MemoryExact.
MemorySound == MemoryDurable /\ MemoryExact
=============================================================================
