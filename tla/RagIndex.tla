------------------------------ MODULE RagIndex ------------------------------
(***************************************************************************)
(* The index behind retrieval-augmented generation: PgVectorStore with the *)
(* in-memory store it falls back to, DenseEmbeddingProvider with its cache *)
(* in Redis and the hashing provider it falls back to, and the retrieval   *)
(* of SemanticIncidentRAGEngine over both.  A database or an embedding     *)
(* service that fails once is not asked again until the process restarts.  *)
(*                                                                         *)
(* A vector is the space it lies in, "neural" or "hashed"; a similarity    *)
(* is a rank, over which the properties quantify.                          *)
(***************************************************************************)
EXTENDS Naturals, FiniteSets, Sequences, Dict

CONSTANTS
  RagTenants,   \* tenants that search and save
  Texts,        \* texts of records and queries
  TopK,         \* rag_top_k
  MaxRagIds,    \* bound: records ever saved
  MaxRagOps,    \* bound: operations
  MaxBatch      \* bound: texts in a batch

ASSUME TopKAssumption == TopK \in Nat \ {0}

VARIABLES
  rows,         \* the table scamon_memory_vectors: id -> record
  local,        \* _fallback_store: id -> record
  pgDown,       \* PgVectorStore._is_degraded
  embDown,      \* DenseEmbeddingProvider._is_degraded
  cached,       \* text -> the space of the vector that Redis has for it
  batchIn,      \* the texts of the batch under way
  batchOut,     \* the vectors found for it so far
  found,        \* the answer of the last retrieval
  saved,        \* records that were saved and not deleted by this process (history)
  ragOps,
  issuedIds     \* records ever saved

ragVars == <<rows, local, pgDown, embDown, cached, batchIn, batchOut, found, saved, ragOps, issuedIds>>

NoAnswer == [asked |-> FALSE, tenant |-> "", status |-> "EMPTY", source |-> "none", ids |-> {}]

RagInit ==
  /\ rows = EmptyDict /\ local = EmptyDict /\ cached = EmptyDict
  /\ pgDown \in BOOLEAN /\ embDown \in BOOLEAN     \* no URL, no API key
  /\ batchIn = <<>> /\ batchOut = <<>> /\ found = NoAnswer
  /\ saved = {} /\ ragOps = 0 /\ issuedIds = 0

Counted == ragOps < MaxRagOps /\ ragOps' = ragOps + 1

(* embed_text *************************************************************)
\* What may come of it: the space of the vector, the flag and the cache.
Result(space, down, cache) == [space |-> space, down |-> down, cache |-> cache]
Fallback(down) == Result("hashed", down, cached)

\* Mutant: what the fallback answered is cached too.
EmbeddingsAll(text) ==
  IF text \in DOMAIN cached THEN {Result(cached[text], embDown, cached)}
  ELSE {Result("hashed", embDown, Put(cached, text, "hashed"))}

Embeddings(text) ==
  \* a cache that cannot be read is a cache that does not know the text
  (IF text \in DOMAIN cached THEN {Result(cached[text], embDown, cached)} ELSE {})
    \cup (IF embDown THEN {Fallback(TRUE)}
          ELSE {Fallback(FALSE),    \* rate limit, or a vector of another dimension
                Fallback(TRUE),     \* HTTP error, timeout
                Result("neural", FALSE, cached),    \* the cache cannot be written
                Result("neural", FALSE, Put(cached, text, "neural"))})

Embedded(r) == embDown' = r.down /\ cached' = r.cache

(* embed_batch: a text that comes again gets the vector it got before *****)
StartBatch(texts) ==
  /\ Len(batchOut) = Len(batchIn) /\ Counted
  /\ batchIn' = texts /\ batchOut' = <<>>
  /\ UNCHANGED <<rows, local, pgDown, embDown, cached, found, saved, issuedIds>>

Before(text) == {i \in DOMAIN batchOut : batchIn[i] = text}

\* Mutant: every text is embedded anew.
BatchStepEach ==
  /\ Len(batchOut) < Len(batchIn)
  /\ \E r \in Embeddings(batchIn[Len(batchOut) + 1]) :
       Embedded(r) /\ batchOut' = Append(batchOut, r.space)
  /\ UNCHANGED <<rows, local, pgDown, batchIn, found, saved, ragOps, issuedIds>>

BatchStep ==
  /\ Len(batchOut) < Len(batchIn)
  /\ LET text == batchIn[Len(batchOut) + 1] IN
       \/ /\ Before(text) # {}
          /\ batchOut' = Append(batchOut, batchOut[CHOOSE i \in Before(text) : TRUE])
          /\ UNCHANGED <<embDown, cached>>
       \/ /\ Before(text) = {}
          /\ \E r \in Embeddings(text) : Embedded(r) /\ batchOut' = Append(batchOut, r.space)
  /\ UNCHANGED <<rows, local, pgDown, batchIn, found, saved, ragOps, issuedIds>>

(* PgVectorStore **********************************************************)
\* What may come of a statement: it is carried out; it fails; or the database
\* commits it and the answer is lost.
Outcomes == IF pgDown THEN {"local"} ELSE {"done", "failed", "unsure"}
Reaches(o) == o \in {"done", "unsure"}      \* the table changes
Falls(o) == o \in {"local", "failed", "unsure"}    \* the fallback store is used
Degrades(o) == pgDown' = (pgDown \/ o \in {"failed", "unsure"})

\* Mutant: a failed insertion is only logged.
InsertLogged(tenant, text) ==
  /\ issuedIds < MaxRagIds /\ Counted
  /\ \E o \in Outcomes, r \in Embeddings(text) :
       LET rec == [tenant |-> tenant, space |-> r.space] IN
       /\ Embedded(r) /\ Degrades(o)
       /\ rows' = IF Reaches(o) THEN Put(rows, issuedIds + 1, rec) ELSE rows
       /\ local' = IF o = "local" THEN Put(local, issuedIds + 1, rec) ELSE local
  /\ issuedIds' = issuedIds + 1 /\ saved' = saved \cup {issuedIds + 1}
  /\ UNCHANGED <<batchIn, batchOut, found>>

\* BaseMemoryRepository.save: the text is embedded and the record inserted.
Insert(tenant, text) ==
  /\ issuedIds < MaxRagIds /\ Counted
  /\ \E o \in Outcomes, r \in Embeddings(text) :
       LET rec == [tenant |-> tenant, space |-> r.space] IN
       /\ Embedded(r) /\ Degrades(o)
       /\ rows' = IF Reaches(o) THEN Put(rows, issuedIds + 1, rec) ELSE rows
       /\ local' = IF Falls(o) THEN Put(local, issuedIds + 1, rec) ELSE local
  /\ issuedIds' = issuedIds + 1 /\ saved' = saved \cup {issuedIds + 1}
  /\ UNCHANGED <<batchIn, batchOut, found>>

\* update: the row's embedding and metadata, not its tenant.  A row that is
\* not there raises KeyError, in the table as in the fallback store.
Update(id, text) ==
  /\ Counted
  /\ \E o \in Outcomes, r \in Embeddings(text) :
       /\ Embedded(r) /\ Degrades(o)
       /\ LET With(d) == IF id \in DOMAIN d THEN Put(d, id, [d[id] EXCEPT !.space = r.space]) ELSE d
          IN /\ rows' = IF Reaches(o) THEN With(rows) ELSE rows
             /\ local' = IF Falls(o) THEN With(local) ELSE local
  /\ UNCHANGED <<batchIn, batchOut, found, saved, issuedIds>>

Delete(id) ==
  /\ Counted
  /\ \E o \in Outcomes :
       /\ Degrades(o)
       /\ rows' = IF Reaches(o) THEN Drop(rows, {id}) ELSE rows
       /\ local' = IF Falls(o) THEN Drop(local, {id}) ELSE local
  /\ saved' = saved \ {id}
  /\ UNCHANGED <<embDown, cached, batchIn, batchOut, found, issuedIds>>

\* clear does not set the flag when the database fails.
Clear ==
  /\ Counted
  /\ \E o \in Outcomes :
       /\ rows' = IF Reaches(o) THEN EmptyDict ELSE rows
       /\ local' = IF Falls(o) THEN EmptyDict ELSE local
  /\ saved' = {}
  /\ UNCHANGED <<pgDown, embDown, cached, batchIn, batchOut, found, issuedIds>>

(* Retrieval **************************************************************)
OfTenant(d, tenant) == {i \in DOMAIN d : d[i].tenant = tenant}
Relevant(ids, rank) == {i \in ids : rank[i] >= 1}       \* rag_similarity_threshold

\* Mutant: the tenant is looked at after the database has cut the list.
MatchesLate(d, tenant, rank) ==
  Nearest(Relevant(Nearest(DOMAIN d, rank, 2 * TopK), rank) \cap OfTenant(d, tenant), rank, TopK)

\* IncidentRetriever.retrieve_raw_matches: twice as many as asked for, those
\* above the threshold, the best of them.
RawMatches(d, tenant, rank) ==
  Nearest(Relevant(Nearest(OfTenant(d, tenant), rank, 2 * TopK), rank), rank, TopK)

Status(emb, pg, ids) ==
  CASE emb -> "DEGRADED_EMBEDDING"
    [] ~emb /\ pg -> "DEGRADED_STORAGE"
    [] ~emb /\ ~pg /\ ids = {} -> "EMPTY"
    [] OTHER -> "CONNECTED"

\* Mutant: the state of the two services is read before they are asked.
RetrieveEarly(tenant, text) ==
  /\ Counted
  /\ \E r \in Embeddings(text), o \in Outcomes \ {"unsure"} :
       LET d == IF Falls(o) THEN local ELSE rows IN
       \E rank \in [DOMAIN d -> 0..1] :
         LET ids == RawMatches(d, tenant, rank) IN
         /\ Embedded(r) /\ Degrades(o)
         /\ found' = [asked |-> TRUE, tenant |-> tenant, status |-> Status(embDown, pgDown, ids),
                      source |-> IF Falls(o) THEN "local" ELSE "database", ids |-> ids]
  /\ UNCHANGED <<rows, local, batchIn, batchOut, saved, issuedIds>>

\* SemanticIncidentRAGEngine.retrieve.
Retrieve(tenant, text) ==
  /\ Counted
  /\ \E r \in Embeddings(text), o \in Outcomes \ {"unsure"} :
       LET d == IF Falls(o) THEN local ELSE rows IN
       \E rank \in [DOMAIN d -> 0..1] :
         LET ids == RawMatches(d, tenant, rank) IN
         /\ Embedded(r) /\ Degrades(o)
         /\ found' = [asked |-> TRUE, tenant |-> tenant, status |-> Status(embDown', pgDown', ids),
                      source |-> IF Falls(o) THEN "local" ELSE "database", ids |-> ids]
  /\ UNCHANGED <<rows, local, batchIn, batchOut, saved, issuedIds>>

\* rag_enabled is off, or the query is blank: neither service is asked.
RetrieveNothing ==
  /\ Counted /\ found' = NoAnswer
  /\ UNCHANGED <<rows, local, pgDown, embDown, cached, batchIn, batchOut, saved, issuedIds>>

\* The process starts again: flags and fallback store are new.
RagRestart ==
  /\ Counted
  /\ pgDown' = FALSE /\ embDown' = FALSE /\ local' = EmptyDict
  /\ batchIn' = <<>> /\ batchOut' = <<>> /\ found' = NoAnswer
  /\ saved' = {}
  /\ UNCHANGED <<rows, cached, issuedIds>>

CacheExpires ==
  /\ Counted
  /\ \E x \in DOMAIN cached : cached' = Drop(cached, {x})
  /\ UNCHANGED <<rows, local, pgDown, embDown, batchIn, batchOut, found, saved, issuedIds>>

\* The store and the batches meet only in the provider's flag and cache.
RagNext(part) ==
  \/ RagRestart \/ CacheExpires
  \/ /\ part = "index"
     /\ \/ \E t \in RagTenants, x \in Texts : Insert(t, x) \/ Retrieve(t, x)
        \/ \E i \in 1..issuedIds : Delete(i) \/ \E x \in Texts : Update(i, x)
        \/ Clear \/ RetrieveNothing
  \/ /\ part = "batch"
     /\ \/ \E n \in 2..MaxBatch : \E b \in [1..n -> Texts] : StartBatch(b)
        \/ BatchStep

RagSpec == RagInit /\ [][\E part \in {"index", "batch"} : RagNext(part)]_ragVars

-----------------------------------------------------------------------------
(* Properties *************************************************************)
Spaces == {"neural", "hashed"}
RowSet == [tenant : RagTenants, space : Spaces]

\* Type correctness.
RagTypeOK ==
  /\ \A i \in DOMAIN rows : rows[i] \in RowSet
  /\ \A i \in DOMAIN local : local[i] \in RowSet
  /\ pgDown \in BOOLEAN /\ embDown \in BOOLEAN
  /\ \A i \in DOMAIN batchOut : batchOut[i] \in Spaces

\* Whatever the database does with an insertion, the record is in the table or
\* in the fallback store until it is deleted, cleared or the process ends.
SavedIsSomewhere == saved \subseteq DOMAIN rows \cup DOMAIN local

\* Redis only ever has vectors of the embedding service: a fallback vector, made
\* during a rate limit or an outage, is not found there when the service is back.
CachedIsNeural == \A x \in DOMAIN cached : cached[x] = "neural"

\* Equal texts of one batch have equal vectors although the service may go down
\* between them: embed_batch asks once for each.
BatchAgrees == \A i, j \in DOMAIN batchOut : batchIn[i] = batchIn[j] => batchOut[i] = batchOut[j]

\* A retrieval that reports neither service as degraded was answered by the
\* database; CONNECTED comes with incidents.  The state is read after the two
\* services were asked, so the call that finds one down says so.
StatusIsTruthful ==
  /\ found.asked /\ found.status \in {"CONNECTED", "EMPTY"} => found.source = "database"
  /\ found.asked => (found.status = "CONNECTED" => found.ids # {})

\* Retrieval is exact for the tenant although threshold and top_k are applied to
\* a list that was cut before: fewer than top_k incidents come only when no other
\* of the tenant is relevant, none is of another tenant, none left out is nearer.
RetrievalIsExact ==
  \A d \in {rows, local}, t \in RagTenants : \A rank \in [DOMAIN d -> 0..2] :
    LET ids == RawMatches(d, t, rank)
        good == Relevant(OfTenant(d, t), rank)
    IN /\ ids \subseteq good
       /\ Cardinality(ids) < TopK => ids = good
       /\ \A x \in ids, y \in good \ ids : rank[x] >= rank[y]

\* The index over outages of the database and of the embedding service: nothing
\* saved is lost, no substitute vector outlives the outage in the cache, equal
\* texts of a batch agree, no status hides a degradation, and retrieval is exact.
IndexSound ==
  RagTypeOK /\ SavedIsSomewhere /\ CachedIsNeural /\ BatchAgrees /\ StatusIsTruthful /\ RetrievalIsExact
=============================================================================
