-------------------------------- MODULE Dict --------------------------------
(***************************************************************************)
(* Python dictionaries as functions with a varying domain; an OrderedDict, *)
(* whose order matters, as a sequence of entries; and the cut of a list    *)
(* that is sorted by a similarity.                                         *)
(***************************************************************************)
EXTENDS Naturals, FiniteSets, Sequences

EmptyDict == [k \in {} |-> {}]

\* d[k] = v
Put(d, k, v) == [x \in DOMAIN d \cup {k} |-> IF x = k THEN v ELSE d[x]]

\* d.pop(k, None) for every k in ks
Drop(d, ks) == [x \in DOMAIN d \ ks |-> d[x]]

\* d.get(k, default)
Get(d, k, default) == IF k \in DOMAIN d THEN d[k] ELSE default

\* del s[key], where the entry of the key is the i-th of an OrderedDict.
DelAt(s, i) == [k \in 1..(Len(s) - 1) |-> IF k < i THEN s[k] ELSE s[k + 1]]

\* Those that come before i when ids are sorted by rank, the highest first, and
\* equal ones by their id.
Nearer(ids, rank, i) == {j \in ids : rank[j] > rank[i] \/ (rank[j] = rank[i] /\ j < i)}

\* The first k of them.
Nearest(ids, rank, k) == {i \in ids : Cardinality(Nearer(ids, rank, i)) < k}
=============================================================================
