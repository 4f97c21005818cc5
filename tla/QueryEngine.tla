----------------------------- MODULE QueryEngine -----------------------------
(***************************************************************************)
(* The two engines of the name QueryEngine.                                *)
(*                                                                         *)
(* src/query_engine.rs: searches of the store behind a cache of answers.   *)
(* Clones of an engine share the store and the cache; each has a           *)
(* configuration of its own.  Vector, text and hybrid searches run alike.  *)
(* The answer to a search is known by its terms and by how often the store *)
(* had been written when it was read.                                      *)
(*                                                                         *)
(* src/query.rs, which the embedded database keeps: an HNSW index behind a *)
(* mutex, and the file that save_index writes it to and load_index reads   *)
(* it from.  The index is what its contract says, a map from identifiers   *)
(* to vectors that all searches see (module VectorIndex).  Threads save    *)
(* and load at the same time, and the process may stop.  The file is       *)
(* written in place: after its truncation it is torn, until one writer has *)
(* written its data with no other at it.                                   *)
(***************************************************************************)
EXTENDS Integers, FiniteSets, SequencesExt

CONSTANTS Engine,      \* clones of one engine, each serving a call at a time
          Text,        \* what is searched for
          Limits,      \* limits callers and configurations ask for
          Absent,      \* an argument that is left out
          MaxWrites    \* bound on the writes to the store

ASSUME QueryAssumption == Limits \subseteq Nat \ {0} /\ Absent \notin Limits

VARIABLES default,   \* engine -> default_limit of its configuration
          search,    \* engine -> its call, and how far it has got
          cache,     \* key -> answer
          writes,    \* number of writes to the store
          floor      \* writes that every answer found since the last clear has seen

queryVars == <<default, search, cache, writes, floor>>

NoSearch == [at |-> "idle"]

QueryInit ==
    /\ default \in [Engine -> Limits]
    /\ search = [e \in Engine |-> NoSearch]
    /\ cache = << >> /\ writes = 0 /\ floor = 0

-----------------------------------------------------------------------------
\* The key is made of the limit that the search will use.  Mutant: of the one
\* the caller gave.
KeyAsGiven(e, text, limit) == <<text, limit>>

KeyOf(e, text, limit) == <<text, IF limit = Absent THEN default[e] ELSE limit>>

\* An answer in the cache ends the call; without one the call goes on to the
\* store, and nobody else is told to wait for it.
CachedSearch(e, text, limit) ==
    /\ search[e].at \in {"idle", "answered"}
    /\ LET key == KeyOf(e, text, limit)
           used == IF limit = Absent THEN default[e] ELSE limit
       IN  search' = [search EXCEPT ![e] =
              IF key \in DOMAIN cache
              THEN [at |-> "answered", text |-> text, limit |-> used,
                    answer |-> cache[key], cached |-> TRUE]
              ELSE [at |-> "missed", text |-> text, limit |-> used, key |-> key]]
    /\ UNCHANGED <<default, cache, writes, floor>>

\* The store is read under its lock, which is let go of before the insert.
ReadStore(e) ==
    /\ search[e].at = "missed"
    /\ search' = [search EXCEPT ![e] =
          [at |-> "read", text |-> @.text, limit |-> @.limit, key |-> @.key,
           answer |-> [text |-> @.text, limit |-> @.limit, seen |-> writes]]]
    /\ UNCHANGED <<default, cache, writes, floor>>

InsertAnswer(e) ==
    /\ search[e].at = "read"
    /\ cache' = [k \in DOMAIN cache \cup {search[e].key} |->
                    IF k = search[e].key THEN search[e].answer ELSE cache[k]]
    /\ search' = [search EXCEPT ![e] =
          [at |-> "answered", text |-> @.text, limit |-> @.limit,
           answer |-> @.answer, cached |-> FALSE]]
    /\ UNCHANGED <<default, writes, floor>>

\* A write to the store under its write lock leaves the cache alone.
WriteStore ==
    /\ writes < MaxWrites /\ writes' = writes + 1
    /\ UNCHANGED <<default, search, cache, floor>>

\* The cache drops entries beyond its capacity when it likes.
Evict(key) ==
    /\ key \in DOMAIN cache
    /\ cache' = [k \in DOMAIN cache \ {key} |-> cache[k]]
    /\ UNCHANGED <<default, search, writes, floor>>

\* invalidate_all; the answers in the hands of calls come in afterwards.
ClearCache ==
    /\ cache' = << >>
    /\ floor' = Min({writes} \cup {search[e].answer.seen : e \in {f \in Engine : search[f].at = "read"}})
    /\ UNCHANGED <<default, search, writes>>

\* &mut self: no call of this engine runs.  The cache stays, whatever the new
\* configuration says of it.
UpdateConfig(e, limit) ==
    /\ search[e].at \in {"idle", "answered"}
    /\ default' = [default EXCEPT ![e] = limit]
    /\ search' = [search EXCEPT ![e] = NoSearch]
    /\ UNCHANGED <<cache, writes, floor>>

QueryNext ==
    \/ \E e \in Engine, text \in Text, limit \in Limits \cup {Absent} : CachedSearch(e, text, limit)
    \/ \E e \in Engine : ReadStore(e)
    \/ \E e \in Engine : InsertAnswer(e)
    \/ \E key \in Text \X Limits : Evict(key)
    \/ \E e \in Engine, limit \in Limits : UpdateConfig(e, limit)
    \/ WriteStore
    \/ ClearCache

QuerySpec == QueryInit /\ [][QueryNext]_queryVars

-----------------------------------------------------------------------------
\* An answer out of the cache is one to the search the caller would have made,
\* by the configuration of its own clone, and once the cache has been cleared
\* it is no older than the searches that were under way at that moment: an
\* answer from before the clear does not come back later, except by them
\* (query_engine.rs:128, 142, 220).
CachedAnswersHonourCall ==
    [][\A e \in Engine :
         LET now == search'[e] IN
         now # search[e] /\ now.at = "answered" =>
            /\ now.answer.text = now.text /\ now.answer.limit = now.limit
            /\ now.cached => now.answer.seen >= floor]_queryVars

-----------------------------------------------------------------------------
(* QueryOptimizer: the rules that rewrite a request before it is searched  *)
(* for.  A query is a sequence of words; a pattern is a word, its          *)
(* replacement a sequence of words.                                        *)

LimitMaxResults(max) == [rule |-> "limit", max |-> max]
MinSimilarityThreshold(min) == [rule |-> "threshold", min |-> min]
QueryRewrite(patterns) == [rule |-> "rewrite", patterns |-> patterns]

\* The rules that new starts with; thresholds in tenths.
StandardRules == <<LimitMaxResults(100), MinSimilarityThreshold(1)>>

\* Every occurrence of the pattern is replaced; what the replacement brings in
\* is not looked at again, by this pattern.
Replaced(query, pattern) ==
    FlattenSeq([i \in DOMAIN query |->
                   IF query[i] = pattern[1] THEN pattern[2] ELSE <<query[i]>>])

\* A request that a rule does not concern is left as it is: thresholds are for
\* vector searches, words for the others.
ApplyRule(request, rule) ==
    CASE rule.rule = "limit" /\ request.limit > rule.max ->
            [request EXCEPT !.limit = rule.max]
      [] rule.rule = "threshold" /\ request.kind = "VectorSearch"
            /\ (request.threshold = Absent \/ request.threshold < rule.min) ->
            [request EXCEPT !.threshold = rule.min]
      [] rule.rule = "rewrite" /\ request.kind # "VectorSearch" ->
            [request EXCEPT !.query = FoldLeft(Replaced, @, rule.patterns)]
      [] OTHER -> request

\* The rules apply one after the other, each to what the last one left.
OptimizeQuery(rules, request) == FoldLeft(ApplyRule, request, rules)

-----------------------------------------------------------------------------
Bounds(request) == [request EXCEPT !.query = << >>]

\* An optimized request never asks for more than the caller did, nor for less
\* than the strictest rule makes it; and the order of the rules, and doing it
\* again, matter to the words of a query only (query_engine.rs:281-372).
OptimizingNarrows(requests, ruleLists) ==
    \A request \in requests, rules \in ruleLists :
        LET optimized == OptimizeQuery(rules, request)
            stated == {r.max : r \in {s \in Range(rules) : s.rule = "limit"}}
        IN  /\ optimized.kind = request.kind
            /\ optimized.limit \in {request.limit} \cup stated
            /\ \A bound \in {request.limit} \cup stated : optimized.limit <= bound
            /\ request.threshold # Absent =>
                  optimized.threshold # Absent /\ optimized.threshold >= request.threshold
            /\ Bounds(OptimizeQuery(Reverse(rules), request)) = Bounds(optimized)
            /\ Bounds(OptimizeQuery(rules, optimized)) = Bounds(optimized)
-----------------------------------------------------------------------------
(* The index and its file.                                                 *)

CONSTANTS SavedId, SavedVec,   \* identifiers and vectors of the dimension configured
          FileThread,          \* threads that save or load
          NoFile, Torn,        \* states of the file without data in it
          MaxSaved             \* bound on the contents saves take

VARIABLES live,       \* identifier -> vector
          file,       \* NoFile, Torn, or the contents that were saved
          thread,     \* thread -> what it does, with the contents it holds
          mixed,      \* threads whose writing overlapped with that of another
          captured    \* every contents a save has taken from the index

fileVars == <<live, file, thread, mixed, captured>>

AtRest == [at |-> "resting"]

FileInit ==
    /\ live = << >> /\ file = NoFile
    /\ thread = [t \in FileThread |-> AtRest]
    /\ mixed = {} /\ captured = {}

Writers == {t \in FileThread : thread[t].at = "writing"}

-----------------------------------------------------------------------------
\* add_document and remove_document, under the mutex.
AddToIndex(id, vec) ==
    /\ live' = (id :> vec) @@ live
    /\ UNCHANGED <<file, thread, mixed, captured>>

RemoveFromIndex(id) ==
    /\ id \in DOMAIN live
    /\ live' = [i \in DOMAIN live \ {id} |-> live[i]]
    /\ UNCHANGED <<file, thread, mixed, captured>>

\* save_index takes the vectors under the mutex; it packs them and opens the
\* file, which truncates it, after having let go.
Capture(t) ==
    /\ thread[t] = AtRest
    /\ live \in captured \/ Cardinality(captured) < MaxSaved
    /\ thread' = [thread EXCEPT ![t] = [at |-> "captured", data |-> live]]
    /\ captured' = captured \cup {live}
    /\ UNCHANGED <<live, file, mixed>>

OpenFile(t) ==
    /\ thread[t].at = "captured"
    /\ file' = Torn
    /\ thread' = [thread EXCEPT ![t].at = "writing"]
    /\ mixed' = mixed \cup (IF Writers = {} THEN {} ELSE Writers \cup {t})
    /\ UNCHANGED <<live, captured>>

\* A file two threads wrote at once may hold the data of the last or a mixture,
\* which the check sum of the compression gives away.
WriteFile(t) ==
    /\ thread[t].at = "writing"
    /\ \/ file' = thread[t].data
       \/ t \in mixed /\ file' = Torn
    /\ thread' = [thread EXCEPT ![t] = AtRest]
    /\ mixed' = mixed \ {t}
    /\ UNCHANGED <<live, captured>>

\* The write fails and leaves what it has written.
WriteFails(t) ==
    /\ thread[t].at = "writing"
    /\ file' = Torn
    /\ thread' = [thread EXCEPT ![t] = AtRest]
    /\ mixed' = mixed \ {t}
    /\ UNCHANGED <<live, captured>>

\* load_index reads the whole file, unpacks it and compares the dimension before
\* it touches the index; without a file, or with a torn one, it fails.
ReadFile(t) ==
    /\ thread[t] = AtRest
    /\ file \notin {NoFile, Torn}
    /\ thread' = [thread EXCEPT ![t] = [at |-> "loaded", data |-> file]]
    /\ UNCHANGED <<live, file, mixed, captured>>

\* Mutant: the vectors are added to those that are there.
ReplaceIndexByAdding(t) ==
    /\ thread[t].at = "loaded"
    /\ live' = thread[t].data @@ live
    /\ thread' = [thread EXCEPT ![t] = AtRest]
    /\ UNCHANGED <<file, mixed, captured>>

\* Under the mutex: a new index, and every vector of the file added to it.
ReplaceIndex(t) ==
    /\ thread[t].at = "loaded"
    /\ live' = thread[t].data
    /\ thread' = [thread EXCEPT ![t] = AtRest]
    /\ UNCHANGED <<file, mixed, captured>>

\* The process stops and starts again with an empty index; what was on its way
\* into the file is lost.
StopProcess ==
    /\ live' = << >>
    /\ thread' = [t \in FileThread |-> AtRest]
    /\ mixed' = {}
    /\ UNCHANGED <<file, captured>>

FileNext ==
    \/ \E id \in SavedId, vec \in SavedVec : AddToIndex(id, vec)
    \/ \E id \in SavedId : RemoveFromIndex(id)
    \/ \E t \in FileThread : Capture(t)
    \/ \E t \in FileThread : OpenFile(t)
    \/ \E t \in FileThread : WriteFile(t)
    \/ \E t \in FileThread : WriteFails(t)
    \/ \E t \in FileThread : ReadFile(t)
    \/ \E t \in FileThread : ReplaceIndex(t)
    \/ StopProcess

FileSpec == FileInit /\ [][FileNext]_fileVars

-----------------------------------------------------------------------------
\* A load that succeeds gives the index the contents it had at one moment of its
\* life, whole: never a part of them, a mixture of two saves or of a save and
\* what came after it, whatever saves, loads, failures and restarts ran beside
\* it and beside the saves (query.rs:269, 325).
LoadRestoresSnapshot ==
    [][\A t \in FileThread :
         thread[t].at = "loaded" /\ thread'[t] = AtRest => live' \in captured \cup {<< >>}
      ]_fileVars
=============================================================================
