----------------------------- MODULE SearchAids -----------------------------
(***************************************************************************)
(* The search_aids tool (app/agent/tools/search_aids.py): the ranking of   *)
(* search_aids_corpus, and the cache of _load_corpus it reads the corpus   *)
(* through.  Titles, texts and queries are the sets of normalised tokens   *)
(* _tokenize makes of them.                                                *)
(***************************************************************************)
EXTENDS Naturals, Sequences, FiniteSets, SequencesExt

CONSTANTS
    Token,              \* normalised words
    Category,           \* category filters, normalised
    Corpora,            \* the contents the default file may have
    OtherCorpus,        \* the content of another file, which tests load
    TITLE_MATCH_WEIGHT, MAX_RESULTS

(* category: the filters that occur in the record's category, as substrings. *)
AidRecord == [title : SUBSET Token, body : SUBSET Token, category : SUBSET Category]

ASSUME TokenAssumption == IsFiniteSet(Token)
ASSUME NumbersAssumption == TITLE_MATCH_WEIGHT \in Nat /\ MAX_RESULTS \in Nat
ASSUME CorpusAssumption == Corpora \subseteq Seq(AidRecord) /\ OtherCorpus \in Seq(AidRecord)

VARIABLES
    file,       \* the default corpus file
    cache,      \* the one entry of lru_cache(maxsize=1): its key, its value
    answer      \* the last answer of the tool and what it was asked

vars == <<file, cache, answer>>

AnyCategory == "None"
Empty == [key |-> "none", corpus |-> <<>>]
NoAnswer == [query |-> {}, category |-> AnyCategory, corpus |-> <<>>, rows |-> <<>>]

-----------------------------------------------------------------------------
(* search_aids_corpus, on positions of the corpus. *)

MatchesCategory(record, category) ==
    category = AnyCategory \/ category \in record.category

\* Mutated form: a word of the title that is also in the text counts once.
Score_TitleOrBody(record, query) ==
    TITLE_MATCH_WEIGHT * Cardinality(query \intersect (record.title \ record.body))
        + Cardinality(query \intersect record.body)

Score(record, query) ==
    TITLE_MATCH_WEIGHT * Cardinality(query \intersect record.title)
        + Cardinality(query \intersect record.body)

(* A candidate that shares a word with the query. *)
Matched(record, query, category) ==
    MatchesCategory(record, category) /\ Score(record, query) > 0

(* sorted(..., reverse=True) is stable: record i goes before the first that *)
(* scores lower, so after those that came before it with the same score.    *)
Placed(ranked, i, corpus, query) ==
    LET lower == {r \in DOMAIN ranked :
                    Score(corpus[ranked[r]], query) < Score(corpus[i], query)}
    IN  InsertAt(ranked, Min({Len(ranked) + 1} \union lower), i)

(* The ranking of the first n records of the corpus. *)
RankedUpTo(corpus, query, category) ==
    LET ranked[n \in 0..Len(corpus)] ==
          IF n = 0 THEN <<>>
          ELSE IF Matched(corpus[n], query, category)
               THEN Placed(ranked[n - 1], n, corpus, query)
               ELSE ranked[n - 1]
    IN  ranked

Ranked(corpus, query, category) == RankedUpTo(corpus, query, category)[Len(corpus)]

SearchAidsCorpus(corpus, query, category) ==
    LET ranked == Ranked(corpus, query, category)
    IN  IF Len(ranked) <= MAX_RESULTS THEN ranked ELSE SubSeq(ranked, 1, MAX_RESULTS)

-----------------------------------------------------------------------------
Init ==
    /\ file \in Corpora
    /\ cache = Empty
    /\ answer = NoAnswer

\* Mutated form: the cache is not keyed on the path.
Hit_AnyKey == cache # Empty

Hit == cache.key = "default"

(* search_aids reads its corpus with _load_corpus(): a hit returns the     *)
(* entry, a miss replaces it by what the file holds now.                   *)
Search(query, category) ==
    LET corpus == IF Hit THEN cache.corpus ELSE file
    IN  /\ cache' = [key |-> "default", corpus |-> corpus]
        /\ answer' = [query |-> query, category |-> category, corpus |-> corpus,
                      rows |-> SearchAidsCorpus(corpus, query, category)]
        /\ UNCHANGED file

LoadOther ==
    /\ cache' = [key |-> "other", corpus |-> OtherCorpus]
    /\ UNCHANGED <<file, answer>>

CacheClear ==
    /\ cache' = Empty
    /\ UNCHANGED <<file, answer>>

Edit ==
    /\ file' \in Corpora
    /\ UNCHANGED <<cache, answer>>

Next ==
    \/ \E query \in SUBSET Token, category \in Category \union {AnyCategory} :
        Search(query, category)
    \/ LoadOther \/ CacheClear \/ Edit

Spec == Init /\ [][Next]_vars

-----------------------------------------------------------------------------
(* The words of the query found in the title of a record, each             *)
(* TITLE_MATCH_WEIGHT times, and those found in its text, once (number 0). *)
Weight(i) ==
    LET record == answer.corpus[i]
    IN  Cardinality(
            ((answer.query \intersect record.title) \X (1..TITLE_MATCH_WEIGHT))
                \union ((answer.query \intersect record.body) \X {0}))

(* The tool answers with the best matches: at most MAX_RESULTS of them,    *)
(* only records of the category that match, best first and in the order of *)
(* the corpus among equals, and no matching record left out is better, or  *)
(* as good and earlier, than one that is in.                               *)
BestMatches ==
    LET rows == answer.rows
        eligible == {i \in DOMAIN answer.corpus :
            /\ Weight(i) > 0
            /\ answer.category \in {AnyCategory} \union answer.corpus[i].category}
        Before(i, j) == Weight(i) > Weight(j) \/ (Weight(i) = Weight(j) /\ i < j)
    IN  /\ Len(rows) <= MAX_RESULTS
        /\ Range(rows) \subseteq eligible
        /\ \A r, s \in DOMAIN rows : r < s => Before(rows[r], rows[s])
        /\ \A i \in eligible \ Range(rows) :
            Len(rows) = MAX_RESULTS /\ \A r \in DOMAIN rows : Before(rows[r], i)

(* A corpus loaded from another path never answers the tool, whatever was  *)
(* loaded, edited and cleared before: _load_corpus is "keyed on `path`".   *)
AnswersFromDefault == answer # NoAnswer => answer.corpus \in Corpora
=============================================================================
