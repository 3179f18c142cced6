------------------------------ MODULE TaxonomyIndex ------------------------------
(***************************************************************************)
(* What a word for a type or a genre of events means, when no label says   *)
(* it: the nearest entry of a collection of vectors, if the thresholds an  *)
(* operator calibrated on reviewed cases allow it (backend/app/research/   *)
(* taxonomy*.py, services/taxonomy_resolution.py). The collection is       *)
(* rebuilt request by request by a job, the source changes under both, and *)
(* a request makes several reads of a collection being rebuilt. Points are *)
(* read in the order of the entries; words here are labels of no entry,    *)
(* and no type was selected before them.                                   *)
(***************************************************************************)
EXTENDS Integers, FiniteSets, FiniteSetsExt, Functions

CONSTANTS
    Entries,      \* numbers from 1: the types and genres there can be
    KindOf,       \* "event_type" or "genre", of each entry
    TypeOf,       \* the type a genre belongs to; a type belongs to itself
    Labels,       \* what an entry can be called
    Unlisted,     \* an entry that is not in the public vocabulary
    Words,        \* what planners say
    Nearness,     \* of a word to an entry under a label: numbers
    Cases,        \* reviewed: a word, the kind it was said for, and the entries expected:
                  \* none, one under its label, or several for an ambiguous word
    ScrollPage,   \* points read by one request, 64 in the code
    UpsertBatch,  \* points written by one request, 2 in the code
    DeleteBatch,  \* points deleted by one request, 128 in the code
    Limit,        \* points a query returns, 6 in the code
    MaxRelabels,  \* bound: changes of the vocabulary
    MaxJobs       \* bound: index jobs at work within the eight seconds of a request

Types == {e \in Entries : KindOf[e] = "event_type"}

ASSUME TaxonomyAssumption ==
    /\ Entries \subseteq Nat \ {0} /\ IsFiniteSet(Entries) /\ IsFiniteSet(Cases)
    /\ KindOf \in [Entries -> {"event_type", "genre"}]
    /\ TypeOf \in [Entries -> Types] /\ \A e \in Types : TypeOf[e] = e
    /\ {ScrollPage, UpsertBatch, DeleteBatch} \subseteq Nat \ {0}
    /\ Limit \in Nat \ {0, 1}
    /\ Nearness \in [Words -> [Entries -> [Labels -> Int]]]
    /\ \A c \in Cases : c.word \in Words /\ c.kind \in {"event_type", "genre"}

VARIABLES
    vocabulary,  \* the public labels in the source
    relabels,
    collection,  \* the points: the label embedded, and the vocabulary it was part of
    job,         \* the index job that holds the lock file
    measured,    \* the vocabulary of the last measurements of the reviewed cases
    policy,      \* the thresholds in use and the vocabulary they are for
    proposal     \* the request under way: what it has read, and how it ended

taxonomyVars == <<vocabulary, relabels, collection, job, measured, policy, proposal>>

Listed(v) == {e \in Entries : v[e] # Unlisted}
NoJob == [at |-> "idle"]
NoProposal == [at |-> "none"]
Deciding == {"read", "scroll", "own", "across"}
Off == [score |-> 0, margin |-> 0]
Uncalibrated == [of |-> {}, event_type |-> Off, genre |-> Off, cross |-> Off]

TaxonomyInit ==
    /\ \E l \in Labels : vocabulary = [e \in Entries |-> l]
    /\ relabels = 0
    /\ collection = [e \in {} |-> {}]
    /\ job = NoJob /\ measured = {} /\ policy = Uncalibrated
    /\ proposal = NoProposal

\* documents: an entry whose type is not public has no document, and none is made.
Documented(v) == \A e \in Listed(v) : TypeOf[e] \in Listed(v)
Points(v) == [e \in Listed(v) |-> [label |-> v[e], of |-> v]]

----------------------------------------------------------------------------
\* One request of a scroll: the next points from an offset, and where to go on.
PageFrom(offset) ==
    LET rest == {e \in DOMAIN collection : e >= offset}
    IN {e \in rest : Cardinality({f \in rest : f < e}) < ScrollPage}
\* points: what one more page adds to the points read; 0 as offset ends the scroll.
Scrolled(read) ==
    LET page == PageFrom(read.offset)
        more == {e \in DOMAIN collection : e >= read.offset} \ page
    IN [read EXCEPT !.offset = IF more = {} THEN 0 ELSE Min(more),
                    !.points = [e \in DOMAIN read.points \cup page |->
                                  IF e \in page THEN collection[e] ELSE read.points[e]]]
Unread == [offset |-> 1, points |-> [e \in {} |-> {}]]

\* sync_taxonomy: every point that differs is written, two by two in the order of
\* the entries, and only then those of entries that are gone are deleted.
Smallest(set, n) == {e \in set : Cardinality({f \in set : f < e}) < n}
StartJob(rebuild) ==
    /\ job = NoJob /\ Documented(vocabulary)
    /\ proposal.at \in Deciding => proposal.jobs < MaxJobs
    /\ proposal' = IF proposal.at \in Deciding THEN [proposal EXCEPT !.jobs = @ + 1] ELSE proposal
    /\ LET desired == Points(vocabulary)
       IN job' = [at |-> "writing", desired |-> desired,
                  write |-> {e \in DOMAIN desired : rebuild \/ e \notin DOMAIN collection
                                                     \/ collection[e] # desired[e]},
                  delete |-> DOMAIN collection \ DOMAIN desired]
    /\ UNCHANGED <<vocabulary, relabels, collection, measured, policy>>
Write ==
    /\ job # NoJob /\ job.write # {}
    /\ LET batch == Smallest(job.write, UpsertBatch)
       IN /\ collection' = [e \in DOMAIN collection \cup batch |->
                              IF e \in batch THEN job.desired[e] ELSE collection[e]]
          /\ job' = [job EXCEPT !.write = @ \ batch]
    /\ UNCHANGED <<vocabulary, relabels, measured, policy, proposal>>
DeleteStale ==
    /\ job # NoJob /\ job.write = {} /\ job.delete # {}
    /\ LET batch == Smallest(job.delete, DeleteBatch)
       IN /\ collection' = [e \in DOMAIN collection \ batch |-> collection[e]]
          /\ job' = [job EXCEPT !.delete = @ \ batch]
    /\ UNCHANGED <<vocabulary, relabels, measured, policy, proposal>>
\* The job is done, or a request of it fails, or it is stopped.
EndJob ==
    /\ job # NoJob /\ job' = NoJob
    /\ UNCHANGED <<vocabulary, relabels, collection, measured, policy, proposal>>
Relabel ==
    /\ relabels < MaxRelabels /\ relabels' = relabels + 1
    /\ \E e \in Entries, l \in Labels \cup {Unlisted} :
          vocabulary[e] # l /\ vocabulary' = [vocabulary EXCEPT ![e] = l]
    /\ UNCHANGED <<collection, job, measured, policy, proposal>>

----------------------------------------------------------------------------
\* confident: what thresholds make of the points nearest to a word; of several,
\* only that they are several matters.
OfKind(given, kind) == [e \in {f \in DOMAIN given : KindOf[f] = kind} |-> given[e]]
Score(known, word, e) == Nearness[word][e][known[e].label]
Closest(known, word) == Max({Score(known, word, e) : e \in DOMAIN known})
Behind(known, word, e) == Closest(known, word) - Score(known, word, e)
Close(known, word, thresholds) ==
    {e \in DOMAIN known : Behind(known, word, e) < thresholds.margin}
Confident(known, word, thresholds) ==
    IF thresholds = Off \/ DOMAIN known = {} \/ Closest(known, word) < thresholds.score THEN {}
    ELSE LET close == Close(known, word, thresholds)
             plausible == {e \in close : Score(known, word, e) >= thresholds.score}
         IN IF Cardinality(close) = 1 \/ Cardinality(plausible) > 1 THEN plausible ELSE {}
\* query_taxonomy: the nearest points come, and of equally near ones any.
Hits(known, word) ==
    LET number == Cardinality(DOMAIN known)
    IN {Restrict(known, S) : S \in
          {T \in SUBSET DOMAIN known :
              /\ Cardinality(T) = IF number < Limit THEN number ELSE Limit
              /\ \A e \in T, f \in DOMAIN known \ T : Score(known, word, f) <= Score(known, word, e)}}

Other(kind) == IF kind = "genre" THEN "event_type" ELSE "genre"
\* Of a collection that is whole, the limit changes nothing: the nearest points
\* tell none, one and several apart.
Decided(given, word, kind, own, cross) ==
    LET chosen == Confident(OfKind(given, kind), word, own)
    IN IF chosen # {} THEN chosen ELSE Confident(OfKind(given, Other(kind)), word, cross)

\* measure: a measurement needs a collection that is whole, under the job's lock,
\* and every entry a case expects under the label it was reviewed with.
Measurable ==
    {v \in [Entries -> Labels \cup {Unlisted}] :
        /\ Documented(v)
        /\ \A c \in Cases : Cardinality(c.expects) = 1 => \A e \in c.expects : v[e] = c.label}
Measure ==
    /\ job = NoJob /\ vocabulary \in Measurable /\ collection = Points(vocabulary)
    /\ measured' = {vocabulary}
    /\ UNCHANGED <<vocabulary, relabels, collection, job, policy, proposal>>

\* options: thresholds at, and just above, what was seen in the measurements,
\* which are queries too.  Scores are even, so that one more than a score is none.
NearestOf(r) ==
    {e \in DOMAIN r.known :
        Cardinality({f \in DOMAIN r.known : Score(r.known, r.word, f) > Score(r.known, r.word, e)}) < Limit}
Options(rows) ==
    LET scores == UNION {{Score(r.known, r.word, e) : e \in NearestOf(r)} : r \in rows}
        gaps == (UNION {{Behind(r.known, r.word, e) : e \in NearestOf(r)} : r \in rows}) \ {0}
    IN {Off} \cup [score : scores \cup {s + 1 : s \in scores},
                   margin : gaps \cup {g + 1 : g \in gaps}]
Highest(options) ==
    CHOOSE o \in options : \A p \in options :
        p.score < o.score \/ (p.score = o.score /\ p.margin <= o.margin)
Passes(c, chosen) ==
    IF Cardinality(c.expects) > 1 THEN Cardinality(chosen) > 1 ELSE chosen = c.expects
OfCase(c, given, own, cross) == Decided(given, c.word, c.kind, own, cross)
Safe(kind, given, own, cross) ==
    LET cases == {c \in Cases : c.kind = kind}
    IN /\ \A c \in cases : Passes(c, OfCase(c, given, own, cross))
       /\ own # Off => \E c \in cases :
             Cardinality(c.expects) = 1 /\ OfCase(c, given, own, Off) = c.expects
\* calibrate: the highest thresholds that decide every reviewed case as expected,
\* none across the kinds unless a case needs them.
OwnOptions(kind, given, cross) ==
    LET cases == {c \in Cases : c.kind = kind}
        rows == {[word |-> c.word, known |-> OfKind(given, kind)] : c \in cases}
    IN {o \in Options(rows) : Safe(kind, given, o, cross)}
Owns(given, cross) ==
    [kind \in {"event_type", "genre"} |-> Highest(OwnOptions(kind, given, cross))]
Needed(given, cross) ==
    \E c \in Cases :
        /\ Cardinality(c.expects) = 1
        /\ OfCase(c, given, Owns(given, cross)[c.kind], Off) = {}
        /\ Cardinality(Confident(OfKind(given, Other(c.kind)), c.word, cross)) = 1
AcrossOptions(given) ==
    {x \in Options({[word |-> c.word, known |-> OfKind(given, Other(c.kind))] : c \in Cases}) :
        /\ \A kind \in {"event_type", "genre"} : OwnOptions(kind, given, x) # {}
        /\ x = Off \/ Needed(given, x)}
Calibrated(v) ==
    LET given == Points(v)
        options == AcrossOptions(given)
        cross == IF Off \in options THEN Off ELSE Highest(options)
        owns == Owns(given, cross)
    IN IF options = {} THEN {}
       ELSE {[of |-> {v}, event_type |-> owns["event_type"], genre |-> owns["genre"],
              cross |-> cross]}
Calibrations == UNION {Calibrated(v) : v \in Measurable}
Calibrate ==
    /\ \E c \in Cases : Cardinality(c.expects) = 1
    /\ \E c \in Cases : c.expects = {}
    /\ policy' \in {p \in Calibrations : p.of = measured}
    /\ UNCHANGED <<vocabulary, relabels, collection, job, measured, proposal>>

----------------------------------------------------------------------------
\* resolve_taxonomy_semantic. A request reads the vocabulary in its snapshot.
Propose(word, kind) ==
    /\ proposal = NoProposal
    /\ proposal' = [at |-> "read", word |-> word, kind |-> kind, read |-> vocabulary,
                    jobs |-> IF job = NoJob THEN 0 ELSE 1, hidden |-> FALSE]
    /\ UNCHANGED <<vocabulary, relabels, collection, job, measured, policy>>
Ended(chosen) ==
    [at |-> "ended", word |-> proposal.word, kind |-> proposal.kind, chosen |-> chosen,
     hidden |-> proposal.hidden]
Decide(next) ==
    proposal' = next /\ UNCHANGED <<vocabulary, relabels, collection, job, measured, policy>>

\* A policy for another vocabulary, or one that decides nothing here, ends it.
Usable == policy.of = {proposal.read} /\ Documented(proposal.read)
Consult ==
    /\ proposal.at = "read"
    /\ IF Usable /\ (policy[proposal.kind] # Off \/ policy.cross # Off)
       THEN Decide([at |-> "scroll", word |-> proposal.word, kind |-> proposal.kind,
                    read |-> proposal.read, jobs |-> proposal.jobs,
                    hidden |-> FALSE, own |-> policy[proposal.kind],
                    cross |-> policy.cross, scroll |-> Unread])
       ELSE Decide(Ended({}))
\* The collection is read page by page and compared as a whole: no runner-up is hidden.
ReadWhole(given) == given = Points(proposal.read)
ScrollOn ==
    /\ proposal.at = "scroll"
    /\ LET next == Scrolled(proposal.scroll)
       IN IF next.offset # 0 THEN Decide([proposal EXCEPT !.scroll = next])
          ELSE IF ReadWhole(next.points)
          THEN Decide([proposal EXCEPT !.at = "own", !.scroll = Unread])
          ELSE Decide(Ended({}))
Known(given, e) == e \in Listed(proposal.read) /\ given[e] = Points(proposal.read)[e]
\* Mutant: the runners-up are not revalidated.
ValidNearest(returned) ==
    \A e \in DOMAIN returned : Behind(returned, proposal.word, e) = 0 => Known(returned, e)
\* validated_proposals: every point returned is of the policy's vocabulary.
Valid(returned) == \A e \in DOMAIN returned : Known(returned, e)
\* History: a point that was close to the word when the collection was read was
\* rewritten, and the query no longer returns it.
Hidden(kind, thresholds, returned) ==
    \E e \in Close(OfKind(Points(proposal.read), kind), proposal.word, thresholds) :
        e \in DOMAIN collection \ DOMAIN returned /\ ~Known(collection, e)
\* Only what the query returns is validated, and compared.
Ask(kind, thresholds, otherwise) ==
    IF thresholds = Off THEN Decide(otherwise)
    ELSE \E returned \in Hits(OfKind(collection, kind), proposal.word) :
            LET chosen == Confident(returned, proposal.word, thresholds)
                hidden == proposal.hidden \/ Hidden(kind, thresholds, returned)
            IN IF ~Valid(returned) THEN Decide(Ended({}))
               ELSE IF chosen # {} THEN Decide([Ended(chosen) EXCEPT !.hidden = hidden])
               ELSE Decide([otherwise EXCEPT !.hidden = hidden])
AskOwn ==
    /\ proposal.at = "own"
    /\ Ask(proposal.kind, proposal.own, [proposal EXCEPT !.at = "across"])
AskAcross ==
    /\ proposal.at = "across"
    /\ Ask(Other(proposal.kind), proposal.cross, Ended({}))
\* A request of it fails, or its eight seconds are over.
Unresolved ==
    /\ proposal.at \in Deciding
    /\ Decide(Ended({}))

TaxonomyNext ==
    \/ \E rebuild \in BOOLEAN : StartJob(rebuild)
    \/ Write \/ DeleteStale \/ EndJob \/ Relabel \/ Measure \/ Calibrate
    \/ \E word \in Words, kind \in {"event_type", "genre"} : Propose(word, kind)
    \/ Consult \/ ScrollOn \/ AskOwn \/ AskAcross \/ Unresolved
TaxonomySpec == TaxonomyInit /\ [][TaxonomyNext]_taxonomyVars

----------------------------------------------------------------------------
\* taxonomy_resolution.py:58, taxonomy_policy.py:55: an interrupted rebuild hides
\* no runner-up, and a weak or stale one makes nothing unique. Whatever the index
\* job and the source do between the reads of a request, a word it was reviewed
\* for is taken for one entry only if that entry is what the review expects.
\* This needs that none of the entries close to the word, rewritten between the
\* last page and the query, is beyond the limit under its new label.
ReviewedAnswers ==
    proposal.at = "ended" /\ Cardinality(proposal.chosen) = 1 /\ ~proposal.hidden =>
        \A c \in Cases : c.word = proposal.word /\ c.kind = proposal.kind => proposal.chosen = c.expects
=============================================================================
