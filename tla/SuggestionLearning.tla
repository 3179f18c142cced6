-------------------------- MODULE SuggestionLearning --------------------------
(***************************************************************************)
(* What research suggestions learn from their use                          *)
(* (backend/app/repositories/research_suggestions.py): impressions and     *)
(* selections reported by browsers, and the successful executions of       *)
(* queries, which count a conversion when they carry the receipt of a      *)
(* selection. Each is one transaction that locks the row of its suggestion *)
(* first, reads, and writes counters and receipts at its end; learning is  *)
(* given up after a second (services/research_learning.py). Requests are   *)
(* repeated at will: a browser may send the same report, and the same      *)
(* receipt, again and at once.                                             *)
(***************************************************************************)
EXTENDS Naturals, FiniteSets

CONSTANTS
    Queries,       \* normalized queries, each a suggestion once executed
    Lookups,       \* request ids handed out with suggestions
    Writers,       \* transactions under way
    MinSuccesses,  \* executions before a query is suggested, 3 in the code
    MaxSuccesses,  \* bound: executions of one query
    NoWriter, NoLookup

ASSUME WriterAssumption == NoWriter \notin Writers /\ NoLookup \notin Lookups
ASSUME SuccessBounds == MinSuccesses \in Nat /\ MaxSuccesses \in Nat

VARIABLES
    count,      \* the counters of research_query_suggestion
    withheld,   \* suggestions an administrator has blocked
    receipts,   \* research_query_suggestion_event
    stale,      \* receipts older than RECEIPT_TTL
    converted,  \* conversions in research_query_history
    rowLock,    \* the transaction that holds each suggestion's row
    writer      \* each transaction: what for, and what it has read

learningVars == <<count, withheld, receipts, stale, converted, rowLock, writer>>

Receipt(kind, q, l) == [kind |-> kind, query |-> q, lookup |-> l]
Receipts == [kind : {"impression", "selection"}, query : Queries, lookup : Lookups]
Unused == [kind |-> "none"]
COUNTERS == {"successes", "impression", "selection", "conversions"}
Public(q) == q \notin withheld /\ count[q]["successes"] >= MinSuccesses

LearningInit ==
    /\ count = [q \in Queries |-> [k \in COUNTERS |-> 0]]
    /\ withheld = {} /\ receipts = {} /\ stale = {} /\ converted = {}
    /\ rowLock = [q \in Queries |-> NoWriter]
    /\ writer = [w \in Writers |-> Unused]

\* Mutant: the row is not locked before it is read.
Unguarded(q) == q \in Queries
Lockable(q) == rowLock[q] = NoWriter
Locks(w, q, doing) ==
    /\ writer[w] = Unused /\ Lockable(q)
    /\ rowLock' = [rowLock EXCEPT ![q] = w]
    /\ writer' = [writer EXCEPT ![w] = doing]
    /\ UNCHANGED <<count, withheld, receipts, stale, converted>>
Releases(w) ==
    /\ rowLock' = [q \in Queries |-> IF rowLock[q] = w THEN NoWriter ELSE rowLock[q]]
    /\ writer' = [writer EXCEPT ![w] = Unused]

----------------------------------------------------------------------------
\* impression: a suggestion shown, which must still be public.
Show(w, q, l) == Public(q) /\ Locks(w, q, Receipt("impression", q, l))

\* select: also, the same lookup must have shown it within the last ten minutes.
Shown(q, l) == Receipt("impression", q, l) \in receipts \ stale
Choose(w, q, l) == Public(q) /\ Shown(q, l) /\ Locks(w, q, Receipt("selection", q, l))

\* Both end with an insert that does nothing if the receipt exists, and count
\* only what they inserted; a repeated selection is given the receipt it had.
Report(w) ==
    /\ writer[w].kind \in {"impression", "selection"}
    /\ LET seen == writer[w]
       IN /\ receipts' = receipts \cup {seen}
          /\ count' = IF seen \in receipts THEN count
                      ELSE [count EXCEPT ![seen.query][seen.kind] = @ + 1]
    /\ Releases(w)
    /\ UNCHANGED <<withheld, stale, converted>>

\* learn: the upsert locks the row; a receipt is worth a conversion if it is a
\* selection of this query within ten minutes that none was counted for.
Creditable(q, l) ==
    /\ Receipt("selection", q, l) \in receipts \ stale
    /\ <<q, l>> \notin converted
Execute(w, q, l) ==
    /\ count[q]["successes"] < MaxSuccesses
    /\ Locks(w, q, [kind |-> "learn", query |-> q,
                    credit |-> IF l # NoLookup /\ Creditable(q, l) THEN l ELSE NoLookup])

\* Its end; the constraint research_conversion_once would undo all of it.
Learn(w) ==
    /\ writer[w].kind = "learn"
    /\ LET q == writer[w].query
           l == writer[w].credit
       IN CASE l = NoLookup ->
                  /\ count' = [count EXCEPT ![q]["successes"] = @ + 1]
                  /\ UNCHANGED converted
            [] l # NoLookup /\ <<q, l>> \notin converted ->
                  /\ count' = [count EXCEPT ![q]["successes"] = @ + 1, ![q]["conversions"] = @ + 1]
                  /\ converted' = converted \cup {<<q, l>>}
            [] l # NoLookup /\ <<q, l>> \in converted -> UNCHANGED <<count, converted>>
    /\ Releases(w)
    /\ UNCHANGED <<withheld, receipts, stale>>

\* The second runs out, or the connection is lost: everything is rolled back.
GiveUpWriting(w) ==
    /\ writer[w] # Unused
    /\ Releases(w)
    /\ UNCHANGED <<count, withheld, receipts, stale, converted>>

Age == \E e \in receipts \ stale : stale' = stale \cup {e}
       /\ UNCHANGED <<count, withheld, receipts, converted, rowLock, writer>>
Withhold ==
    /\ \E q \in Queries : rowLock[q] = NoWriter /\ withheld' = withheld \cup {q}
    /\ UNCHANGED <<count, receipts, stale, converted, rowLock, writer>>

LearningNext ==
    \/ Age \/ Withhold
    \/ \E w \in Writers :
          \/ Report(w) \/ Learn(w) \/ GiveUpWriting(w)
          \/ \E q \in Queries :
                \/ \E l \in Lookups : Show(w, q, l) \/ Choose(w, q, l)
                \/ \E l \in Lookups \cup {NoLookup} : Execute(w, q, l)
LearningSpec == LearningInit /\ [][LearningNext]_learningVars

----------------------------------------------------------------------------
\* Reports and receipts that are repeated, at once or later, count once: every
\* counter is the number of its receipts, only what was shown was selected and
\* only what was selected converted. A conversion about to be counted has not
\* been counted yet, so the constraint never undoes an execution's success.
LearnedOnce ==
    /\ \A q \in Queries :
          /\ \A k \in {"impression", "selection"} :
                count[q][k] = Cardinality({e \in receipts : e.kind = k /\ e.query = q})
          /\ count[q]["conversions"] = Cardinality({c \in converted : c[1] = q})
          /\ count[q]["conversions"] <= count[q]["successes"]
    /\ \A e \in receipts : e.kind = "selection" => Receipt("impression", e.query, e.lookup) \in receipts
    /\ \A c \in converted : Receipt("selection", c[1], c[2]) \in receipts
    /\ \A w \in Writers : writer[w].kind = "learn" => <<writer[w].query, writer[w].credit>> \notin converted
=============================================================================
