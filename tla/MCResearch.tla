------------------------------ MODULE MCResearch ------------------------------
(* The parts of the research backend that share no state, side by side: in   *)
(* each behaviour one of them moves and the others stay as they start.       *)
EXTENDS ResearchPlans, SemanticSearch, SuggestionLearning, Conversations,
    ResearchTurns, TaxonomyIndex, PlanResolution, TLC

CONSTANTS
    n1, n2, h1, h2, q1, q2, o1, o2, e1, e2, e3, v1, v2,
    r1, r2, t1, t2, c1, c2, la, lb, unlisted

VARIABLE part
researchVars ==
    <<planVars, searchVars, learningVars, conversationVars, turnVars, taxonomyVars,
      resolutionVars, part>>

PlansRest ==
    contract = "v12" /\ wire.intent = "list" /\ wire.entity = "event" /\ wire.limit = NoLimit
TurnsRest == protocol = "v13"
SearchRest ==
    /\ fitting = {} /\ wanted = AnyVenue /\ occurrence = [o \in {} |-> {}] /\ moves = 0
    /\ search = "asked" /\ eligible = {} /\ hits = {} /\ answer = {}
ResolutionRest ==
    /\ setup = {"geocoder", "taxonomy"} /\ stored = OneLevel /\ moments = {stored} /\ resolving = Begun(stored)
    /\ question = [place |-> "none", context |-> "none", areas |-> <<>>, targetAreas |-> <<>>,
                   relation |-> "inside", boundary |-> FALSE, inventory |-> FALSE, slots |-> {}]

Init ==
    /\ part \in {"plans", "search", "suggestions", "conversations", "turns",
                "taxonomy", "resolution"}
    /\ PlansInit /\ (part # "plans" => PlansRest)
    /\ IF part = "search" THEN SearchInit ELSE SearchRest
    /\ LearningInit
    /\ ConversationsInit
    /\ TurnsInit /\ (part # "turns" => TurnsRest)
    /\ TaxonomyInit /\ \A e \in Entries : vocabulary[e] = la
    /\ IF part = "resolution" THEN ResolutionInit ELSE ResolutionRest
Next ==
    /\ UNCHANGED part
    /\ \/ part = "plans" /\ PlansNext
          /\ UNCHANGED <<searchVars, learningVars, conversationVars,
                         turnVars, taxonomyVars, resolutionVars>>
       \/ part = "search" /\ SearchNext
          /\ UNCHANGED <<planVars, learningVars, conversationVars,
                         turnVars, taxonomyVars, resolutionVars>>
       \/ part = "suggestions" /\ LearningNext
          /\ UNCHANGED <<planVars, searchVars, conversationVars,
                         turnVars, taxonomyVars, resolutionVars>>
       \/ part = "conversations" /\ ConversationsNext
          /\ UNCHANGED <<planVars, searchVars, learningVars,
                         turnVars, taxonomyVars, resolutionVars>>
       \/ part = "turns" /\ TurnsNext
          /\ UNCHANGED <<planVars, searchVars, learningVars, conversationVars,
                         taxonomyVars, resolutionVars>>
       \/ part = "taxonomy" /\ TaxonomyNext
          /\ UNCHANGED <<planVars, searchVars, learningVars, conversationVars,
                         turnVars, resolutionVars>>
       \/ part = "resolution" /\ ResolutionNext
          /\ UNCHANGED <<planVars, searchVars, learningVars, conversationVars,
                         turnVars, taxonomyVars>>
Spec == Init /\ [][Next]_researchVars

\* Only one part moves, so one symmetry may exchange members of a set of each
\* part; the parts that rest hold none of them.
Exchanged == h1 :> h2 @@ h2 :> h1 @@ n1 :> n2 @@ n2 :> n1 @@ r1 :> r2 @@ r2 :> r1 @@ e2 :> e3 @@ e3 :> e2
AlsoExchanged ==
    q1 :> q2 @@ q2 :> q1 @@ o1 :> o2 @@ o2 :> o1
    @@ t1 :> t2 @@ t2 :> t1 @@ c1 :> c2 @@ c2 :> c1 @@ v1 :> v2 @@ v2 :> v1
Symmetry == {Exchanged, AlsoExchanged} \cup {Exchanged @@ AlsoExchanged}

\* Two dates of one event.
OfOneEvent == 1 :> e1 @@ 2 :> e1

GenreTypes == c1 :> t1 @@ c2 :> t2

\* One type with three genres, and a limit of two. The label a genre was reviewed
\* with tells the words apart; under another it comes near to words it does not
\* mean, or leaves the ones it meant.
EntryKinds == <<"event_type", "genre", "genre", "genre">>
EntryTypes == <<1, 1, 1, 1>>
As(reviewed, relabelled) == la :> reviewed @@ lb :> relabelled
NearnessSeen ==
    "clear" :> <<As(10, 12), As(80, 20), As(40, 36), As(38, 78)>> @@
    "vague" :> <<As(10, 12), As(66, 12), As(14, 8), As(70, 20)>>
Reviewed == {
    [word |-> "clear", kind |-> "genre", expects |-> {2}, label |-> la],
    [word |-> "clear", kind |-> "event_type", expects |-> {2}, label |-> la],
    [word |-> "vague", kind |-> "genre", expects |-> {2, 4}, label |-> la],
    [word |-> "vague", kind |-> "event_type", expects |-> {}, label |-> la]}
=============================================================================
