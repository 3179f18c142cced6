----------------------------- MODULE ResearchTurns -----------------------------
(***************************************************************************)
(* One request about a research question after the other: which contract   *)
(* the planner is asked over and with which context (api/research.py,      *)
(* services/research_planner.py, research_domain_client.py), what becomes  *)
(* of its answer, and what a conversation keeps for the next request       *)
(* (services/research_conversational.py, research_legacy_conversation.py,  *)
(* research/conversation.py). What a request leaves behind is an item that *)
(* names the request; plans are cut down to what decides about that. How   *)
(* requests at once share the store of conversations is in Conversations.  *)
(***************************************************************************)
EXTENDS Naturals, Sequences, SequencesExt, Functions

CONSTANTS
    Protocols,    \* contracts that may be configured; legacy is v3, v5 or v6 by its flags
    Remembers,    \* summaries kept of a conversation, 4 in the code
    MaxRequests   \* bound: requests

Legacy == {"v3", "v5", "v6"}
Versions == {"v9", "v10", "v11", "v12", "v13"}
ASSUME ProtocolAssumption == Protocols \subseteq Legacy \cup Versions
ASSUME RequestBounds == Remembers \in Nat \ {0} /\ MaxRequests \in Nat

VARIABLES
    protocol,   \* settings.research_planner_contract
    requests,   \* requests so far
    handle,     \* the conversation the browser names: none, kept, or lost by the store
    memory,     \* what the store keeps of it
    request,    \* the request under way
    exchanges,  \* what the planner was asked for it
    status,     \* how the last request ended
    answered,   \* the questions answered in this conversation
    learnt      \* the questions handed on to the suggestions

turnVars ==
    <<protocol, requests, handle, memory, request, exchanges, status, answered, learnt>>

NoItem == [turn |-> 0]
Blank == [past |-> <<>>, pending |-> NoItem, facts |-> NoItem]
Idle == [at |-> "idle"]

TurnsInit ==
    /\ protocol \in Protocols
    /\ requests = 0 /\ handle = "none" /\ memory = Blank /\ request = Idle
    /\ exchanges = <<>> /\ status = "none" /\ answered = <<>> /\ learnt = {}

----------------------------------------------------------------------------
\* What of a plan is remembered: no comparison, no clock, no place but an area.
Item(p) ==
    [turn |-> requests, private |-> p.place \in {"named", "here"}, level |-> p.place = "level"]
Summary(p) ==
    IF p.summable /\ p.place \in {"none", "area"}
                     \cup IF protocol \in {"v12", "v13"} THEN {"level"} ELSE {}
    THEN Item(p) ELSE NoItem
Sensitive(p) == request.here \/ Item(p).private
\* Mutant: what cannot be remembered is left out.
RememberWhatFits(m, item) ==
    IF item = NoItem THEN m ELSE [m EXCEPT !.past = Append(@, item)]
Remember(m, item) ==
    [m EXCEPT !.past =
        IF item = NoItem THEN <<>>
        ELSE LET all == Append(@, item)
             IN SubSeq(all, IF Len(all) > Remembers THEN Len(all) - Remembers + 1 ELSE 1, Len(all))]

Ends(how) ==
    /\ status' = how /\ request' = Idle
    /\ UNCHANGED <<protocol, requests, exchanges>>
Forgets == UNCHANGED <<handle, memory, answered, learnt>>
Fails(how) == Ends(how) /\ Forgets

----------------------------------------------------------------------------
\* A request comes in. A conversation that is not named, or that the store has lost,
\* begins anew; the older contracts know none.
Owned == protocol \in {"v11", "v12", "v13"}
Refused(r) ==
    CASE protocol = "v13" -> r.given # "none"
      [] protocol \in {"v11", "v12"} /\ r.given = "none" -> r.id = "lost"
      [] OTHER ->
            \/ r.id # "none"
            \/ r.given # "none" /\ protocol \notin {"v11", "v12"}
            \/ r.given = "levelled" /\ protocol = "v11"
Own(r) == Owned /\ r.given = "none"
Asked(version, context, pending) ==
    exchanges' = <<[version |-> version, context |-> context, pending |-> pending]>>

Given(r) ==
    IF r.given = "none" THEN <<>>
    ELSE <<[turn |-> requests + 1, private |-> FALSE, level |-> r.given = "levelled"]>>
Query(id, given, here) ==
    LET r == [at |-> "planning", route |-> "query", id |-> id, given |-> given, here |-> here]
        m == IF Own(r) /\ id # "kept" THEN Blank ELSE memory
    IN /\ request = Idle /\ requests < MaxRequests
       /\ id \in {"none", handle}
       /\ requests' = requests + 1
       /\ IF Refused(r)
          THEN /\ status' = "422" /\ exchanges' = <<>>
               /\ UNCHANGED <<request, memory, answered, handle>>
          ELSE /\ request' = r /\ memory' = m
               /\ answered' = IF m = memory THEN answered ELSE <<>>
               /\ handle' = IF Own(r) THEN id ELSE handle
               /\ Asked(protocol, IF Own(r) THEN m.past ELSE Given(r),
                        IF protocol = "v13" THEN m.pending ELSE NoItem)
               /\ UNCHANGED status
       /\ UNCHANGED <<protocol, learnt>>

\* The routes of their own: planning alone, the administrative and the domain contract.
Routes == [plan |-> "v3", administrative |-> "v8", domain |-> "v4"]
Route(name) ==
    /\ request = Idle /\ requests < MaxRequests
    /\ requests' = requests + 1
    /\ request' = [at |-> "planning", route |-> name, here |-> FALSE]
    /\ Asked(Routes[name], <<>>, NoItem)
    /\ UNCHANGED <<protocol, handle, memory, status, answered, learnt>>

\* The store loses the conversation: idle for too long, evicted, or a restart.
Lose ==
    /\ request = Idle /\ handle = "kept" /\ handle' = "lost"
    /\ UNCHANGED <<protocol, requests, memory, request, exchanges, status, answered, learnt>>

----------------------------------------------------------------------------
\* The planner does not answer within the deadline, denies access, has a fault of its
\* own, refuses the question, or answers what no plan of the contract is.
Faults == {"silent", "denied", "fault", "unsupported", "unprocessable", "invalid"}
LegacyStatus(f) ==
    CASE f \in {"silent", "denied"} -> "503" [] f = "unsupported" -> "422" [] OTHER -> "502"
AdministrativeStatus(f) == IF f \in {"silent", "denied"} THEN "503" ELSE "502"
LanguageStatus(f) == IF f \in {"silent", "denied"} THEN "503" ELSE "502"
DomainStatus(f) ==
    CASE f \in {"silent", "denied", "fault"} -> "503"
      [] f \in {"unsupported", "unprocessable"} -> "422" [] OTHER -> "502"
StatusOf(version, f) ==
    CASE version \in Legacy -> LegacyStatus(f) [] version = "v8" -> AdministrativeStatus(f)
      [] version = "v4" -> DomainStatus(f) [] OTHER -> LanguageStatus(f)
PlannerFails ==
    /\ request.at = "planning"
    /\ \E f \in Faults : Fails(StatusOf(exchanges[1].version, f))

Places == {"none", "area", "named", "here"}
            \cup IF protocol \in {"v12", "v13"} THEN {"level"} ELSE {}
Reasons == {"none", "needs_location", "needs_date"}
             \cup IF Owned THEN {"needs_context"} ELSE {}
\* Legacy planners may not answer with an unsupported plan; fits is what ResearchPlans
\* decides about the plan, summable that a summary has room for it.
TurnPlans ==
    [clarification : Reasons, place : Places, fits : BOOLEAN, summable : BOOLEAN,
     unsupported : IF protocol \in Legacy THEN {FALSE} ELSE BOOLEAN]
WellPut(p) ==
    /\ p.place = "here" => p.clarification = "needs_location"
    /\ p.unsupported => p.place = "none" /\ p.summable /\ p.fits

Executing(p) ==
    /\ request' = [at |-> "executing", route |-> request.route, here |-> request.here,
                   plan |-> p, own |-> Own(request),
                   alone |-> exchanges[1].context = <<>>]
    /\ Forgets /\ UNCHANGED <<protocol, requests, exchanges, status>>

\* Before v13 a plan is executed, or the request fails and nothing is changed.
Plan12(p) ==
    /\ request.at = "planning" /\ request.route = "query" /\ protocol # "v13"
    /\ IF p.unsupported \/ (p.clarification # "needs_context" /\ ~p.fits)
       THEN Fails("422") ELSE Executing(p)

\* v13: small talk and questions to the user never reach the executor.
Acts == {"thanks", "repeat", "greet", "ask_back", "unsupported"}
Replies(how, m) ==
    /\ Ends(how) /\ handle' = "kept" /\ memory' = m
    /\ UNCHANGED <<answered, learnt>>
LostThread ==
    /\ request.at = "planning" /\ protocol = "v13" /\ request.route = "query"
    /\ request.id = "lost" /\ Replies("no_context", memory)
Talking == request.at = "planning" /\ request.route = "query" /\ protocol = "v13"
             /\ request.id # "lost"
Converse(act) ==
    /\ Talking
    /\ Replies("talked", CASE act \in {"thanks", "repeat"} -> memory
                           [] act = "unsupported" -> Blank
                           [] OTHER -> [memory EXCEPT !.facts = NoItem])
\* A question to be cleared up first is kept as pending, if it can be.
AskedBack(p) ==
    /\ Talking /\ ~p.unsupported /\ p.clarification \in {"needs_date", "needs_context"}
    /\ IF p.clarification = "needs_context" THEN Replies("no_context", memory)
       ELSE Replies("asked_back",
                    [memory EXCEPT !.pending = IF p.fits THEN Summary(p) ELSE NoItem])
Unsupported(p) ==
    /\ Talking
    /\ p.unsupported \/ (p.clarification \in {"none", "needs_location"} /\ ~p.fits)
    /\ Replies("unsupported", Blank)
Research13(p) ==
    /\ Talking /\ ~p.unsupported /\ p.fits /\ p.clarification \in {"none", "needs_location"}
    /\ Executing(p)

PlanOnly == request.at = "planning" /\ request.route = "plan" /\ Fails("200")
Administrative8 ==
    /\ request.at = "planning" /\ request.route = "administrative"
    /\ \E how \in {"200", "422", "503"} : Fails(how)
\* v4: facts about the project come from another service, everything else from the data.
AskKnowledge ==
    /\ request.at = "planning" /\ request.route = "domain"
    /\ request' = [request EXCEPT !.at = "knowledge"]
    /\ Forgets /\ UNCHANGED <<protocol, requests, exchanges, status>>
KnowledgeAnswers ==
    /\ request.at = "knowledge" /\ \E how \in {"200", "502", "503"} : Fails(how)
AnswerData ==
    /\ request.at = "planning" /\ request.route = "domain"
    /\ \E how \in {"200", "422", "503"} : Fails(how)

----------------------------------------------------------------------------
\* The executor asks back by itself, or finds a name ambiguous, or shows results.
AsksBack(p) == p.clarification # "none" /\ ~(p.place = "here" /\ request.here)
Outcomes(p) == IF AsksBack(p) THEN {"clarification"} ELSE {"ambiguous", "results"}

Finished(p, outcome) ==
    LET summary == IF Sensitive(p) THEN NoItem
                   ELSE IF outcome = "clarification" THEN NoItem ELSE Summary(p)
        fact == IF Sensitive(p) THEN NoItem ELSE Item(p)
    IN IF outcome = "results"
       THEN [Remember(memory, summary) EXCEPT !.pending = NoItem, !.facts = fact]
       ELSE [memory EXCEPT !.pending = summary, !.facts = fact]
Answer13(outcome) ==
    /\ request.at = "executing" /\ protocol = "v13" /\ outcome \in Outcomes(request.plan)
    /\ Ends("200") /\ handle' = "kept" /\ memory' = Finished(request.plan, outcome)
    /\ answered' = IF outcome = "results" THEN Append(answered, requests) ELSE answered
    /\ UNCHANGED learnt

\* Before v13 a conversation remembers results only, and only a question asked on its
\* own is learnt from.
Recorded(p, outcome) == outcome = "results" /\ ~Sensitive(p) /\ request.alone
Answer12(outcome) ==
    LET p == request.plan
        summary == IF Sensitive(p) \/ outcome # "results" THEN NoItem ELSE Summary(p)
    IN /\ request.at = "executing" /\ protocol # "v13" /\ outcome \in Outcomes(p)
       /\ Ends("200")
       /\ IF request.own
          THEN /\ memory' = Remember(memory, summary) /\ handle' = "kept"
               /\ answered' = IF outcome = "results" THEN Append(answered, requests) ELSE answered
          ELSE UNCHANGED <<memory, handle, answered>>
       /\ learnt' = IF Recorded(p, outcome) THEN learnt \cup {Item(p)} ELSE learnt
ExecutionFails ==
    /\ request.at = "executing" /\ \E how \in {"422", "502", "503"} : Fails(how)

TurnsNext ==
    \/ \E id \in {"none", "kept", "lost"}, given \in {"none", "plain", "levelled"} :
          \E here \in BOOLEAN : Query(id, given, here)
    \/ \E name \in DOMAIN Routes : Route(name)
    \/ Lose \/ PlannerFails \/ LostThread \/ PlanOnly
    \/ Administrative8 \/ AskKnowledge \/ KnowledgeAnswers \/ AnswerData
    \/ \E act \in Acts : Converse(act)
    \/ \E p \in {p \in TurnPlans : WellPut(p)} :
          Plan12(p) \/ AskedBack(p) \/ Unsupported(p) \/ Research13(p)
    \/ \E outcome \in {"clarification", "ambiguous", "results"} :
          Answer13(outcome) \/ Answer12(outcome)
    \/ ExecutionFails
TurnsSpec == TurnsInit /\ [][TurnsNext]_turnVars

----------------------------------------------------------------------------
\* What the next question is planned with and answered from: the summaries are of the
\* latest questions answered, with none of them left out in between, a question to be
\* cleared up is newer than all of these, what can be repeated is not older than the
\* last of them; and nothing of it, and nothing that is learnt, tells the place somebody
\* asked from or about.
ContextFollows ==
    LET past == memory.past
        kept == Range(past) \cup {memory.pending, memory.facts}
    IN /\ IsSuffix([i \in DOMAIN past |-> past[i].turn], answered)
       /\ answered # <<>> =>
            /\ memory.pending # NoItem => memory.pending.turn > Last(answered)
            /\ memory.facts # NoItem => memory.facts.turn >= Last(answered)
       /\ \A item \in (kept \cup learnt) \ {NoItem} : ~item.private

\* Research that is asked back about, and that no summary can represent, leaves no
\* selection behind that a later question could silently go on from.
NoStaleSelection ==
    [][request # Idle /\ status' = "asked_back" /\ memory'.pending = NoItem
         => memory'.past = <<>>]_turnVars
=============================================================================
