---------------------------- MODULE Conversations ----------------------------
(***************************************************************************)
(* Conversations about research questions: the process-local store         *)
(* (backend/app/research/conversation_state.py) and the turns that work on *)
(* it (services/research_conversational.py). A turn finds or makes its     *)
(* conversation in one go, then waits for the planner and, for a question, *)
(* for the executor; other turns run meanwhile, conversations expire and   *)
(* are evicted. Of what a turn leaves for the next one the model keeps the *)
(* facts of the last answer, and of them whether the question was about    *)
(* the caller's own place; summaries of plans never name such a place      *)
(* (summarize_plan, research/conversation.py).                             *)
(***************************************************************************)
EXTENDS Naturals, FiniteSets

CONSTANTS
    Owners,      \* sessions of administrators
    Handles,     \* conversation ids, random and never reused
    Turns,       \* requests under way
    Capacity,    \* conversations of all owners together, 256 in the code
    PerSession,  \* conversations of one owner, 8 in the code
    KeptFor,     \* time an idle conversation is kept
    LastTick,    \* bound: ticks of the clock
    NoHandle

ASSUME HandleAssumption == NoHandle \notin Handles \cup Owners
ASSUME LimitAssumption == Capacity \in Nat \ {0} /\ PerSession \in Nat \ {0} /\ KeptFor \in Nat

VARIABLES
    tick,      \* the monotonic clock
    talk,      \* ConversationStore.entries
    spent,     \* handles given out so far
    turn       \* each request: where it waits, for whom, on which conversation

conversationVars == <<tick, talk, spent, turn>>

NoTalk == [owner |-> NoHandle]
NoTurn == [at |-> "idle"]
Stored == {h \in Handles : talk[h] # NoTalk}

ConversationsInit ==
    /\ tick = 0
    /\ talk = [h \in Handles |-> NoTalk]
    /\ spent = {}
    /\ turn = [r \in Turns |-> NoTurn]

----------------------------------------------------------------------------
\* ConversationStore.turn up to its yield: nothing is awaited in between.

Fresh(t) == {h \in Handles : t[h] # NoTalk /\ (t[h].expires > tick \/ t[h].busy)}
\* _evict: the idle conversation that expires first; which of several is open.
\* Mutant: a turn under way does not protect its conversation.
EvictableBusyOrNot(t, among) == {h \in among : \A g \in among : t[h].expires <= t[g].expires}
Evictable(t, among) ==
    LET idle == {h \in among : ~ t[h].busy} IN {h \in idle : \A g \in idle : t[h].expires <= t[g].expires}
\* What may be evicted to make room in a set of at most limit; nothing if there
\* is room, and no choice at all, a 503, if every conversation is busy.
MakeRoom(t, among, limit) ==
    IF Cardinality(among) < limit THEN {{}} ELSE {{h} : h \in Evictable(t, among)}

Enters(r, o, h, expired) ==
    turn' = [turn EXCEPT ![r] = [at |-> "planning", owner |-> o, handle |-> h, expired |-> expired]]

\* Going on with one's own conversation; a second turn on it gets a 503.
Continue(r, o, h) ==
    /\ turn[r] = NoTurn
    /\ h \in Fresh(talk) /\ talk[h].owner = o
    /\ talk' = [g \in Handles |-> IF g \notin Fresh(talk) THEN NoTalk
                                  ELSE IF g = h THEN [talk[h] EXCEPT !.busy = TRUE] ELSE talk[g]]
    /\ IF talk[h].busy THEN UNCHANGED turn ELSE Enters(r, o, h, FALSE)
    /\ UNCHANGED <<tick, spent>>

\* No token, or one that is unknown, expired or somebody else's: a conversation
\* of one's own, first out of one's own share and then out of everybody's.
Start(r, o) ==
    /\ turn[r] = NoTurn
    /\ LET fresh == Fresh(talk)
           mine == {h \in fresh : talk[h].owner = o}
       IN \/ \E out1 \in MakeRoom(talk, mine, PerSession) :
             \E out2 \in MakeRoom(talk, fresh \ out1, Capacity) :
             \E h \in Handles \ spent, expired \in BOOLEAN :
                /\ talk' = [g \in Handles |->
                     IF g = h THEN [owner |-> o, expires |-> tick + KeptFor, busy |-> TRUE, facts |-> "none"]
                     ELSE IF g \in fresh \ (out1 \cup out2) THEN talk[g] ELSE NoTalk]
                /\ spent' = spent \cup {h}
                /\ Enters(r, o, h, expired)
          \/ \E out1 \in MakeRoom(talk, mine, PerSession) :
                /\ MakeRoom(talk, fresh \ out1, Capacity) = {}
                /\ talk' = [g \in Handles |-> IF g \in fresh \ out1 THEN talk[g] ELSE NoTalk]
                /\ UNCHANGED <<spent, turn>>
          \/ /\ MakeRoom(talk, mine, PerSession) = {}
             /\ talk' = [g \in Handles |-> IF g \in fresh THEN talk[g] ELSE NoTalk]
             /\ UNCHANGED <<spent, turn>>
    /\ UNCHANGED tick

----------------------------------------------------------------------------
\* The end of a turn, whichever way it leaves the with block: the conversation
\* is idle again and its lifetime starts anew.
Leaves(r, facts) ==
    /\ talk' = [talk EXCEPT ![turn[r].handle] =
                   [@ EXCEPT !.busy = FALSE, !.expires = tick + KeptFor, !.facts = facts]]
    /\ turn' = [turn EXCEPT ![r] = NoTurn]
    /\ UNCHANGED <<tick, spent>>
Memory(r) == talk[turn[r].handle]

\* The planner, or what follows it, raises.
TurnFails(r) == turn[r].at # "idle" /\ Leaves(r, Memory(r).facts)

\* The planner answers. A lost conversation is told so; small talk and a question
\* asked back keep, or drop, the facts there are.
Reply(r) ==
    /\ turn[r].at = "planning"
    /\ \/ Leaves(r, Memory(r).facts)
       \/ ~ turn[r].expired /\ Leaves(r, "none")

\* A question that can be executed, about the caller's place or not.
Research(r) ==
    /\ turn[r].at = "planning" /\ ~ turn[r].expired
    /\ \E kind \in {"plain", "private"} :
          turn' = [turn EXCEPT ![r] = [at |-> "executing", owner |-> @.owner, handle |-> @.handle, kind |-> kind]]
    /\ UNCHANGED <<tick, talk, spent>>

\* Its outcome. What comes from the caller's place leaves nothing behind.
Remembered(kind) == IF kind = "private" THEN "none" ELSE kind
Answer(r) ==
    /\ turn[r].at = "executing"
    /\ Leaves(r, Remembered(turn[r].kind))

TimePasses == tick < LastTick /\ tick' = tick + 1 /\ UNCHANGED <<talk, spent, turn>>

ConversationsNext ==
    \/ TimePasses
    \/ \E r \in Turns :
          \/ TurnFails(r) \/ Reply(r) \/ Research(r) \/ Answer(r)
          \/ \E o \in Owners : Start(r, o) \/ \E h \in Handles : Continue(r, o, h)
ConversationsSpec == ConversationsInit /\ [][ConversationsNext]_conversationVars

----------------------------------------------------------------------------
\* A turn that waits works on a conversation of its own session that is still
\* in the store, and on which no other turn works, whatever expired or was
\* evicted meanwhile; the store never outgrows its limits, a conversation is
\* busy for no longer than a turn, and none remembers anything that comes from
\* the place of the caller.
ConversationKept ==
    /\ \A r \in Turns : turn[r].at # "idle" =>
          /\ turn[r].handle \in Stored
          /\ Memory(r).busy /\ Memory(r).owner = turn[r].owner
          /\ \A q \in Turns : turn[q].at # "idle" /\ turn[q].handle = turn[r].handle => q = r
    /\ Cardinality(Stored) <= Capacity
    /\ \A o \in Owners : Cardinality({h \in Stored : talk[h].owner = o}) <= PerSession
    /\ \A h \in Stored :
          /\ talk[h].busy => \E r \in Turns : turn[r].at # "idle" /\ turn[r].handle = h
          /\ talk[h].facts # "private"
=============================================================================
