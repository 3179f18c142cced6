----------------------------- MODULE SqlConsole -----------------------------
(***************************************************************************)
(* The read-only SQL console: a browser page (useSqlConsole.ts), the       *)
(* WebSocket handler of each connection (api/sql_console.py) and the query *)
(* tasks that share the slots of ConsoleRuntime (sql_console/runtime.py).  *)
(* The proxy between page and server passes frames on in order, or drops   *)
(* the connection.                                                         *)
(*                                                                         *)
(* Each process is a single-threaded event loop: a step runs from one      *)
(* await to the next. A query is its request number, a batch of rows its   *)
(* number, and a connection the request it was opened for. "started" and   *)
(* "columns" frames change no state the page decides on and are left out.  *)
(***************************************************************************)
EXTENDS Naturals, Sequences, FiniteSets

CONSTANTS
    MaxRequests,  \* bound: executed queries
    MaxBatches,   \* bound: batches of rows a query yields
    MaxChecks,    \* bound: session checks of the page under way
    Slots         \* sql_console_max_connections

ASSUME ConsoleBounds ==
    /\ MaxRequests \in Nat \ {0} /\ MaxBatches \in Nat
    /\ MaxChecks \in Nat \ {0} /\ Slots \in Nat \ {0}

VARIABLES
    \* The page.
    ui,        \* status
    checks,    \* calls of execute() that wait for the session check
    executing, \* the execute frame of the current call was sent
    requestId, \* the page's request, 0 before the first
    batch,     \* the last batch it received
    shown,     \* batches added to the table
    socket,    \* its connection, 0 for none
    timers,    \* armed timers: the one it can still clear, and a forgotten one
    issued,    \* requests so far
    \* The connections.
    up, down,  \* frames on their way to the server and to the page
    handler,   \* console_socket
    active,    \* request_id in the handler
    expected,  \* expected_batch
    ack,       \* the future of the last batch
    \* The runtime.
    task,      \* execute() of each connection
    closed,    \* ConsoleRuntime.closed
    replies    \* history: the frames sent about each request

pageVars == <<ui, checks, executing, requestId, batch, shown, socket, timers, issued>>
handlerVars == <<handler, active, expected, ack>>
serverVars == <<handlerVars, task, closed, replies>>
sqlVars == <<pageVars, up, down, serverVars>>

Ids == 1..MaxRequests
Sockets == Ids
Verdicts == {"complete", "cancelled", "error"}
Closes == {"close", "close401", "close403"}
Frame(type, id, b) == [type |-> type, id |-> id, batch |-> b]
Tasks == [at: {"none", "created", "running", "acking", "settling", "reporting", "done"},
          batch: 0..MaxBatches, verdict: Verdicts]

Busy == ui \in {"Running", "Cancelling"}
ActiveTask(s) == task[s].at \notin {"none", "done"}
Left(s) == handler[s] \in {"leaving", "gone"}

SqlInit ==
    /\ ui = "Idle" /\ checks = 0 /\ executing = FALSE /\ requestId = 0
    /\ batch = 0 /\ shown = 0 /\ socket = 0 /\ timers = {} /\ issued = 0
    /\ up = [s \in Sockets |-> <<>>]
    /\ down = [s \in Sockets |-> <<>>]
    /\ handler = [s \in Sockets |-> "none"]
    /\ active = [s \in Sockets |-> 0]
    /\ expected = [s \in Sockets |-> 0]
    /\ ack = [s \in Sockets |-> "none"]
    /\ task = [s \in Sockets |-> [at |-> "none", batch |-> 0, verdict |-> "error"]]
    /\ closed = FALSE
    /\ replies = [r \in Ids |-> <<>>]
-----------------------------------------------------------------------------
(* The page: useSqlConsole.ts.                                             *)

\* A frame of the page on connection s; a handler that left reads no more.
Up(s, frame) ==
    up' = IF s = 0 \/ Left(s) THEN up ELSE [up EXCEPT ![s] = Append(@, frame)]

\* The page closes its connection: what it sent before still arrives, what comes
\* back is ignored.
HangUp ==
    /\ Up(socket, Frame("disconnect", 0, 0))
    /\ down' = [s \in Sockets |-> IF s = socket THEN <<>> ELSE down[s]]

Disconnect == HangUp /\ socket' = 0 /\ timers' = timers \ {"current"}

Open == socket # 0 /\ handler[socket] \notin {"connecting", "none"}

\* Mutant: only the handshake is timed.
ArmNothing == UNCHANGED timers

\* Setting the watchdog forgets a timer that is still armed.
Arm == timers' = {"current"} \cup (IF timers = {} THEN {} ELSE {"forgotten"})

\* execute() up to the session check.
Execute ==
    /\ ~Busy
    /\ checks < MaxChecks /\ issued + checks < MaxRequests
    /\ ui' = "Running"
    /\ executing' = FALSE
    /\ checks' = checks + 1
    /\ UNCHANGED <<requestId, batch, shown, socket, timers, issued, up, down, serverVars>>

\* The session check failed.
CheckFails ==
    /\ checks > 0
    /\ checks' = checks - 1
    /\ ui' = "Error"
    /\ timers' = timers \ {"current"}
    /\ UNCHANGED <<executing, requestId, batch, shown, socket, issued, up, down, serverVars>>

\* The session check passed, but the page is no longer running.
CheckIgnored ==
    /\ checks > 0 /\ ui # "Running"
    /\ checks' = checks - 1
    /\ UNCHANGED <<ui, executing, requestId, batch, shown, socket, timers, issued, up,
                   down, serverVars>>

\* It passed: the query gets its request number.
CheckPasses ==
    /\ checks > 0 /\ ui = "Running"
    /\ checks' = checks - 1
    /\ issued' = issued + 1
    /\ requestId' = issued'
    /\ batch' = 0 /\ shown' = 0

\* The query is sent on the open connection.
RunOnOpen ==
    /\ CheckPasses
    /\ Open
    /\ executing' = TRUE
    /\ Up(socket, Frame("execute", requestId', 0))
    /\ Arm
    /\ UNCHANGED <<ui, socket, down, serverVars>>

\* A connection is opened for the query; a timer guards the handshake.
Connect ==
    /\ CheckPasses
    /\ ~Open
    /\ socket' = requestId'
    /\ handler' = [handler EXCEPT ![requestId'] = "connecting"]
    /\ HangUp
    /\ timers' = timers \cup {"current"}
    /\ UNCHANGED <<ui, executing, active, expected, ack, task, closed, replies>>

\* The handshake is accepted; onopen sends the query the connection is for.
Opened(s) ==
    /\ handler[s] = "connecting"
    /\ handler' = [handler EXCEPT ![s] = "reading"]
    /\ IF s = socket /\ s = requestId /\ ui = "Running"
       THEN /\ executing' = TRUE
            /\ Up(s, Frame("execute", s, 0))
            /\ timers' = timers \cup {"current"}
       ELSE /\ timers' = IF s = socket THEN timers \ {"current"} ELSE timers
            /\ UNCHANGED <<executing, up>>
    /\ UNCHANGED <<ui, checks, requestId, batch, shown, socket, issued, down, active,
                   expected, ack, task, closed, replies>>

\* The handshake is refused.
Refused(s) ==
    /\ handler[s] = "connecting"
    /\ handler' = [handler EXCEPT ![s] = "gone"]
    /\ up' = [up EXCEPT ![s] = <<>>]
    /\ IF s = socket
       THEN ui' = "Error" /\ socket' = 0 /\ timers' = timers \ {"current"}
       ELSE UNCHANGED <<ui, socket, timers>>
    /\ UNCHANGED <<checks, executing, requestId, batch, shown, issued, down, active,
                   expected, ack, task, closed, replies>>

Cancel ==
    /\ ui = "Running"
    /\ IF executing /\ Open
       THEN /\ ui' = "Cancelling"
            /\ Up(socket, Frame("cancel", requestId, 0))
            /\ UNCHANGED <<socket, timers, down>>
       ELSE ui' = "Cancelled" /\ Disconnect
    /\ UNCHANGED <<checks, executing, requestId, batch, shown, issued, serverVars>>

\* A timer fires, the forgotten one too.
TimerFires ==
    /\ timers # {}
    /\ ui' = "Error"
    /\ \/ "current" \in timers /\ Disconnect
       \/ "forgotten" \in timers
          /\ socket' = 0 /\ timers' = {}
          /\ HangUp
    /\ UNCHANGED <<checks, executing, requestId, batch, shown, issued, serverVars>>

\* The page is left, or rebuilt because the administrator's session changed.
Reset ==
    /\ ui' = "Idle" /\ checks' = 0 /\ executing' = FALSE /\ requestId' = 0
    /\ batch' = 0 /\ shown' = 0 /\ socket' = 0 /\ timers' = {}
Remount ==
    /\ Reset
    /\ HangUp
    /\ UNCHANGED <<issued, serverVars>>

\* The next frame of the page's connection.
Arrives(f) == socket # 0 /\ down[socket] # <<>> /\ f = Head(down[socket])
Consume == down' = [down EXCEPT ![socket] = Tail(@)]

\* onmessage: frames about another request are ignored.
OnOther(f) ==
    /\ f.type \notin Closes /\ f.id # requestId
    /\ Consume
    /\ UNCHANGED <<pageVars, up, serverVars>>

\* Rows are added and acknowledged only while the page is running. A connection
\* keeps its batches in order, so the page's check of their number never fails.
OnRows(f) ==
    /\ f.type = "rows" /\ f.id = requestId /\ f.batch = batch + 1
    /\ batch' = f.batch
    /\ IF ui = "Running"
       THEN shown' = shown + 1 /\ Up(socket, Frame("ack", requestId, batch'))
       ELSE UNCHANGED <<shown, up>>
    /\ Consume
    /\ UNCHANGED <<ui, checks, executing, requestId, socket, timers, issued, serverVars>>

OnVerdict(f) ==
    /\ f.type \in Verdicts /\ f.id = requestId
    /\ ui' = CASE f.type = "complete" -> "Completed"
               [] f.type = "cancelled" -> "Cancelled"
               [] f.type = "error" -> "Error"
    /\ timers' = timers \ {"current"}
    /\ Consume
    /\ UNCHANGED <<checks, executing, requestId, batch, shown, socket, issued, up, serverVars>>

\* onclose; 4401 ends the page's session, 4403 shows an error.
OnClose(f) ==
    /\ f.type \in Closes
    /\ IF f.type = "close401"
       THEN Reset
       ELSE /\ socket' = 0
            /\ IF Busy \/ f.type = "close403"
               THEN ui' = "Error" /\ timers' = timers \ {"current"}
               ELSE UNCHANGED <<ui, timers>>
            /\ UNCHANGED <<checks, executing, requestId, batch, shown>>
    /\ Consume
    /\ UNCHANGED <<issued, up, serverVars>>

\* The network or the proxy drops the connection with everything on its way.
Drop ==
    /\ Open
    /\ down' = [down EXCEPT ![socket] = <<Frame("close", 0, 0)>>]
    /\ up' = IF Left(socket) THEN up ELSE [up EXCEPT ![socket] = <<Frame("disconnect", 0, 0)>>]
    /\ UNCHANGED <<pageVars, serverVars>>
-----------------------------------------------------------------------------
(* The connection: api/sql_console.py.                                     *)

Sent(f) == replies' = [replies EXCEPT ![f.id] = Append(@, [type |-> f.type, batch |-> f.batch])]
Down(s, f) == down' = IF s = socket THEN [down EXCEPT ![s] = Append(@, f)] ELSE down

\* What cancelling a task does to it: a created one never starts, a query that
\* waits is rolled back, a rollback is cut short, a verdict may stay unsent.
Cancelled(t) ==
    CASE t.at = "created" -> [t EXCEPT !.at = "done"]
      [] t.at \in {"running", "acking"} -> [t EXCEPT !.at = "settling", !.verdict = "cancelled"]
      [] t.at = "settling" -> [t EXCEPT !.at = "reporting"]
      [] t.at = "reporting" -> [t EXCEPT !.at = "done"]
      [] OTHER -> t
CancelTasks(S) ==
    /\ task' = [s \in Sockets |-> IF s \in S THEN Cancelled(task[s]) ELSE task[s]]
    /\ ack' = [s \in Sockets |->
                IF s \in S /\ task[s].at = "acking" /\ ack[s] = "pending" THEN "done" ELSE ack[s]]

\* Mutant: the handler does not wait for the query it cancels.
LeaveAtOnce(s) ==
    /\ handler' = [handler EXCEPT ![s] = "gone"]
    /\ CancelTasks({s})
    /\ up' = [up EXCEPT ![s] = <<>>]

\* The handler stops reading, cancels its query and waits for it.
Leave(s) ==
    /\ handler' = [handler EXCEPT ![s] = IF ActiveTask(s) THEN "leaving" ELSE "gone"]
    /\ CancelTasks({s})
    /\ up' = [up EXCEPT ![s] = <<>>]

Reads(s, f) == handler[s] = "reading" /\ up[s] # <<>> /\ f = Head(up[s])
Read(s) == up' = [up EXCEPT ![s] = Tail(@)]

OnDisconnect(s, f) ==
    /\ f.type = "disconnect"
    /\ Leave(s)
    /\ UNCHANGED <<pageVars, down, active, expected, closed, replies>>

Awaited(s, f) == f.id = active[s] /\ f.batch = expected[s] /\ ack[s] = "pending"

OnAck(s, f) ==
    /\ f.type = "ack" /\ Awaited(s, f)
    /\ ack' = [ack EXCEPT ![s] = "done"]
    /\ Read(s)
    /\ UNCHANGED <<pageVars, down, handler, active, expected, task, closed, replies>>

\* A wrong, repeated or late acknowledgement closes the connection.
OnWrongAck(s, f) ==
    /\ f.type = "ack" /\ ~Awaited(s, f)
    /\ Leave(s)
    /\ Down(s, Frame("close", 0, 0))
    /\ UNCHANGED <<pageVars, active, expected, closed, replies>>

\* A cancel for the active query; the handler waits until it has ended.
OnCancel(s, f) ==
    /\ f.type = "cancel"
    /\ IF ActiveTask(s) /\ f.id = active[s]
       THEN CancelTasks({s}) /\ handler' = [handler EXCEPT ![s] = "cancelling"]
       ELSE UNCHANGED <<task, ack, handler>>
    /\ Read(s)
    /\ UNCHANGED <<pageVars, down, active, expected, closed, replies>>

\* A second query is refused; else the session is checked again.
OnExecute(s, f) ==
    /\ f.type = "execute"
    /\ IF ActiveTask(s)
       THEN /\ Down(s, Frame("error", f.id, 0)) /\ Sent(Frame("error", f.id, 0))
            /\ UNCHANGED <<handler, active>>
       ELSE /\ handler' = [handler EXCEPT ![s] = "authorizing"]
            /\ active' = [active EXCEPT ![s] = f.id]
            /\ UNCHANGED <<down, replies>>
    /\ Read(s)
    /\ UNCHANGED <<pageVars, expected, ack, task, closed>>

\* The session or the grant is gone.
Denied(s) ==
    /\ handler[s] = "authorizing"
    /\ Leave(s)
    /\ \E code \in {"close401", "close403"} : Down(s, Frame(code, 0, 0))
    /\ UNCHANGED <<pageVars, active, expected, closed, replies>>

Full == closed \/ Cardinality({s \in Sockets : ActiveTask(s)}) >= Slots

\* ConsoleRuntime.start: the query takes a slot, or there is none.
Authorized(s) ==
    /\ handler[s] = "authorizing"
    /\ IF Full
       THEN /\ Down(s, Frame("error", active[s], 0)) /\ Sent(Frame("error", active[s], 0))
            /\ handler' = [handler EXCEPT ![s] = "reading"]
            /\ UNCHANGED task
       ELSE /\ handler' = [handler EXCEPT ![s] = "starting"]
            /\ task' = [task EXCEPT ![s] = [at |-> "created", batch |-> 0, verdict |-> "error"]]
            /\ UNCHANGED <<down, replies>>
    /\ UNCHANGED <<pageVars, up, active, expected, ack, closed>>

\* The new task runs up to its first await before the handler reads on.
Started(s) ==
    /\ handler[s] = "starting"
    /\ handler' = [handler EXCEPT ![s] = "reading"]
    /\ task' = IF task[s].at = "created" THEN [task EXCEPT ![s].at = "running"] ELSE task
    /\ UNCHANGED <<pageVars, up, down, active, expected, ack, closed, replies>>

\* The awaited query has ended.
Continue(s) ==
    /\ handler[s] \in {"cancelling", "leaving"}
    /\ ~ActiveTask(s)
    /\ handler' = [handler EXCEPT ![s] = IF @ = "leaving" THEN "gone" ELSE "reading"]
    /\ UNCHANGED <<pageVars, up, down, active, expected, ack, task, closed, replies>>

\* Nothing was received for a minute: longer than any query runs.
IdleTimeout(s) ==
    /\ handler[s] = "reading" /\ up[s] = <<>>
    /\ ~ActiveTask(s)
    /\ Leave(s)
    /\ Down(s, Frame("close", 0, 0))
    /\ UNCHANGED <<pageVars, active, expected, closed, replies>>
-----------------------------------------------------------------------------
(* The query: ConsoleRuntime.execute in sql_console/runtime.py.            *)

\* flush(): a batch is sent, and its acknowledgement awaited.
TaskRows(s) ==
    /\ task[s].at = "running" /\ task[s].batch < MaxBatches
    /\ LET b == task[s].batch + 1 IN
       /\ task' = [task EXCEPT ![s].at = "acking", ![s].batch = b]
       /\ expected' = [expected EXCEPT ![s] = b]
       /\ Down(s, Frame("rows", active[s], b)) /\ Sent(Frame("rows", active[s], b))
    /\ ack' = [ack EXCEPT ![s] = "pending"]
    /\ UNCHANGED <<pageVars, up, handler, active, closed>>

\* Mutant: the next batch is read without waiting for the acknowledgement.
TaskAckedUnasked(s) ==
    /\ task[s].at = "acking"
    /\ task' = [task EXCEPT ![s].at = "running"]
    /\ UNCHANGED <<pageVars, up, down, handlerVars, closed, replies>>

TaskAcked(s) ==
    /\ task[s].at = "acking" /\ ack[s] = "done"
    /\ task' = [task EXCEPT ![s].at = "running"]
    /\ UNCHANGED <<pageVars, up, down, handlerVars, closed, replies>>

TaskCompletes(s) ==
    /\ task[s].at = "running"
    /\ task' = [task EXCEPT ![s].at = "settling", ![s].verdict = "complete"]
    /\ UNCHANGED <<pageVars, up, down, handlerVars, closed, replies>>

\* The query fails, or its deadline passes; the deadline also ends the wait for
\* an acknowledgement.
TaskFails(s) ==
    /\ task[s].at \in {"running", "acking"}
    /\ task' = [task EXCEPT ![s].at = "settling", ![s].verdict = "error"]
    /\ ack' = IF task[s].at = "acking" THEN [ack EXCEPT ![s] = "done"] ELSE ack
    /\ UNCHANGED <<pageVars, up, down, handler, active, expected, closed, replies>>

\* Rolled back and closed, or terminated after a second.
Settled(s) ==
    /\ task[s].at = "settling"
    /\ task' = [task EXCEPT ![s].at = "reporting"]
    /\ UNCHANGED <<pageVars, up, down, handlerVars, closed, replies>>

\* The verdict is sent, unless the handler has left or sending takes too long.
Report(s) ==
    /\ task[s].at = "reporting"
    /\ task' = [task EXCEPT ![s].at = "done"]
    /\ \/ /\ ~Left(s)
          /\ Down(s, Frame(task[s].verdict, active[s], 0))
          /\ Sent(Frame(task[s].verdict, active[s], 0))
       \/ UNCHANGED <<down, replies>>
    /\ UNCHANGED <<pageVars, up, handlerVars, closed>>

\* close(): the server shuts down.
Shutdown ==
    /\ ~closed
    /\ closed' = TRUE
    /\ CancelTasks(Sockets)
    /\ UNCHANGED <<pageVars, up, down, handler, active, expected, replies>>
-----------------------------------------------------------------------------
CheckAnswers == CheckFails \/ CheckIgnored \/ RunOnOpen \/ Connect
Receive == \E f \in {Head(down[s]) : s \in {x \in Sockets : down[x] # <<>>}} :
              Arrives(f) /\ (OnOther(f) \/ OnRows(f) \/ OnVerdict(f) \/ OnClose(f))
Page ==
    \/ Execute \/ CheckAnswers \/ Cancel \/ TimerFires \/ Remount \/ Receive \/ Drop
    \/ \E s \in Sockets : Opened(s) \/ Refused(s)
Handle(s) ==
    \/ \E f \in {Head(up[x]) : x \in {y \in Sockets : up[y] # <<>>}} :
          /\ Reads(s, f)
          /\ \/ OnDisconnect(s, f) \/ OnAck(s, f) \/ OnWrongAck(s, f)
             \/ OnCancel(s, f) \/ OnExecute(s, f)
    \/ Denied(s) \/ Authorized(s) \/ Started(s) \/ Continue(s) \/ IdleTimeout(s)
Query(s) == TaskRows(s) \/ TaskAcked(s) \/ TaskCompletes(s) \/ TaskFails(s) \/ Settled(s) \/ Report(s)

SqlNext == Page \/ Shutdown \/ \E s \in Sockets : Handle(s) \/ Query(s)
SqlSpec == SqlInit /\ [][SqlNext]_sqlVars

\* Fairness: HTTP requests are answered and browser timers fire. The server and
\* the network need not answer at all.
FairSqlSpec == SqlSpec /\ WF_sqlVars(CheckAnswers) /\ WF_sqlVars(TimerFires)
-----------------------------------------------------------------------------
\* A page that shows a query as completed shows every batch the server sent for
\* it, whatever was cancelled, dropped or timed out on the way.
CompletedShowsAll == ui = "Completed" => shown = Len(replies[requestId]) - 1

\* No query runs on, and holds its slot, once its connection is gone.
NoOrphan == \A s \in Sockets : handler[s] = "gone" => ~ActiveTask(s)

\* The page never stays busy: with nothing but its timers and the answers to its
\* session checks it leaves "Running" and "Cancelling".
BusyEnds == Busy ~> ~Busy
=============================================================================
