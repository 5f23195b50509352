----------------------------- MODULE Assistant -----------------------------
(***************************************************************************)
(* One session of the assistant: its chat requests, streamed one after the *)
(* other or from several tabs at once; the agent they run, whose state is  *)
(* kept per session in the memory of the process; the tools, those that    *)
(* write only after the user has confirmed on a card; and the session's    *)
(* memory row.                                                             *)
(* Sources: app/assistant/service.py, router.py, agent/facade.py,          *)
(* agent/factory.py, agent/tools.py, memory/manager.py.                    *)
(***************************************************************************)
EXTENDS Naturals, FiniteSets

CONSTANTS
  MaxRequests, (* bound: chat requests of the session             *)
  Writes,      (* write calls: [action, target]                   *)
  Searches,    (* knowledge_base_search calls of one model step   *)
  StepLimit,   (* RECURSION_LIMIT, in model steps                 *)
  MaxCrossed,  (* bound: requests once some have overlapped       *)
  MaxRestarts, (* bound: restarts of the process                  *)
  None

ASSUME AssistantAssumption ==
  /\ MaxRequests \in Nat /\ None \notin 1..MaxRequests
  /\ StepLimit \in Nat \ {0} /\ MaxRestarts \in Nat /\ MaxCrossed \in Nat
  /\ \A w \in Writes : w.action \in {"ban_group", "unban_group", "delete_document",
                                     "disable_user", "enable_user"}
  /\ IsFiniteSet(Searches) /\ Writes \cap Searches = {}

VARIABLES
  thread,   \* the latest checkpoint of the session's thread in MemorySaver
  status,   \* database: of groups, documents, users
  pc,       \* where each request is
  answers,  \* the request whose card it answers, or None: a new message
  decision, \* ChatRequest.resume
  tool,     \* where each call of its agent's step is
  base,     \* the request whose model step its calls belong to
  decided,  \* calls the decision is for
  steps,    \* model steps its agent has taken
  searched, \* result_holder: searches completed
  card,     \* the confirmation event it has sent, or None
  executed, \* history: writes committed
  crossed,  \* history: requests have overlapped, or the process has restarted
  context,  \* assistant_session_contexts: is the row committed
  holder,   \* the request whose transaction has inserted or updated it, or None
  restarts

agentVars == <<tool, base, decided, steps, searched>>
contextVars == <<context, holder>>
vars == <<thread, status, pc, answers, decision, agentVars, card, executed, crossed,
          contextVars, restarts>>

Requests == 1..MaxRequests
Calls == Writes \cup Searches
Targets == {w.target : w \in Writes}
Cards == [action : {w.action : w \in Writes}, targets : SUBSET Targets]
Ended == {"done", "failed", "left"}
Running == {r \in Requests : pc[r] \notin Ended \cup {"idle"}}

TypeOK ==
  /\ thread \in [run : Requests \cup {None}, phase : {"clean", "calling", "broken"},
                 open : SUBSET Calls, asking : SUBSET Writes]
  /\ thread.asking \subseteq thread.open
  /\ status \in [Targets -> {"ACTIVE", "DISABLED", "DELETED"}]
  /\ pc \in [Requests -> {"idle", "context", "inserting", "updating", "loading", "model",
                          "tools", "detecting", "storing"} \cup Ended]
  /\ answers \in [Requests -> Requests \cup {None}]
  /\ decision \in [Requests -> {"none", "confirm", "cancel"}]
  /\ tool \in [Requests -> [Calls -> {"no", "called", "checked", "asking", "written", "done"}]]
  /\ base \in [Requests -> Requests \cup {None}]
  /\ decided \in [Requests -> SUBSET Writes]
  /\ steps \in [Requests -> 0..StepLimit]
  /\ searched \in [Requests -> Nat]
  /\ card \in [Requests -> Cards \cup {None}]
  /\ executed \subseteq [write : Writes, by : Requests, proposed : Requests]
  /\ crossed \in BOOLEAN /\ context \in BOOLEAN
  /\ holder \in Requests \cup {None}
  /\ restarts \in 0..MaxRestarts

NoThread == [run |-> None, phase |-> "clean", open |-> {}, asking |-> {}]
NoCalls == [c \in Calls |-> "no"]

Init ==
  /\ thread = NoThread
  /\ status = [t \in Targets |-> "ACTIVE"]
  /\ pc = [r \in Requests |-> "idle"]
  /\ answers = [r \in Requests |-> None]
  /\ decision = [r \in Requests |-> "none"]
  /\ tool = [r \in Requests |-> NoCalls]
  /\ base = [r \in Requests |-> None]
  /\ decided = [r \in Requests |-> {}]
  /\ steps = [r \in Requests |-> 0]
  /\ searched = [r \in Requests |-> 0]
  /\ card = [r \in Requests |-> None]
  /\ executed = {} /\ crossed = FALSE
  /\ context = FALSE /\ holder = None
  /\ restarts = 0

Goto(r, step) == pc' = [pc EXCEPT ![r] = step]

-----------------------------------------------------------------------------
(* Requests.                                                               *)

\* The next request is sent. Bounded: more of them if they come one after the other.
Send(r) ==
  /\ pc[r] = "idle" /\ \A q \in 1..(r - 1) : pc[q] # "idle"
  /\ Goto(r, "context")
  /\ crossed' = (crossed \/ Running # {})
  /\ crossed' => r <= MaxCrossed

\* The page sends a message. Nothing checks the session's status.
SendMessage(r) ==
  /\ Send(r)
  /\ UNCHANGED <<thread, status, answers, decision, agentVars, card, executed,
                 contextVars, restarts>>

\* Faulty variant: the card stays.
AnswerAgain(r, asked, choice) ==
  /\ Send(r)
  /\ card[asked] # None /\ pc[asked] \in Ended
  /\ answers' = [answers EXCEPT ![r] = asked]
  /\ decision' = [decision EXCEPT ![r] = choice]
  /\ UNCHANGED <<thread, status, agentVars, card, executed, contextVars, restarts>>

\* The page answers a card, which it removes.
Answer(r, asked, choice) ==
  /\ Send(r)
  /\ card[asked] # None /\ pc[asked] \in Ended /\ \A q \in Requests : answers[q] # asked
  /\ answers' = [answers EXCEPT ![r] = asked]
  /\ decision' = [decision EXCEPT ![r] = choice]
  /\ UNCHANGED <<thread, status, agentVars, card, executed, contextVars, restarts>>

\* get_or_create_context finds the row, which maintain_before_response may then
\* update, or not.
ContextFound(r) ==
  /\ pc[r] = "context" /\ context
  /\ Goto(r, "loading") \/ (answers[r] = None /\ Goto(r, "updating"))
  /\ UNCHANGED <<thread, status, answers, decision, agentVars, card, executed, crossed,
                 contextVars, restarts>>

ContextMissing(r) ==
  /\ pc[r] = "context" /\ ~context
  /\ Goto(r, "inserting")
  /\ UNCHANGED <<thread, status, answers, decision, agentVars, card, executed, crossed,
                 contextVars, restarts>>

\* The INSERT or UPDATE waits for the transaction of another request that has
\* inserted or updated the row, which is the length of its whole stream. A row
\* inserted, or deleted, in the meantime makes it fail.
ContextFlush(r) ==
  /\ pc[r] \in {"inserting", "updating"}
  /\ holder = None
  /\ IF context = (pc[r] = "updating") THEN Goto(r, "loading") /\ holder' = r
     ELSE Goto(r, "failed") /\ UNCHANGED holder
  /\ UNCHANGED <<thread, status, answers, decision, agentVars, card, executed, crossed,
                 context, restarts>>

\* The request's transaction ends, and with it the lock on the row.
EndOf(r, committed) ==
  IF holder = r THEN holder' = None /\ context' = (context \/ committed)
  ELSE UNCHANGED <<holder, context>>

\* And what its agent kept: result_holder, the state of its run.
AgentGone(r) ==
  /\ tool' = [tool EXCEPT ![r] = NoCalls]
  /\ base' = [base EXCEPT ![r] = None]
  /\ decided' = [decided EXCEPT ![r] = {}]
  /\ steps' = [steps EXCEPT ![r] = 0]
  /\ searched' = [searched EXCEPT ![r] = 0]

End(r, how, committed) == Goto(r, how) /\ EndOf(r, committed) /\ AgentGone(r)

-----------------------------------------------------------------------------
(* The agent.                                                              *)

Called(calls) == [c \in Calls |-> IF c \in calls THEN "called" ELSE "no"]

\* A message goes to the thread. After a call without an answer the agent's
\* history is invalid and it raises, now and for every later message; the error
\* is swallowed.
AgentMessage(r) ==
  /\ pc[r] = "loading" /\ answers[r] = None
  /\ LET ok == thread.phase = "clean"
     IN  /\ thread' = [run |-> r, phase |-> IF ok THEN "clean" ELSE "broken",
                       open |-> {}, asking |-> {}]
         /\ Goto(r, IF ok THEN "model" ELSE "detecting")
  /\ UNCHANGED <<status, answers, decision, agentVars, card, executed, crossed,
                 contextVars, restarts>>

\* A decision goes to all calls that ask now; if none asks, to the first that will.
\* Calls without an answer run again; without any, nothing runs.
AgentResume(r) ==
  /\ pc[r] = "loading" /\ answers[r] # None
  /\ IF thread.phase = "calling"
     THEN /\ tool' = [tool EXCEPT ![r] = Called(thread.open)]
          /\ \E calls \in SUBSET (thread.open \cap Writes) :
               /\ calls = thread.asking \/ (thread.asking = {} /\ Cardinality(calls) <= 1)
               /\ decided' = [decided EXCEPT ![r] = calls]
          /\ base' = [base EXCEPT ![r] = thread.run]
          /\ Goto(r, "tools")
     ELSE Goto(r, "detecting") /\ UNCHANGED <<tool, base, decided>>
  /\ UNCHANGED <<thread, status, answers, decision, steps, searched, card, executed,
                 crossed, contextVars, restarts>>

\* Faulty variant: the model may go on for as long as it calls tools.
ModelCallsUnlimited(r, calls) ==
  /\ pc[r] = "model" /\ calls # {}
  /\ tool' = [tool EXCEPT ![r] = Called(calls)]
  /\ base' = [base EXCEPT ![r] = r]
  /\ decided' = [decided EXCEPT ![r] = {}]
  /\ thread' = [run |-> r, phase |-> "calling", open |-> calls, asking |-> {}]
  /\ Goto(r, "tools")
  /\ UNCHANGED <<status, answers, decision, steps, searched, card, executed, crossed,
                 contextVars, restarts>>

\* Faulty variant: a decision holds for what the model calls later, too.
ModelCallsInherit(r, calls) ==
  /\ pc[r] = "model" /\ calls # {} /\ steps[r] < StepLimit
  /\ steps' = [steps EXCEPT ![r] = @ + 1]
  /\ tool' = [tool EXCEPT ![r] = Called(calls)]
  /\ base' = [base EXCEPT ![r] = r]
  /\ thread' = [run |-> r, phase |-> "calling", open |-> calls, asking |-> {}]
  /\ Goto(r, "tools")
  /\ UNCHANGED <<status, answers, decision, decided, searched, card, executed, crossed,
                 contextVars, restarts>>

\* The model calls tools, several at once, within the limit of the graph. A
\* decision is for the interrupts it was mapped to, by their ids.
ModelCalls(r, calls) ==
  /\ pc[r] = "model" /\ calls # {} /\ steps[r] < StepLimit
  /\ steps' = [steps EXCEPT ![r] = @ + 1]
  /\ tool' = [tool EXCEPT ![r] = Called(calls)]
  /\ base' = [base EXCEPT ![r] = r]
  /\ decided' = [decided EXCEPT ![r] = {}]
  /\ thread' = [run |-> r, phase |-> "calling", open |-> calls, asking |-> {}]
  /\ Goto(r, "tools")
  /\ UNCHANGED <<status, answers, decision, searched, card, executed, crossed,
                 contextVars, restarts>>

\* The model answers, or it or the graph raises, which is swallowed.
ModelEnds(r) ==
  /\ pc[r] = "model"
  /\ Goto(r, "detecting")
  /\ UNCHANGED <<thread, status, answers, decision, agentVars, card, executed, crossed,
                 contextVars, restarts>>

\* All calls of the step are answered: a new checkpoint, and the model again.
StepDone(r) ==
  /\ pc[r] = "tools" /\ \A c \in Calls : tool[r][c] \in {"no", "done"}
  /\ thread' = [NoThread EXCEPT !.run = r]
  /\ tool' = [tool EXCEPT ![r] = NoCalls]
  /\ Goto(r, "model")
  /\ UNCHANGED <<status, answers, decision, base, decided, steps, searched, card,
                 executed, crossed, contextVars, restarts>>

\* Some ask: the graph is interrupted, the others are answered.
StepInterrupted(r) ==
  /\ pc[r] = "tools"
  /\ \A c \in Calls : tool[r][c] \in {"no", "done", "asking"}
  /\ \E c \in Calls : tool[r][c] = "asking"
  /\ tool' = [tool EXCEPT ![r] = NoCalls]
  /\ Goto(r, "detecting")
  /\ UNCHANGED <<thread, status, answers, decision, base, decided, steps, searched,
                 card, executed, crossed, contextVars, restarts>>

-----------------------------------------------------------------------------
(* Tools.                                                                  *)

Valid(w) ==
  CASE w.action = "ban_group" -> status[w.target] # "DELETED"
    [] w.action = "unban_group" -> status[w.target] = "DISABLED"
    [] w.action = "delete_document" -> status[w.target] # "DELETED"
    [] w.action = "disable_user" -> status[w.target] # "DISABLED"
    [] w.action = "enable_user" -> status[w.target] # "ACTIVE"

Effect(w) ==
  CASE w.action \in {"ban_group", "disable_user"} -> "DISABLED"
    [] w.action \in {"unban_group", "enable_user"} -> "ACTIVE"
    [] w.action = "delete_document" -> "DELETED"

ToolGoto(r, c, step) == tool' = [tool EXCEPT ![r][c] = step]

\* A call is answered, in the thread too unless another run has overtaken it.
ToolDone(r, c) ==
  /\ ToolGoto(r, c, "done")
  /\ thread' = IF thread.run = base[r]
               THEN [thread EXCEPT !.open = @ \ {c}, !.asking = @ \ {c}] ELSE thread

\* A write tool looks at its target: not there, or nothing to change.
WriteRefused(r, w) ==
  /\ pc[r] = "tools" /\ tool[r][w] = "called" /\ ~Valid(w)
  /\ ToolDone(r, w)
  /\ UNCHANGED <<status, pc, answers, decision, base, decided, steps, searched, card,
                 executed, crossed, contextVars, restarts>>

WriteChecked(r, w) ==
  /\ pc[r] = "tools" /\ tool[r][w] = "called" /\ Valid(w)
  /\ ToolGoto(r, w, "checked")
  /\ UNCHANGED <<thread, status, pc, answers, decision, base, decided, steps, searched,
                 card, executed, crossed, contextVars, restarts>>

\* interrupt(): no decision yet.
WriteAsks(r, w) ==
  /\ pc[r] = "tools" /\ tool[r][w] = "checked" /\ w \notin decided[r]
  /\ ToolGoto(r, w, "asking")
  /\ thread' = IF thread.run = base[r] /\ w \in thread.open
               THEN [thread EXCEPT !.asking = @ \cup {w}] ELSE thread
  /\ UNCHANGED <<status, pc, answers, decision, base, decided, steps, searched, card,
                 executed, crossed, contextVars, restarts>>

WriteCancelled(r, w) ==
  /\ pc[r] = "tools" /\ tool[r][w] = "checked" /\ w \in decided[r]
  /\ decision[r] = "cancel"
  /\ ToolDone(r, w)
  /\ UNCHANGED <<status, pc, answers, decision, base, decided, steps, searched, card,
                 executed, crossed, contextVars, restarts>>

\* Confirmed: the update by id and its audit row are committed, whatever becomes of
\* the request. Only delete looks again.
WriteCommit(r, w) ==
  /\ pc[r] = "tools" /\ tool[r][w] = "checked" /\ w \in decided[r]
  /\ decision[r] = "confirm"
  /\ w.action = "delete_document" => status[w.target] # "DELETED"
  /\ status' = [status EXCEPT ![w.target] = Effect(w)]
  /\ executed' = executed \cup {[write |-> w, by |-> r, proposed |-> base[r]]}
  /\ ToolGoto(r, w, "written")
  /\ UNCHANGED <<thread, pc, answers, decision, base, decided, steps, searched, card,
                 crossed, contextVars, restarts>>

WriteAnswered(r, w) ==
  /\ pc[r] = "tools" /\ tool[r][w] = "written"
  /\ ToolDone(r, w)
  /\ UNCHANGED <<status, pc, answers, decision, base, decided, steps, searched, card,
                 executed, crossed, contextVars, restarts>>

\* knowledge_base_search, unless the request has completed one: the calls of one model
\* step can all get here before the first of them has.
SearchBegins(r, c) ==
  /\ pc[r] = "tools" /\ tool[r][c] = "called" /\ searched[r] = 0
  /\ ToolGoto(r, c, "checked")
  /\ UNCHANGED <<thread, status, pc, answers, decision, base, decided, steps, searched,
                 card, executed, crossed, contextVars, restarts>>

SearchDone(r, c) ==
  /\ pc[r] = "tools" /\ tool[r][c] = "checked"
  /\ searched' = [searched EXCEPT ![r] = @ + 1]
  /\ ToolDone(r, c)
  /\ UNCHANGED <<status, pc, answers, decision, base, decided, steps, card, executed,
                 crossed, contextVars, restarts>>

\* DUPLICATE_TOOL_CALL or NO_GROUP.
SearchEmpty(r, c) ==
  /\ pc[r] = "tools" /\ tool[r][c] = "called"
  /\ ToolDone(r, c)
  /\ UNCHANGED <<status, pc, answers, decision, base, decided, steps, searched, card,
                 executed, crossed, contextVars, restarts>>

\* A tool raises, delete for a document that is deleted by now for one: the run is
\* over, with its calls unanswered, and the error is swallowed.
ToolRaises(r, c) ==
  /\ pc[r] = "tools" /\ tool[r][c] \in {"called", "checked"}
  /\ tool' = [tool EXCEPT ![r] = NoCalls]
  /\ Goto(r, "detecting")
  /\ UNCHANGED <<thread, status, answers, decision, base, decided, steps, searched,
                 card, executed, crossed, contextVars, restarts>>

-----------------------------------------------------------------------------
(* The end of a request.                                                   *)

\* Faulty variant: only the first of the interrupts is shown.
SendCardOfOne(r, first) ==
  /\ pc[r] = "detecting" /\ answers[r] = None
  /\ first \in thread.asking
  /\ card' = [card EXCEPT ![r] = [action |-> first.action, targets |-> {first.target}]]
  /\ End(r, "done", TRUE)
  /\ UNCHANGED <<thread, status, answers, decision, executed, crossed, restarts>>

\* A new message finds the thread waiting: one card with the action of the first
\* interrupt and the targets of all, and no reply is stored.
SendCard(r, first) ==
  /\ pc[r] = "detecting" /\ answers[r] = None
  /\ first \in thread.asking
  /\ card' = [card EXCEPT ![r] = [action |-> first.action,
                                  targets |-> {w.target : w \in thread.asking}]]
  /\ End(r, "done", TRUE)
  /\ UNCHANGED <<thread, status, answers, decision, executed, crossed, restarts>>

\* Otherwise the reply, empty after an error, is stored. A request that answers a
\* card does not look for interrupts.
StoreReply(r) ==
  /\ pc[r] = "detecting"
  /\ answers[r] # None \/ thread.asking = {}
  /\ End(r, "done", TRUE)
  /\ UNCHANGED <<thread, status, answers, decision, card, executed, crossed, restarts>>

\* An exception outside the agent.
RequestFails(r) ==
  /\ pc[r] \in {"context", "inserting", "updating", "loading", "detecting"}
  /\ End(r, "failed", FALSE)
  /\ UNCHANGED <<thread, status, answers, decision, card, executed, crossed, restarts>>

\* The page is closed, or the stream aborted: all that runs is cancelled.
ClientLeaves(r) ==
  /\ r \in Running
  /\ End(r, "left", FALSE)
  /\ UNCHANGED <<thread, status, answers, decision, card, executed, crossed, restarts>>

\* The process restarts; the threads were in its memory.
Restart ==
  /\ restarts < MaxRestarts
  /\ restarts' = restarts + 1
  /\ thread' = NoThread
  /\ pc' = [r \in Requests |-> IF r \in Running THEN "failed" ELSE pc[r]]
  /\ tool' = [r \in Requests |-> NoCalls] /\ base' = [r \in Requests |-> None]
  /\ decided' = [r \in Requests |-> {}] /\ steps' = [r \in Requests |-> 0]
  /\ searched' = [r \in Requests |-> 0]
  /\ holder' = None /\ crossed' = TRUE
  /\ UNCHANGED <<status, answers, decision, card, executed, context>>

-----------------------------------------------------------------------------
(* The session, and the administrators' pages.                             *)

\* delete_session: its memory row goes, after the transaction that has updated it;
\* one that is not committed is not seen.
DeleteSession ==
  /\ context /\ holder = None
  /\ context' = FALSE
  /\ UNCHANGED <<thread, status, pc, answers, decision, agentVars, card, executed,
                 crossed, holder, restarts>>

\* A group is dissolved or a document deleted on another page.
DeleteElsewhere(w) ==
  /\ w.action \in {"ban_group", "unban_group", "delete_document"}
  /\ status' = [status EXCEPT ![w.target] = "DELETED"]
  /\ UNCHANGED <<thread, pc, answers, decision, agentVars, card, executed, crossed,
                 contextVars, restarts>>

-----------------------------------------------------------------------------

Tool(r) ==
  \/ \E w \in Writes : \/ WriteRefused(r, w) \/ WriteChecked(r, w) \/ WriteAsks(r, w)
                      \/ WriteCancelled(r, w) \/ WriteCommit(r, w) \/ WriteAnswered(r, w)
  \/ \E c \in Searches : SearchBegins(r, c) \/ SearchDone(r, c) \/ SearchEmpty(r, c)
  \/ \E c \in Calls : ToolRaises(r, c)

\* What a request does once it has been sent. Its tools are those of its mode: the
\* administrators' or the search.
Progress(r) ==
  \/ ContextFound(r) \/ ContextMissing(r) \/ ContextFlush(r)
  \/ AgentMessage(r) \/ AgentResume(r)
  \/ \E calls \in (SUBSET Writes) \cup (SUBSET Searches) : ModelCalls(r, calls)
  \/ ModelEnds(r) \/ StepDone(r) \/ StepInterrupted(r) \/ Tool(r)
  \/ \E w \in Writes : SendCard(r, w)
  \/ StoreReply(r)

Next ==
  \/ \E r \in Requests :
       \/ SendMessage(r)
       \/ \E asked \in Requests, choice \in {"confirm", "cancel"} : Answer(r, asked, choice)
       \/ Progress(r) \/ RequestFails(r) \/ ClientLeaves(r)
  \/ Restart \/ DeleteSession
  \/ \E w \in Writes : DeleteElsewhere(w)

Spec == Init /\ [][Next]_vars

FairSpec == Spec /\ \A r \in Requests : WF_vars(Progress(r))

-----------------------------------------------------------------------------

\* No write is executed without the user's "confirm", and none by the request whose
\* model has called for it: a decision executes what was waiting when it came, not
\* what the model calls for afterwards.
WritesAreConfirmed ==
  \A e \in executed : decision[e.by] = "confirm" /\ e.proposed # e.by

\* As long as the requests of a session do not overlap and the process is not
\* restarted, a confirmation executes only what concerns a target of the card it
\* answers: cards left unanswered, streams cut off and later messages included.
AnswersItsCard ==
  \A e \in executed :
    crossed \/ e.write.target \in card[answers[e.by]].targets

\* Under the same condition a call is executed at most once, wherever the request
\* that executes it is cut off.
ExecutedOnce ==
  \A e, f \in executed :
    crossed \/ (e.write = f.write /\ e.proposed = f.proposed => e = f)

\* Every request ends: waiting for another one's transaction, and a model that
\* never stops calling tools, do not keep it forever.
RequestsEnd == \A r \in Requests : r \in Running ~> r \notin Running

\* The card names what it executes: "one card, the same action, the targets merged".
CardNamesActions ==
  \A e \in executed :
    crossed \/ e.write.action = card[answers[e.by]].action

=============================================================================
