--------------------------- MODULE AssistantProofs ---------------------------
(***************************************************************************)
(* Theorems about Assistant, for any number of requests, writes, searches  *)
(* and model steps.                                                        *)
(***************************************************************************)
EXTENDS Assistant, FiniteSetTheorems, TLAPS

\* A request that has not reached the agent has not left a checkpoint.
EarlyHaveNotRun ==
  \A r \in Requests :
    pc[r] \in {"idle", "context", "inserting", "updating", "loading"} => thread.run # r

\* A thread that waits for tools belongs to a request, and so do tools that run.
CallsHaveRuns ==
  /\ thread.phase = "calling" => thread.run \in Requests
  /\ \A r \in Requests : pc[r] = "tools" => base[r] \in Requests

\* A decision is never for what the deciding request's own model has called.
DecidedIsEarlier == \A r \in Requests : decided[r] # {} => base[r] # r

\* Writes are executed by requests that have been sent.
WritersWereSent == \A e \in executed : pc[e.by] # "idle"

\* The invariant that every theorem below rests on.
IInv ==
  /\ TypeOK
  /\ EarlyHaveNotRun /\ CallsHaveRuns
  /\ DecidedIsEarlier /\ WritersWereSent /\ WritesAreConfirmed

\* The types, by variable.
ToolSteps == {"no", "called", "checked", "asking", "written", "done"}
PcSteps == {"idle", "context", "inserting", "updating", "loading", "model",
            "tools", "detecting", "storing"} \cup Ended
Threads == [run : Requests \cup {None}, phase : {"clean", "calling", "broken"},
            open : SUBSET Calls, asking : SUBSET Writes]

\* What one call's progress does to the calls, and an answer to the thread.
LEMMA ToolTypes ==
  ASSUME TypeOK, NEW r \in Requests, NEW c \in Calls
  PROVE  /\ \A s \in ToolSteps : ToolGoto(r, c, s) => tool' \in [Requests -> [Calls -> ToolSteps]]
         /\ ToolDone(r, c) => /\ tool' \in [Requests -> [Calls -> ToolSteps]]
                              /\ thread' \in Threads /\ thread'.asking \subseteq thread'.open
                              /\ thread'.run = thread.run /\ thread'.phase = thread.phase
  <1>1. ASSUME NEW s \in ToolSteps, ToolGoto(r, c, s)
        PROVE  tool' \in [Requests -> [Calls -> ToolSteps]]
    <2>1. tool \in [Requests -> [Calls -> ToolSteps]]
      BY DEF TypeOK, ToolSteps
    <2>2. tool' = [tool EXCEPT ![r] = [tool[r] EXCEPT ![c] = s]]
      BY <1>1 DEF ToolGoto
    <2>3. [tool[r] EXCEPT ![c] = s] \in [Calls -> ToolSteps]
      BY <2>1
    <2> QED BY <2>1, <2>2, <2>3
  <1>2. ASSUME ToolDone(r, c)
        PROVE  /\ thread' \in Threads /\ thread'.asking \subseteq thread'.open
               /\ thread'.run = thread.run /\ thread'.phase = thread.phase
    <2>1. thread \in Threads /\ thread.asking \subseteq thread.open
      BY DEF TypeOK, Threads
    <2> DEFINE answered == [thread EXCEPT !.open = thread.open \ {c},
                                          !.asking = thread.asking \ {c}]
    <2>2. /\ answered \in Threads /\ answered.asking \subseteq answered.open
          /\ answered.run = thread.run /\ answered.phase = thread.phase
      BY <2>1 DEF Threads
    <2>3. thread' = answered \/ thread' = thread
      BY <1>2 DEF ToolDone
    <2> QED BY <2>1, <2>2, <2>3
  <1>3. "done" \in ToolSteps
    BY DEF ToolSteps
  <1> QED BY <1>1, <1>2, <1>3 DEF ToolDone

\* What the end of a request leaves.
LEMMA EndTypes ==
  ASSUME TypeOK, NEW r \in Requests, NEW how \in Ended, NEW committed \in BOOLEAN,
         End(r, how, committed)
  PROVE  /\ pc' \in [Requests -> PcSteps]
         /\ tool' \in [Requests -> [Calls -> ToolSteps]]
         /\ base' \in [Requests -> Requests \cup {None}]
         /\ decided' \in [Requests -> SUBSET Writes]
         /\ steps' \in [Requests -> 0..StepLimit]
         /\ searched' \in [Requests -> Nat]
         /\ context' \in BOOLEAN /\ holder' \in Requests \cup {None}
  <1> USE AssistantAssumption DEF End, EndOf, AgentGone, Goto, AssistantAssumption
  <1>1. pc' \in [Requests -> PcSteps]
    BY DEF TypeOK, PcSteps
  <1>2. tool' \in [Requests -> [Calls -> ToolSteps]]
    <2>1. NoCalls \in [Calls -> ToolSteps]
      BY DEF NoCalls, ToolSteps
    <2>2. tool \in [Requests -> [Calls -> ToolSteps]]
      BY DEF TypeOK, ToolSteps
    <2> QED BY <2>1, <2>2
  <1>3. base' \in [Requests -> Requests \cup {None}] /\ decided' \in [Requests -> SUBSET Writes]
    BY DEF TypeOK
  <1>4. steps' \in [Requests -> 0..StepLimit] /\ searched' \in [Requests -> Nat]
    BY DEF TypeOK
  <1>5. context' \in BOOLEAN /\ holder' \in Requests \cup {None}
    BY DEF TypeOK
  <1> QED BY <1>1, <1>2, <1>3, <1>4, <1>5

\* The initial state satisfies the invariant.
LEMMA InitIInv == Init => IInv
  <1> SUFFICES ASSUME Init PROVE IInv
    OBVIOUS
  <1> USE AssistantAssumption DEF Init, NoThread, NoCalls, AssistantAssumption
  <1>1. TypeOK
    <2>1. /\ NoCalls \in [Calls -> {"no", "called", "checked", "asking", "written", "done"}]
          /\ 0 \in 0..StepLimit /\ restarts \in 0..MaxRestarts
      OBVIOUS
    <2>2. /\ thread \in Threads /\ thread.asking \subseteq thread.open
          /\ pc \in [Requests -> PcSteps]
      BY DEF Threads, PcSteps
    <2>3. /\ tool \in [Requests -> [Calls -> {"no", "called", "checked", "asking", "written",
                                              "done"}]]
          /\ steps \in [Requests -> 0..StepLimit]
      BY <2>1
    <2> QED BY <2>1, <2>2, <2>3 DEF TypeOK, Threads, PcSteps
  <1>2. EarlyHaveNotRun /\ CallsHaveRuns
    BY DEF EarlyHaveNotRun, CallsHaveRuns, Requests
  <1>3. DecidedIsEarlier /\ WritersWereSent /\ WritesAreConfirmed
    BY DEF DecidedIsEarlier, WritersWereSent, WritesAreConfirmed
  <1> QED BY <1>1, <1>2, <1>3 DEF IInv

\* Every step preserves the types.
LEMMA TypeStep == IInv /\ [Next]_vars => TypeOK'
  <1> SUFFICES ASSUME IInv /\ [Next]_vars PROVE TypeOK'
    OBVIOUS
  <1> USE DEF vars, agentVars, contextVars
  <1>0. TypeOK
    BY DEF IInv
  <1>a. CallsHaveRuns
    BY DEF IInv
  <1>n. NoCalls \in [Calls -> ToolSteps]
    BY DEF NoCalls, ToolSteps
  <1>1. ASSUME NEW r \in Requests, SendMessage(r) PROVE TypeOK'
    BY <1>0, <1>1 DEF SendMessage, Send, Goto, TypeOK, PcSteps, Ended
  <1>2. ASSUME NEW r \in Requests, NEW asked \in Requests,
              NEW choice \in {"confirm", "cancel"}, Answer(r, asked, choice)
       PROVE TypeOK'
    BY <1>0, <1>2 DEF Answer, Send, Goto, TypeOK, PcSteps, Ended
  <1>3. ASSUME NEW r \in Requests, ContextFound(r) PROVE TypeOK'
    BY <1>0, <1>3 DEF ContextFound, Goto, TypeOK, PcSteps, Ended
  <1>4. ASSUME NEW r \in Requests, ContextMissing(r) PROVE TypeOK'
    BY <1>0, <1>4 DEF ContextMissing, Goto, TypeOK, PcSteps, Ended
  <1>5. ASSUME NEW r \in Requests, ContextFlush(r) PROVE TypeOK'
    BY <1>0, <1>5 DEF ContextFlush, Goto, TypeOK, PcSteps, Ended
  <1>6. ASSUME NEW r \in Requests, AgentMessage(r) PROVE TypeOK'
    <2>1. thread' \in Threads /\ thread'.asking \subseteq thread'.open
      <3>1. \E p \in {"clean", "broken"} :
              thread' = [run |-> r, phase |-> p, open |-> {}, asking |-> {}]
        BY <1>6 DEF AgentMessage
      <3> QED BY <3>1 DEF Threads
    <2>2. pc' \in [Requests -> PcSteps]
      BY <1>0, <1>6 DEF AgentMessage, Goto, TypeOK, PcSteps
    <2> QED BY <1>0, <1>6, <2>1, <2>2 DEF AgentMessage, Threads, TypeOK, PcSteps
  <1>7. ASSUME NEW r \in Requests, AgentResume(r) PROVE TypeOK'
    <2>1. pc' \in [Requests -> PcSteps]
      <3>1. Goto(r, "tools") \/ Goto(r, "detecting")
        BY <1>7 DEF AgentResume
      <3> QED BY <1>0, <3>1 DEF Goto, TypeOK, PcSteps
    <2>2. CASE thread.phase = "calling"
      <3>1. Called(thread.open) \in [Calls -> ToolSteps]
        BY DEF Called, ToolSteps
      <3>2. tool' \in [Requests -> [Calls -> ToolSteps]]
        BY <1>0, <1>7, <2>2, <3>1 DEF AgentResume, TypeOK, ToolSteps
      <3>3. decided' \in [Requests -> SUBSET Writes]
        <4>1. PICK calls \in SUBSET (thread.open \cap Writes) :
                decided' = [decided EXCEPT ![r] = calls]
          BY <1>7, <2>2 DEF AgentResume
        <4>2. calls \in SUBSET Writes
          BY <4>1
        <4> QED BY <1>0, <4>1, <4>2 DEF TypeOK
      <3>4. base' \in [Requests -> Requests \cup {None}]
        BY <1>0, <1>a, <1>7, <2>2 DEF AgentResume, CallsHaveRuns, TypeOK
      <3> QED BY <1>0, <1>7, <2>1, <3>2, <3>3, <3>4
              DEF AgentResume, TypeOK, ToolSteps, PcSteps
    <2>3. CASE thread.phase # "calling"
      BY <1>0, <1>7, <2>1, <2>3 DEF AgentResume, TypeOK, PcSteps
    <2> QED BY <2>2, <2>3
  <1>8. ASSUME NEW r \in Requests, NEW calls \in (SUBSET Writes) \cup (SUBSET Searches),
              ModelCalls(r, calls) PROVE TypeOK'
    <2>1. pc' \in [Requests -> PcSteps] /\ base' \in [Requests -> Requests \cup {None}]
      BY <1>0, <1>8 DEF ModelCalls, Goto, TypeOK, PcSteps
    <2>2. Called(calls) \in [Calls -> ToolSteps]
      BY DEF Called, ToolSteps
    <2>3. tool' \in [Requests -> [Calls -> ToolSteps]]
      BY <1>0, <1>8, <2>2 DEF ModelCalls, TypeOK, ToolSteps
    <2>4. decided' \in [Requests -> SUBSET Writes]
      BY <1>0, <1>8 DEF ModelCalls, TypeOK
    <2>5. steps' \in [Requests -> 0..StepLimit]
      <3>1. steps[r] \in Nat /\ StepLimit \in Nat /\ steps[r] < StepLimit
        BY <1>0, <1>8, AssistantAssumption DEF ModelCalls, TypeOK, AssistantAssumption
      <3>2. steps[r] + 1 \in 0..StepLimit
        BY <3>1
      <3> QED BY <1>0, <1>8, <3>2 DEF ModelCalls, TypeOK
    <2>6. thread' \in Threads /\ thread'.asking \subseteq thread'.open
      <3>1. calls \in SUBSET Calls
        BY DEF Calls
      <3>2. thread' = [run |-> r, phase |-> "calling", open |-> calls, asking |-> {}]
        BY <1>8 DEF ModelCalls
      <3> QED BY <3>1, <3>2 DEF Threads
    <2> QED BY <1>0, <1>8, <2>1, <2>3, <2>4, <2>5, <2>6
            DEF ModelCalls, TypeOK, Threads, ToolSteps, PcSteps
  <1>9. ASSUME NEW r \in Requests, ModelEnds(r) PROVE TypeOK'
    BY <1>0, <1>9 DEF ModelEnds, Goto, TypeOK, PcSteps, Ended
  <1>10. ASSUME NEW r \in Requests, StepDone(r) PROVE TypeOK'
    <2>1. thread' \in Threads /\ thread'.asking \subseteq thread'.open
      <3>1. thread' = [run |-> r, phase |-> "clean", open |-> {}, asking |-> {}]
        BY <1>10 DEF StepDone, NoThread
      <3> QED BY <3>1 DEF Threads
    <2>2. pc' \in [Requests -> PcSteps]
      BY <1>0, <1>10 DEF StepDone, Goto, TypeOK, PcSteps
    <2>3. tool' \in [Requests -> [Calls -> ToolSteps]]
      BY <1>0, <1>10, <1>n DEF StepDone, TypeOK, ToolSteps
    <2> QED BY <1>0, <1>10, <2>1, <2>2, <2>3 DEF StepDone, TypeOK, Threads, ToolSteps, PcSteps
  <1>11. ASSUME NEW r \in Requests, StepInterrupted(r) PROVE TypeOK'
    <2>1. pc' \in [Requests -> PcSteps]
      BY <1>0, <1>11 DEF StepInterrupted, Goto, TypeOK, PcSteps
    <2>2. tool' \in [Requests -> [Calls -> ToolSteps]]
      BY <1>0, <1>11, <1>n DEF StepInterrupted, TypeOK, ToolSteps
    <2> QED BY <1>0, <1>11, <2>1, <2>2 DEF StepInterrupted, TypeOK, ToolSteps, PcSteps
  <1>12. ASSUME NEW r \in Requests, NEW w \in Writes, WriteRefused(r, w) PROVE TypeOK'
    <2>1. w \in Calls /\ ToolDone(r, w)
      BY <1>12 DEF WriteRefused, Calls
    <2>2. /\ tool' \in [Requests -> [Calls -> ToolSteps]]
          /\ thread' \in Threads /\ thread'.asking \subseteq thread'.open
      BY <1>0, <2>1, ToolTypes
    <2> QED BY <1>0, <1>12, <2>2 DEF WriteRefused, Threads, ToolSteps, TypeOK
  <1>13. ASSUME NEW r \in Requests, NEW w \in Writes, WriteChecked(r, w) PROVE TypeOK'
    <2>1. w \in Calls /\ "checked" \in ToolSteps /\ ToolGoto(r, w, "checked")
      BY <1>13 DEF WriteChecked, Calls, ToolSteps
    <2>2. tool' \in [Requests -> [Calls -> ToolSteps]]
      BY <1>0, <2>1, ToolTypes
    <2> QED BY <1>0, <1>13, <2>2 DEF WriteChecked, ToolSteps, TypeOK
  <1>14. ASSUME NEW r \in Requests, NEW w \in Writes, WriteAsks(r, w) PROVE TypeOK'
    <2>1. w \in Calls /\ "asking" \in ToolSteps /\ ToolGoto(r, w, "asking")
      BY <1>14 DEF WriteAsks, Calls, ToolSteps
    <2>2. tool' \in [Requests -> [Calls -> ToolSteps]]
      BY <1>0, <2>1, ToolTypes
    <2>3. thread' \in Threads /\ thread'.asking \subseteq thread'.open
      <3> DEFINE asks == [thread EXCEPT !.asking = thread.asking \cup {w}]
      <3>1. thread' = thread \/ (w \in thread.open /\ thread' = asks)
        BY <1>14 DEF WriteAsks
      <3>2. thread \in Threads /\ thread.asking \subseteq thread.open
        BY <1>0 DEF TypeOK, Threads
      <3>3. asks \in Threads /\ asks.asking = thread.asking \cup {w}
            /\ asks.open = thread.open
        BY <3>2 DEF Threads
      <3> QED BY <3>1, <3>2, <3>3
    <2> QED BY <1>0, <1>14, <2>2, <2>3 DEF WriteAsks, Threads, ToolSteps, TypeOK
  <1>15. ASSUME NEW r \in Requests, NEW w \in Writes, WriteCancelled(r, w)
       PROVE TypeOK'
    <2>1. w \in Calls /\ ToolDone(r, w)
      BY <1>15 DEF WriteCancelled, Calls
    <2>2. /\ tool' \in [Requests -> [Calls -> ToolSteps]]
          /\ thread' \in Threads /\ thread'.asking \subseteq thread'.open
      BY <1>0, <2>1, ToolTypes
    <2> QED BY <1>0, <1>15, <2>2 DEF WriteCancelled, Threads, ToolSteps, TypeOK
  <1>16. ASSUME NEW r \in Requests, NEW w \in Writes, WriteCommit(r, w) PROVE TypeOK'
    <2>1. w \in Calls /\ "written" \in ToolSteps /\ ToolGoto(r, w, "written")
      BY <1>16 DEF WriteCommit, Calls, ToolSteps
    <2>2. tool' \in [Requests -> [Calls -> ToolSteps]]
      BY <1>0, <2>1, ToolTypes
    <2>3. [write |-> w, by |-> r, proposed |-> base[r]]
            \in [write : Writes, by : Requests, proposed : Requests]
      BY <1>a, <1>16 DEF WriteCommit, CallsHaveRuns
    <2>4. executed' \subseteq [write : Writes, by : Requests, proposed : Requests]
      BY <1>0, <1>16, <2>3 DEF WriteCommit, TypeOK
    <2>5. status' \in [Targets -> {"ACTIVE", "DISABLED", "DELETED"}]
      <3>1. w.target \in Targets
        BY DEF Targets
      <3>2. Effect(w) \in {"ACTIVE", "DISABLED", "DELETED"}
        <4>1. w.action \in {"ban_group", "unban_group", "delete_document",
                            "disable_user", "enable_user"}
          BY AssistantAssumption DEF AssistantAssumption
        <4> QED BY <4>1 DEF Effect
      <3> QED BY <1>0, <1>16, <3>1, <3>2 DEF WriteCommit, TypeOK
    <2> QED BY <1>0, <1>16, <2>2, <2>4, <2>5 DEF WriteCommit, ToolSteps, TypeOK
  <1>17. ASSUME NEW r \in Requests, NEW w \in Writes, WriteAnswered(r, w)
       PROVE TypeOK'
    <2>1. w \in Calls /\ ToolDone(r, w)
      BY <1>17 DEF WriteAnswered, Calls
    <2>2. /\ tool' \in [Requests -> [Calls -> ToolSteps]]
          /\ thread' \in Threads /\ thread'.asking \subseteq thread'.open
      BY <1>0, <2>1, ToolTypes
    <2> QED BY <1>0, <1>17, <2>2 DEF WriteAnswered, Threads, ToolSteps, TypeOK
  <1>18. ASSUME NEW r \in Requests, NEW c \in Searches, SearchBegins(r, c)
       PROVE TypeOK'
    <2>1. c \in Calls /\ "checked" \in ToolSteps /\ ToolGoto(r, c, "checked")
      BY <1>18 DEF SearchBegins, Calls, ToolSteps
    <2>2. tool' \in [Requests -> [Calls -> ToolSteps]]
      BY <1>0, <2>1, ToolTypes
    <2> QED BY <1>0, <1>18, <2>2 DEF SearchBegins, ToolSteps, TypeOK
  <1>19. ASSUME NEW r \in Requests, NEW c \in Searches, SearchDone(r, c) PROVE TypeOK'
    <2>1. c \in Calls /\ ToolDone(r, c)
      BY <1>19 DEF SearchDone, Calls
    <2>2. /\ tool' \in [Requests -> [Calls -> ToolSteps]]
          /\ thread' \in Threads /\ thread'.asking \subseteq thread'.open
      BY <1>0, <2>1, ToolTypes
    <2>3. searched' \in [Requests -> Nat]
      BY <1>0, <1>19 DEF SearchDone, TypeOK
    <2> QED BY <1>0, <1>19, <2>2, <2>3 DEF SearchDone, Threads, ToolSteps, TypeOK
  <1>20. ASSUME NEW r \in Requests, NEW c \in Searches, SearchEmpty(r, c)
       PROVE TypeOK'
    <2>1. c \in Calls /\ ToolDone(r, c)
      BY <1>20 DEF SearchEmpty, Calls
    <2>2. /\ tool' \in [Requests -> [Calls -> ToolSteps]]
          /\ thread' \in Threads /\ thread'.asking \subseteq thread'.open
      BY <1>0, <2>1, ToolTypes
    <2>3. searched' \in [Requests -> Nat]
      BY <1>0, <1>20 DEF SearchEmpty, TypeOK
    <2> QED BY <1>0, <1>20, <2>2, <2>3 DEF SearchEmpty, Threads, ToolSteps, TypeOK
  <1>21. ASSUME NEW r \in Requests, NEW c \in Calls, ToolRaises(r, c) PROVE TypeOK'
    <2>1. pc' \in [Requests -> PcSteps]
      BY <1>0, <1>21 DEF ToolRaises, Goto, TypeOK, PcSteps
    <2>2. tool' \in [Requests -> [Calls -> ToolSteps]]
      BY <1>0, <1>21, <1>n DEF ToolRaises, TypeOK, ToolSteps
    <2> QED BY <1>0, <1>21, <2>1, <2>2 DEF ToolRaises, TypeOK, ToolSteps, PcSteps
  <1>22. ASSUME NEW r \in Requests, NEW w \in Writes, SendCard(r, w) PROVE TypeOK'
    <2>1. End(r, "done", TRUE) /\ "done" \in Ended
      BY <1>22 DEF SendCard, Ended
    <2>2. /\ pc' \in [Requests -> PcSteps]
          /\ tool' \in [Requests -> [Calls -> ToolSteps]]
          /\ base' \in [Requests -> Requests \cup {None}]
          /\ decided' \in [Requests -> SUBSET Writes]
          /\ steps' \in [Requests -> 0..StepLimit]
          /\ searched' \in [Requests -> Nat]
          /\ context' \in BOOLEAN /\ holder' \in Requests \cup {None}
      BY <1>0, <2>1, EndTypes
    <2>3. [action |-> w.action, targets |-> {v.target : v \in thread.asking}] \in Cards
      <3>1. thread.asking \subseteq Writes
        BY <1>0 DEF TypeOK
      <3> QED BY <3>1 DEF Cards, Targets
    <2>4. card' \in [Requests -> Cards \cup {None}]
      BY <1>0, <1>22, <2>3 DEF SendCard, TypeOK
    <2> QED BY <1>0, <1>22, <2>2, <2>4 DEF SendCard, TypeOK, ToolSteps, PcSteps
  <1>23. ASSUME NEW r \in Requests, StoreReply(r) PROVE TypeOK'
    <2>1. End(r, "done", TRUE) /\ "done" \in Ended
      BY <1>23 DEF StoreReply, Ended
    <2>2. /\ pc' \in [Requests -> PcSteps]
          /\ tool' \in [Requests -> [Calls -> ToolSteps]]
          /\ base' \in [Requests -> Requests \cup {None}]
          /\ decided' \in [Requests -> SUBSET Writes]
          /\ steps' \in [Requests -> 0..StepLimit]
          /\ searched' \in [Requests -> Nat]
          /\ context' \in BOOLEAN /\ holder' \in Requests \cup {None}
      BY <1>0, <2>1, EndTypes
    <2> QED BY <1>0, <1>23, <2>2 DEF StoreReply, TypeOK, ToolSteps, PcSteps
  <1>24. ASSUME NEW r \in Requests, RequestFails(r) PROVE TypeOK'
    <2>1. End(r, "failed", FALSE) /\ "failed" \in Ended
      BY <1>24 DEF RequestFails, Ended
    <2>2. /\ pc' \in [Requests -> PcSteps]
          /\ tool' \in [Requests -> [Calls -> ToolSteps]]
          /\ base' \in [Requests -> Requests \cup {None}]
          /\ decided' \in [Requests -> SUBSET Writes]
          /\ steps' \in [Requests -> 0..StepLimit]
          /\ searched' \in [Requests -> Nat]
          /\ context' \in BOOLEAN /\ holder' \in Requests \cup {None}
      BY <1>0, <2>1, EndTypes
    <2> QED BY <1>0, <1>24, <2>2 DEF RequestFails, TypeOK, ToolSteps, PcSteps
  <1>25. ASSUME NEW r \in Requests, ClientLeaves(r) PROVE TypeOK'
    <2>1. End(r, "left", FALSE) /\ "left" \in Ended
      BY <1>25 DEF ClientLeaves, Ended
    <2>2. /\ pc' \in [Requests -> PcSteps]
          /\ tool' \in [Requests -> [Calls -> ToolSteps]]
          /\ base' \in [Requests -> Requests \cup {None}]
          /\ decided' \in [Requests -> SUBSET Writes]
          /\ steps' \in [Requests -> 0..StepLimit]
          /\ searched' \in [Requests -> Nat]
          /\ context' \in BOOLEAN /\ holder' \in Requests \cup {None}
      BY <1>0, <2>1, EndTypes
    <2> QED BY <1>0, <1>25, <2>2 DEF ClientLeaves, TypeOK, ToolSteps, PcSteps
  <1>26. CASE Restart
    <2>1. thread' \in Threads /\ thread'.asking \subseteq thread'.open
      BY <1>26 DEF Restart, NoThread, Threads
    <2>2. pc' \in [Requests -> PcSteps]
      BY <1>0, <1>26 DEF Restart, TypeOK, PcSteps, Ended
    <2>3. tool' \in [Requests -> [Calls -> ToolSteps]]
      BY <1>26, <1>n DEF Restart
    <2>4. steps' \in [Requests -> 0..StepLimit] /\ restarts' \in 0..MaxRestarts
      BY <1>0, <1>26, AssistantAssumption DEF Restart, TypeOK, AssistantAssumption
    <2> QED BY <1>0, <1>26, <2>1, <2>2, <2>3, <2>4
            DEF Restart, TypeOK, Threads, ToolSteps, PcSteps
  <1>27. CASE DeleteSession
    BY <1>0, <1>27 DEF DeleteSession, TypeOK
  <1>28. ASSUME NEW w \in Writes, DeleteElsewhere(w) PROVE TypeOK'
    <2>1. w.target \in Targets
      BY DEF Targets
    <2> QED BY <1>0, <1>28, <2>1 DEF DeleteElsewhere, TypeOK
  <1>29. CASE UNCHANGED vars
    BY <1>0, <1>29 DEF TypeOK
  <1> QED BY <1>1, <1>2, <1>3, <1>4, <1>5, <1>6, <1>7, <1>8, <1>9, <1>10, <1>11, <1>12,
    <1>13, <1>14, <1>15, <1>16, <1>17, <1>18, <1>19, <1>20, <1>21, <1>22, <1>23, <1>24,
    <1>25, <1>26, <1>27, <1>28, <1>29 DEF Next, Progress, Tool

\* A checkpoint is left only by a request that has reached the agent.
LEMMA EarlyStep == IInv /\ [Next]_vars => EarlyHaveNotRun'
  <1> SUFFICES ASSUME IInv /\ [Next]_vars PROVE EarlyHaveNotRun'
    OBVIOUS
  <1> USE DEF vars, agentVars, contextVars, TypeOK, EarlyHaveNotRun, Ended
  <1>0. TypeOK /\ EarlyHaveNotRun
    BY DEF IInv
  <1>1. ASSUME NEW r \in Requests, SendMessage(r) PROVE EarlyHaveNotRun'
    BY <1>0, <1>1 DEF SendMessage, Send, Goto
  <1>2. ASSUME NEW r \in Requests, NEW asked \in Requests,
              NEW choice \in {"confirm", "cancel"}, Answer(r, asked, choice)
       PROVE EarlyHaveNotRun'
    BY <1>0, <1>2 DEF Answer, Send, Goto
  <1>3. ASSUME NEW r \in Requests, ContextFound(r) PROVE EarlyHaveNotRun'
    BY <1>0, <1>3 DEF ContextFound, Goto
  <1>4. ASSUME NEW r \in Requests, ContextMissing(r) PROVE EarlyHaveNotRun'
    BY <1>0, <1>4 DEF ContextMissing, Goto
  <1>5. ASSUME NEW r \in Requests, ContextFlush(r) PROVE EarlyHaveNotRun'
    BY <1>0, <1>5 DEF ContextFlush, Goto
  <1>6. ASSUME NEW r \in Requests, AgentMessage(r) PROVE EarlyHaveNotRun'
    BY <1>0, <1>6 DEF AgentMessage, Goto
  <1>7. ASSUME NEW r \in Requests, AgentResume(r) PROVE EarlyHaveNotRun'
    BY <1>0, <1>7 DEF AgentResume, Goto
  <1>8. ASSUME NEW r \in Requests, NEW calls \in (SUBSET Writes) \cup (SUBSET Searches),
              ModelCalls(r, calls) PROVE EarlyHaveNotRun'
    BY <1>0, <1>8 DEF ModelCalls, Goto
  <1>9. ASSUME NEW r \in Requests, ModelEnds(r) PROVE EarlyHaveNotRun'
    BY <1>0, <1>9 DEF ModelEnds, Goto
  <1>10. ASSUME NEW r \in Requests, StepDone(r) PROVE EarlyHaveNotRun'
    BY <1>0, <1>10 DEF StepDone, NoThread, Goto
  <1>11. ASSUME NEW r \in Requests, StepInterrupted(r) PROVE EarlyHaveNotRun'
    BY <1>0, <1>11 DEF StepInterrupted, Goto
  <1>12. ASSUME NEW r \in Requests, NEW w \in Writes, WriteRefused(r, w)
       PROVE EarlyHaveNotRun'
    <2>1. thread'.run = thread.run /\ thread'.phase = thread.phase
      BY <1>0, <1>12, ToolTypes DEF WriteRefused, Calls
    <2> QED BY <1>0, <1>12, <2>1 DEF WriteRefused
  <1>13. ASSUME NEW r \in Requests, NEW w \in Writes, WriteChecked(r, w)
       PROVE EarlyHaveNotRun'
    BY <1>0, <1>13 DEF WriteChecked
  <1>14. ASSUME NEW r \in Requests, NEW w \in Writes, WriteAsks(r, w)
       PROVE EarlyHaveNotRun'
    <2>1. thread'.run = thread.run /\ thread'.phase = thread.phase
      BY <1>0, <1>14 DEF WriteAsks, TypeOK
    <2> QED BY <1>0, <1>14, <2>1 DEF WriteAsks
  <1>15. ASSUME NEW r \in Requests, NEW w \in Writes, WriteCancelled(r, w)
       PROVE EarlyHaveNotRun'
    <2>1. thread'.run = thread.run /\ thread'.phase = thread.phase
      BY <1>0, <1>15, ToolTypes DEF WriteCancelled, Calls
    <2> QED BY <1>0, <1>15, <2>1 DEF WriteCancelled
  <1>16. ASSUME NEW r \in Requests, NEW w \in Writes, WriteCommit(r, w)
       PROVE EarlyHaveNotRun'
    BY <1>0, <1>16 DEF WriteCommit
  <1>17. ASSUME NEW r \in Requests, NEW w \in Writes, WriteAnswered(r, w)
       PROVE EarlyHaveNotRun'
    <2>1. thread'.run = thread.run /\ thread'.phase = thread.phase
      BY <1>0, <1>17, ToolTypes DEF WriteAnswered, Calls
    <2> QED BY <1>0, <1>17, <2>1 DEF WriteAnswered
  <1>18. ASSUME NEW r \in Requests, NEW c \in Searches, SearchBegins(r, c)
       PROVE EarlyHaveNotRun'
    BY <1>0, <1>18 DEF SearchBegins
  <1>19. ASSUME NEW r \in Requests, NEW c \in Searches, SearchDone(r, c)
       PROVE EarlyHaveNotRun'
    <2>1. thread'.run = thread.run /\ thread'.phase = thread.phase
      BY <1>0, <1>19, ToolTypes DEF SearchDone, Calls
    <2> QED BY <1>0, <1>19, <2>1 DEF SearchDone
  <1>20. ASSUME NEW r \in Requests, NEW c \in Searches, SearchEmpty(r, c)
       PROVE EarlyHaveNotRun'
    <2>1. thread'.run = thread.run /\ thread'.phase = thread.phase
      BY <1>0, <1>20, ToolTypes DEF SearchEmpty, Calls
    <2> QED BY <1>0, <1>20, <2>1 DEF SearchEmpty
  <1>21. ASSUME NEW r \in Requests, NEW c \in Calls, ToolRaises(r, c)
       PROVE EarlyHaveNotRun'
    BY <1>0, <1>21 DEF ToolRaises, Goto
  <1>22. ASSUME NEW r \in Requests, NEW w \in Writes, SendCard(r, w)
       PROVE EarlyHaveNotRun'
    BY <1>0, <1>22 DEF SendCard, End, EndOf, AgentGone, Goto
  <1>23. ASSUME NEW r \in Requests, StoreReply(r) PROVE EarlyHaveNotRun'
    BY <1>0, <1>23 DEF StoreReply, End, EndOf, AgentGone, Goto
  <1>24. ASSUME NEW r \in Requests, RequestFails(r) PROVE EarlyHaveNotRun'
    BY <1>0, <1>24 DEF RequestFails, End, EndOf, AgentGone, Goto
  <1>25. ASSUME NEW r \in Requests, ClientLeaves(r) PROVE EarlyHaveNotRun'
    BY <1>0, <1>25 DEF ClientLeaves, End, EndOf, AgentGone, Goto
  <1>26. CASE Restart
    BY <1>0, <1>26, AssistantAssumption
       DEF Restart, NoThread, Running, AssistantAssumption, Requests
  <1>27. CASE DeleteSession
    BY <1>0, <1>27 DEF DeleteSession
  <1>28. ASSUME NEW w \in Writes, DeleteElsewhere(w) PROVE EarlyHaveNotRun'
    BY <1>0, <1>28 DEF DeleteElsewhere
  <1>29. CASE UNCHANGED vars
    BY <1>0, <1>29
  <1> QED BY <1>1, <1>2, <1>3, <1>4, <1>5, <1>6, <1>7, <1>8, <1>9, <1>10, <1>11, <1>12,
    <1>13, <1>14, <1>15, <1>16, <1>17, <1>18, <1>19, <1>20, <1>21, <1>22, <1>23, <1>24,
    <1>25, <1>26, <1>27, <1>28, <1>29 DEF Next, Progress, Tool

\* Calls keep belonging to a request.
LEMMA RunsStep == IInv /\ [Next]_vars => CallsHaveRuns'
  <1> SUFFICES ASSUME IInv /\ [Next]_vars PROVE CallsHaveRuns'
    OBVIOUS
  <1> USE DEF vars, agentVars, contextVars, TypeOK, CallsHaveRuns, Ended
  <1>0. TypeOK /\ CallsHaveRuns
    BY DEF IInv
  <1>1. ASSUME NEW r \in Requests, SendMessage(r) PROVE CallsHaveRuns'
    BY <1>0, <1>1 DEF SendMessage, Send, Goto
  <1>2. ASSUME NEW r \in Requests, NEW asked \in Requests,
              NEW choice \in {"confirm", "cancel"}, Answer(r, asked, choice)
       PROVE CallsHaveRuns'
    BY <1>0, <1>2 DEF Answer, Send, Goto
  <1>3. ASSUME NEW r \in Requests, ContextFound(r) PROVE CallsHaveRuns'
    BY <1>0, <1>3 DEF ContextFound, Goto
  <1>4. ASSUME NEW r \in Requests, ContextMissing(r) PROVE CallsHaveRuns'
    BY <1>0, <1>4 DEF ContextMissing, Goto
  <1>5. ASSUME NEW r \in Requests, ContextFlush(r) PROVE CallsHaveRuns'
    BY <1>0, <1>5 DEF ContextFlush, Goto
  <1>6. ASSUME NEW r \in Requests, AgentMessage(r) PROVE CallsHaveRuns'
    BY <1>0, <1>6 DEF AgentMessage, Goto
  <1>7. ASSUME NEW r \in Requests, AgentResume(r) PROVE CallsHaveRuns'
    BY <1>0, <1>7 DEF AgentResume, Goto
  <1>8. ASSUME NEW r \in Requests, NEW calls \in (SUBSET Writes) \cup (SUBSET Searches),
              ModelCalls(r, calls) PROVE CallsHaveRuns'
    BY <1>0, <1>8 DEF ModelCalls, Goto
  <1>9. ASSUME NEW r \in Requests, ModelEnds(r) PROVE CallsHaveRuns'
    BY <1>0, <1>9 DEF ModelEnds, Goto
  <1>10. ASSUME NEW r \in Requests, StepDone(r) PROVE CallsHaveRuns'
    BY <1>0, <1>10 DEF StepDone, NoThread, Goto
  <1>11. ASSUME NEW r \in Requests, StepInterrupted(r) PROVE CallsHaveRuns'
    BY <1>0, <1>11 DEF StepInterrupted, Goto
  <1>12. ASSUME NEW r \in Requests, NEW w \in Writes, WriteRefused(r, w)
       PROVE CallsHaveRuns'
    <2>1. thread'.run = thread.run /\ thread'.phase = thread.phase
      BY <1>0, <1>12, ToolTypes DEF WriteRefused, Calls
    <2> QED BY <1>0, <1>12, <2>1 DEF WriteRefused
  <1>13. ASSUME NEW r \in Requests, NEW w \in Writes, WriteChecked(r, w)
       PROVE CallsHaveRuns'
    BY <1>0, <1>13 DEF WriteChecked
  <1>14. ASSUME NEW r \in Requests, NEW w \in Writes, WriteAsks(r, w)
       PROVE CallsHaveRuns'
    <2>1. thread'.run = thread.run /\ thread'.phase = thread.phase
      BY <1>0, <1>14 DEF WriteAsks, TypeOK
    <2> QED BY <1>0, <1>14, <2>1 DEF WriteAsks
  <1>15. ASSUME NEW r \in Requests, NEW w \in Writes, WriteCancelled(r, w)
       PROVE CallsHaveRuns'
    <2>1. thread'.run = thread.run /\ thread'.phase = thread.phase
      BY <1>0, <1>15, ToolTypes DEF WriteCancelled, Calls
    <2> QED BY <1>0, <1>15, <2>1 DEF WriteCancelled
  <1>16. ASSUME NEW r \in Requests, NEW w \in Writes, WriteCommit(r, w)
       PROVE CallsHaveRuns'
    BY <1>0, <1>16 DEF WriteCommit
  <1>17. ASSUME NEW r \in Requests, NEW w \in Writes, WriteAnswered(r, w)
       PROVE CallsHaveRuns'
    <2>1. thread'.run = thread.run /\ thread'.phase = thread.phase
      BY <1>0, <1>17, ToolTypes DEF WriteAnswered, Calls
    <2> QED BY <1>0, <1>17, <2>1 DEF WriteAnswered
  <1>18. ASSUME NEW r \in Requests, NEW c \in Searches, SearchBegins(r, c)
       PROVE CallsHaveRuns'
    BY <1>0, <1>18 DEF SearchBegins
  <1>19. ASSUME NEW r \in Requests, NEW c \in Searches, SearchDone(r, c)
       PROVE CallsHaveRuns'
    <2>1. thread'.run = thread.run /\ thread'.phase = thread.phase
      BY <1>0, <1>19, ToolTypes DEF SearchDone, Calls
    <2> QED BY <1>0, <1>19, <2>1 DEF SearchDone
  <1>20. ASSUME NEW r \in Requests, NEW c \in Searches, SearchEmpty(r, c)
       PROVE CallsHaveRuns'
    <2>1. thread'.run = thread.run /\ thread'.phase = thread.phase
      BY <1>0, <1>20, ToolTypes DEF SearchEmpty, Calls
    <2> QED BY <1>0, <1>20, <2>1 DEF SearchEmpty
  <1>21. ASSUME NEW r \in Requests, NEW c \in Calls, ToolRaises(r, c)
       PROVE CallsHaveRuns'
    BY <1>0, <1>21 DEF ToolRaises, Goto
  <1>22. ASSUME NEW r \in Requests, NEW w \in Writes, SendCard(r, w)
       PROVE CallsHaveRuns'
    BY <1>0, <1>22 DEF SendCard, End, EndOf, AgentGone, Goto
  <1>23. ASSUME NEW r \in Requests, StoreReply(r) PROVE CallsHaveRuns'
    BY <1>0, <1>23 DEF StoreReply, End, EndOf, AgentGone, Goto
  <1>24. ASSUME NEW r \in Requests, RequestFails(r) PROVE CallsHaveRuns'
    BY <1>0, <1>24 DEF RequestFails, End, EndOf, AgentGone, Goto
  <1>25. ASSUME NEW r \in Requests, ClientLeaves(r) PROVE CallsHaveRuns'
    BY <1>0, <1>25 DEF ClientLeaves, End, EndOf, AgentGone, Goto
  <1>26. CASE Restart
    BY <1>0, <1>26 DEF Restart, NoThread, Running
  <1>27. CASE DeleteSession
    BY <1>0, <1>27 DEF DeleteSession
  <1>28. ASSUME NEW w \in Writes, DeleteElsewhere(w) PROVE CallsHaveRuns'
    BY <1>0, <1>28 DEF DeleteElsewhere
  <1>29. CASE UNCHANGED vars
    BY <1>0, <1>29
  <1> QED BY <1>1, <1>2, <1>3, <1>4, <1>5, <1>6, <1>7, <1>8, <1>9, <1>10, <1>11, <1>12,
    <1>13, <1>14, <1>15, <1>16, <1>17, <1>18, <1>19, <1>20, <1>21, <1>22, <1>23, <1>24,
    <1>25, <1>26, <1>27, <1>28, <1>29 DEF Next, Progress, Tool

\* A decision is mapped only to calls that were there before.
LEMMA DecidedStep == IInv /\ [Next]_vars => DecidedIsEarlier'
  <1> SUFFICES ASSUME IInv /\ [Next]_vars PROVE DecidedIsEarlier'
    OBVIOUS
  <1> USE DEF vars, agentVars, contextVars, TypeOK, EarlyHaveNotRun,
              DecidedIsEarlier
  <1>0. TypeOK /\ EarlyHaveNotRun /\ DecidedIsEarlier
    BY DEF IInv
  <1>1. ASSUME NEW r \in Requests, SendMessage(r) PROVE DecidedIsEarlier'
    BY <1>0, <1>1 DEF SendMessage, Send, Goto
  <1>2. ASSUME NEW r \in Requests, NEW asked \in Requests,
              NEW choice \in {"confirm", "cancel"}, Answer(r, asked, choice)
       PROVE DecidedIsEarlier'
    BY <1>0, <1>2 DEF Answer, Send, Goto
  <1>3. ASSUME NEW r \in Requests, ContextFound(r) PROVE DecidedIsEarlier'
    BY <1>0, <1>3 DEF ContextFound, Goto
  <1>4. ASSUME NEW r \in Requests, ContextMissing(r) PROVE DecidedIsEarlier'
    BY <1>0, <1>4 DEF ContextMissing, Goto
  <1>5. ASSUME NEW r \in Requests, ContextFlush(r) PROVE DecidedIsEarlier'
    BY <1>0, <1>5 DEF ContextFlush, Goto
  <1>6. ASSUME NEW r \in Requests, AgentMessage(r) PROVE DecidedIsEarlier'
    BY <1>0, <1>6 DEF AgentMessage, Goto
  <1>7. ASSUME NEW r \in Requests, AgentResume(r) PROVE DecidedIsEarlier'
    BY <1>0, <1>7 DEF AgentResume, Goto
  <1>8. ASSUME NEW r \in Requests, NEW calls \in (SUBSET Writes) \cup (SUBSET Searches),
              ModelCalls(r, calls) PROVE DecidedIsEarlier'
    BY <1>0, <1>8 DEF ModelCalls, Goto
  <1>9. ASSUME NEW r \in Requests, ModelEnds(r) PROVE DecidedIsEarlier'
    BY <1>0, <1>9 DEF ModelEnds, Goto
  <1>10. ASSUME NEW r \in Requests, StepDone(r) PROVE DecidedIsEarlier'
    BY <1>0, <1>10 DEF StepDone, NoThread, Goto
  <1>11. ASSUME NEW r \in Requests, StepInterrupted(r) PROVE DecidedIsEarlier'
    BY <1>0, <1>11 DEF StepInterrupted, Goto
  <1>12. ASSUME NEW r \in Requests, NEW w \in Writes, WriteRefused(r, w)
       PROVE DecidedIsEarlier'
    BY <1>0, <1>12 DEF WriteRefused, ToolDone
  <1>13. ASSUME NEW r \in Requests, NEW w \in Writes, WriteChecked(r, w)
       PROVE DecidedIsEarlier'
    BY <1>0, <1>13 DEF WriteChecked
  <1>14. ASSUME NEW r \in Requests, NEW w \in Writes, WriteAsks(r, w)
       PROVE DecidedIsEarlier'
    BY <1>0, <1>14 DEF WriteAsks
  <1>15. ASSUME NEW r \in Requests, NEW w \in Writes, WriteCancelled(r, w)
       PROVE DecidedIsEarlier'
    BY <1>0, <1>15 DEF WriteCancelled, ToolDone
  <1>16. ASSUME NEW r \in Requests, NEW w \in Writes, WriteCommit(r, w)
       PROVE DecidedIsEarlier'
    BY <1>0, <1>16 DEF WriteCommit
  <1>17. ASSUME NEW r \in Requests, NEW w \in Writes, WriteAnswered(r, w)
       PROVE DecidedIsEarlier'
    BY <1>0, <1>17 DEF WriteAnswered, ToolDone
  <1>18. ASSUME NEW r \in Requests, NEW c \in Searches, SearchBegins(r, c)
       PROVE DecidedIsEarlier'
    BY <1>0, <1>18 DEF SearchBegins
  <1>19. ASSUME NEW r \in Requests, NEW c \in Searches, SearchDone(r, c)
       PROVE DecidedIsEarlier'
    BY <1>0, <1>19 DEF SearchDone, ToolDone
  <1>20. ASSUME NEW r \in Requests, NEW c \in Searches, SearchEmpty(r, c)
       PROVE DecidedIsEarlier'
    BY <1>0, <1>20 DEF SearchEmpty, ToolDone
  <1>21. ASSUME NEW r \in Requests, NEW c \in Calls, ToolRaises(r, c)
       PROVE DecidedIsEarlier'
    BY <1>0, <1>21 DEF ToolRaises, Goto
  <1>22. ASSUME NEW r \in Requests, NEW w \in Writes, SendCard(r, w)
       PROVE DecidedIsEarlier'
    BY <1>0, <1>22 DEF SendCard, End, EndOf, AgentGone, Goto
  <1>23. ASSUME NEW r \in Requests, StoreReply(r) PROVE DecidedIsEarlier'
    BY <1>0, <1>23 DEF StoreReply, End, EndOf, AgentGone, Goto
  <1>24. ASSUME NEW r \in Requests, RequestFails(r) PROVE DecidedIsEarlier'
    BY <1>0, <1>24 DEF RequestFails, End, EndOf, AgentGone, Goto
  <1>25. ASSUME NEW r \in Requests, ClientLeaves(r) PROVE DecidedIsEarlier'
    BY <1>0, <1>25 DEF ClientLeaves, End, EndOf, AgentGone, Goto
  <1>26. CASE Restart
    BY <1>0, <1>26 DEF Restart, NoThread
  <1>27. CASE DeleteSession
    BY <1>0, <1>27 DEF DeleteSession
  <1>28. ASSUME NEW w \in Writes, DeleteElsewhere(w) PROVE DecidedIsEarlier'
    BY <1>0, <1>28 DEF DeleteElsewhere
  <1>29. CASE UNCHANGED vars
    BY <1>0, <1>29
  <1> QED BY <1>1, <1>2, <1>3, <1>4, <1>5, <1>6, <1>7, <1>8, <1>9, <1>10, <1>11, <1>12,
    <1>13, <1>14, <1>15, <1>16, <1>17, <1>18, <1>19, <1>20, <1>21, <1>22, <1>23, <1>24,
    <1>25, <1>26, <1>27, <1>28, <1>29 DEF Next, Progress, Tool

\* Requests are sent before they execute anything.
LEMMA SentStep == IInv /\ [Next]_vars => WritersWereSent'
  <1> SUFFICES ASSUME IInv /\ [Next]_vars PROVE WritersWereSent'
    OBVIOUS
  <1> USE DEF vars, agentVars, contextVars, TypeOK, WritersWereSent, Ended
  <1>0. TypeOK /\ WritersWereSent
    BY DEF IInv
  <1>1. ASSUME NEW r \in Requests, SendMessage(r) PROVE WritersWereSent'
    BY <1>0, <1>1 DEF SendMessage, Send, Goto
  <1>2. ASSUME NEW r \in Requests, NEW asked \in Requests,
              NEW choice \in {"confirm", "cancel"}, Answer(r, asked, choice)
       PROVE WritersWereSent'
    BY <1>0, <1>2 DEF Answer, Send, Goto
  <1>3. ASSUME NEW r \in Requests, ContextFound(r) PROVE WritersWereSent'
    BY <1>0, <1>3 DEF ContextFound, Goto
  <1>4. ASSUME NEW r \in Requests, ContextMissing(r) PROVE WritersWereSent'
    BY <1>0, <1>4 DEF ContextMissing, Goto
  <1>5. ASSUME NEW r \in Requests, ContextFlush(r) PROVE WritersWereSent'
    BY <1>0, <1>5 DEF ContextFlush, Goto
  <1>6. ASSUME NEW r \in Requests, AgentMessage(r) PROVE WritersWereSent'
    BY <1>0, <1>6 DEF AgentMessage, Goto
  <1>7. ASSUME NEW r \in Requests, AgentResume(r) PROVE WritersWereSent'
    BY <1>0, <1>7 DEF AgentResume, Goto
  <1>8. ASSUME NEW r \in Requests, NEW calls \in (SUBSET Writes) \cup (SUBSET Searches),
              ModelCalls(r, calls) PROVE WritersWereSent'
    BY <1>0, <1>8 DEF ModelCalls, Goto
  <1>9. ASSUME NEW r \in Requests, ModelEnds(r) PROVE WritersWereSent'
    BY <1>0, <1>9 DEF ModelEnds, Goto
  <1>10. ASSUME NEW r \in Requests, StepDone(r) PROVE WritersWereSent'
    BY <1>0, <1>10 DEF StepDone, NoThread, Goto
  <1>11. ASSUME NEW r \in Requests, StepInterrupted(r) PROVE WritersWereSent'
    BY <1>0, <1>11 DEF StepInterrupted, Goto
  <1>12. ASSUME NEW r \in Requests, NEW w \in Writes, WriteRefused(r, w)
       PROVE WritersWereSent'
    BY <1>0, <1>12 DEF WriteRefused, ToolDone
  <1>13. ASSUME NEW r \in Requests, NEW w \in Writes, WriteChecked(r, w)
       PROVE WritersWereSent'
    BY <1>0, <1>13 DEF WriteChecked
  <1>14. ASSUME NEW r \in Requests, NEW w \in Writes, WriteAsks(r, w)
       PROVE WritersWereSent'
    BY <1>0, <1>14 DEF WriteAsks
  <1>15. ASSUME NEW r \in Requests, NEW w \in Writes, WriteCancelled(r, w)
       PROVE WritersWereSent'
    BY <1>0, <1>15 DEF WriteCancelled, ToolDone
  <1>16. ASSUME NEW r \in Requests, NEW w \in Writes, WriteCommit(r, w)
       PROVE WritersWereSent'
    BY <1>0, <1>16 DEF WriteCommit
  <1>17. ASSUME NEW r \in Requests, NEW w \in Writes, WriteAnswered(r, w)
       PROVE WritersWereSent'
    BY <1>0, <1>17 DEF WriteAnswered, ToolDone
  <1>18. ASSUME NEW r \in Requests, NEW c \in Searches, SearchBegins(r, c)
       PROVE WritersWereSent'
    BY <1>0, <1>18 DEF SearchBegins
  <1>19. ASSUME NEW r \in Requests, NEW c \in Searches, SearchDone(r, c)
       PROVE WritersWereSent'
    BY <1>0, <1>19 DEF SearchDone, ToolDone
  <1>20. ASSUME NEW r \in Requests, NEW c \in Searches, SearchEmpty(r, c)
       PROVE WritersWereSent'
    BY <1>0, <1>20 DEF SearchEmpty, ToolDone
  <1>21. ASSUME NEW r \in Requests, NEW c \in Calls, ToolRaises(r, c)
       PROVE WritersWereSent'
    BY <1>0, <1>21 DEF ToolRaises, Goto
  <1>22. ASSUME NEW r \in Requests, NEW w \in Writes, SendCard(r, w)
       PROVE WritersWereSent'
    BY <1>0, <1>22 DEF SendCard, End, EndOf, AgentGone, Goto
  <1>23. ASSUME NEW r \in Requests, StoreReply(r) PROVE WritersWereSent'
    BY <1>0, <1>23 DEF StoreReply, End, EndOf, AgentGone, Goto
  <1>24. ASSUME NEW r \in Requests, RequestFails(r) PROVE WritersWereSent'
    BY <1>0, <1>24 DEF RequestFails, End, EndOf, AgentGone, Goto
  <1>25. ASSUME NEW r \in Requests, ClientLeaves(r) PROVE WritersWereSent'
    BY <1>0, <1>25 DEF ClientLeaves, End, EndOf, AgentGone, Goto
  <1>26. CASE Restart
    BY <1>0, <1>26 DEF Restart, NoThread
  <1>27. CASE DeleteSession
    BY <1>0, <1>27 DEF DeleteSession
  <1>28. ASSUME NEW w \in Writes, DeleteElsewhere(w) PROVE WritersWereSent'
    BY <1>0, <1>28 DEF DeleteElsewhere
  <1>29. CASE UNCHANGED vars
    BY <1>0, <1>29
  <1> QED BY <1>1, <1>2, <1>3, <1>4, <1>5, <1>6, <1>7, <1>8, <1>9, <1>10, <1>11, <1>12,
    <1>13, <1>14, <1>15, <1>16, <1>17, <1>18, <1>19, <1>20, <1>21, <1>22, <1>23, <1>24,
    <1>25, <1>26, <1>27, <1>28, <1>29 DEF Next, Progress, Tool

\* What is executed has been confirmed.
LEMMA ConfirmedStep == IInv /\ [Next]_vars => WritesAreConfirmed'
  <1> SUFFICES ASSUME IInv /\ [Next]_vars PROVE WritesAreConfirmed'
    OBVIOUS
  <1> USE DEF vars, agentVars, contextVars, TypeOK, WritersWereSent,
              WritesAreConfirmed, DecidedIsEarlier
  <1>0. TypeOK /\ WritersWereSent /\ WritesAreConfirmed /\ DecidedIsEarlier
    BY DEF IInv
  <1>1. ASSUME NEW r \in Requests, SendMessage(r) PROVE WritesAreConfirmed'
    BY <1>0, <1>1 DEF SendMessage, Send, Goto
  <1>2. ASSUME NEW r \in Requests, NEW asked \in Requests,
              NEW choice \in {"confirm", "cancel"}, Answer(r, asked, choice)
       PROVE WritesAreConfirmed'
    BY <1>0, <1>2 DEF Answer, Send, Goto
  <1>3. ASSUME NEW r \in Requests, ContextFound(r) PROVE WritesAreConfirmed'
    BY <1>0, <1>3 DEF ContextFound, Goto
  <1>4. ASSUME NEW r \in Requests, ContextMissing(r) PROVE WritesAreConfirmed'
    BY <1>0, <1>4 DEF ContextMissing, Goto
  <1>5. ASSUME NEW r \in Requests, ContextFlush(r) PROVE WritesAreConfirmed'
    BY <1>0, <1>5 DEF ContextFlush, Goto
  <1>6. ASSUME NEW r \in Requests, AgentMessage(r) PROVE WritesAreConfirmed'
    BY <1>0, <1>6 DEF AgentMessage, Goto
  <1>7. ASSUME NEW r \in Requests, AgentResume(r) PROVE WritesAreConfirmed'
    BY <1>0, <1>7 DEF AgentResume, Goto
  <1>8. ASSUME NEW r \in Requests, NEW calls \in (SUBSET Writes) \cup (SUBSET Searches),
              ModelCalls(r, calls) PROVE WritesAreConfirmed'
    BY <1>0, <1>8 DEF ModelCalls, Goto
  <1>9. ASSUME NEW r \in Requests, ModelEnds(r) PROVE WritesAreConfirmed'
    BY <1>0, <1>9 DEF ModelEnds, Goto
  <1>10. ASSUME NEW r \in Requests, StepDone(r) PROVE WritesAreConfirmed'
    BY <1>0, <1>10 DEF StepDone, NoThread, Goto
  <1>11. ASSUME NEW r \in Requests, StepInterrupted(r) PROVE WritesAreConfirmed'
    BY <1>0, <1>11 DEF StepInterrupted, Goto
  <1>12. ASSUME NEW r \in Requests, NEW w \in Writes, WriteRefused(r, w)
       PROVE WritesAreConfirmed'
    BY <1>0, <1>12 DEF WriteRefused, ToolDone
  <1>13. ASSUME NEW r \in Requests, NEW w \in Writes, WriteChecked(r, w)
       PROVE WritesAreConfirmed'
    BY <1>0, <1>13 DEF WriteChecked
  <1>14. ASSUME NEW r \in Requests, NEW w \in Writes, WriteAsks(r, w)
       PROVE WritesAreConfirmed'
    BY <1>0, <1>14 DEF WriteAsks
  <1>15. ASSUME NEW r \in Requests, NEW w \in Writes, WriteCancelled(r, w)
       PROVE WritesAreConfirmed'
    BY <1>0, <1>15 DEF WriteCancelled, ToolDone
  <1>16. ASSUME NEW r \in Requests, NEW w \in Writes, WriteCommit(r, w)
       PROVE WritesAreConfirmed'
    BY <1>0, <1>16 DEF WriteCommit
  <1>17. ASSUME NEW r \in Requests, NEW w \in Writes, WriteAnswered(r, w)
       PROVE WritesAreConfirmed'
    BY <1>0, <1>17 DEF WriteAnswered, ToolDone
  <1>18. ASSUME NEW r \in Requests, NEW c \in Searches, SearchBegins(r, c)
       PROVE WritesAreConfirmed'
    BY <1>0, <1>18 DEF SearchBegins
  <1>19. ASSUME NEW r \in Requests, NEW c \in Searches, SearchDone(r, c)
       PROVE WritesAreConfirmed'
    BY <1>0, <1>19 DEF SearchDone, ToolDone
  <1>20. ASSUME NEW r \in Requests, NEW c \in Searches, SearchEmpty(r, c)
       PROVE WritesAreConfirmed'
    BY <1>0, <1>20 DEF SearchEmpty, ToolDone
  <1>21. ASSUME NEW r \in Requests, NEW c \in Calls, ToolRaises(r, c)
       PROVE WritesAreConfirmed'
    BY <1>0, <1>21 DEF ToolRaises, Goto
  <1>22. ASSUME NEW r \in Requests, NEW w \in Writes, SendCard(r, w)
       PROVE WritesAreConfirmed'
    BY <1>0, <1>22 DEF SendCard, End, EndOf, AgentGone, Goto
  <1>23. ASSUME NEW r \in Requests, StoreReply(r) PROVE WritesAreConfirmed'
    BY <1>0, <1>23 DEF StoreReply, End, EndOf, AgentGone, Goto
  <1>24. ASSUME NEW r \in Requests, RequestFails(r) PROVE WritesAreConfirmed'
    BY <1>0, <1>24 DEF RequestFails, End, EndOf, AgentGone, Goto
  <1>25. ASSUME NEW r \in Requests, ClientLeaves(r) PROVE WritesAreConfirmed'
    BY <1>0, <1>25 DEF ClientLeaves, End, EndOf, AgentGone, Goto
  <1>26. CASE Restart
    BY <1>0, <1>26 DEF Restart, NoThread
  <1>27. CASE DeleteSession
    BY <1>0, <1>27 DEF DeleteSession
  <1>28. ASSUME NEW w \in Writes, DeleteElsewhere(w) PROVE WritesAreConfirmed'
    BY <1>0, <1>28 DEF DeleteElsewhere
  <1>29. CASE UNCHANGED vars
    BY <1>0, <1>29
  <1> QED BY <1>1, <1>2, <1>3, <1>4, <1>5, <1>6, <1>7, <1>8, <1>9, <1>10, <1>11, <1>12,
    <1>13, <1>14, <1>15, <1>16, <1>17, <1>18, <1>19, <1>20, <1>21, <1>22, <1>23, <1>24,
    <1>25, <1>26, <1>27, <1>28, <1>29 DEF Next, Progress, Tool

\* Every step preserves the invariant.
LEMMA NextIInv == IInv /\ [Next]_vars => IInv'
  BY TypeStep, EarlyStep, RunsStep, DecidedStep, SentStep, ConfirmedStep DEF IInv

\* Every reachable state satisfies it.
LEMMA Invariance == Spec => []IInv
  BY InitIInv, NextIInv, PTL DEF Spec

\* The thread, the requests, the calls and the cards keep their types.
THEOREM TypeCorrect == Spec => []TypeOK
  <1>1. IInv => TypeOK
    BY DEF IInv
  <1> QED BY Invariance, <1>1, PTL

\* The facade's Command(resume=...): no write is executed without the user's "confirm",
\* and none by the request whose own model has called for it, however requests of the
\* session overlap, are cut off and repeated, and whenever the process restarts.
THEOREM NothingUnconfirmed == Spec => []WritesAreConfirmed
  <1>1. IInv => WritesAreConfirmed
    BY DEF IInv
  <1> QED BY Invariance, <1>1, PTL

\* From here on: what holds as long as requests of the session have not overlapped and
\* the process has not been restarted.

\* Cards nobody has answered.
Open == {a \in Requests : card[a] # None /\ \A q \in Requests : answers[q] # a}

\* If the thread waits for tools, it asks about nothing but what the card shows, and
\* nothing its run has called for has been executed.
Waits(a) ==
  thread.phase = "calling"
    => /\ thread.asking # {}
       /\ \A w \in thread.asking : w.target \in card[a].targets
       /\ \A e \in executed : e.proposed # thread.run

\* Calls are open only in a thread that waits, cards are sent by requests that have
\* ended, answers are answers to cards.
CardsFit ==
  /\ thread.open # {} => thread.phase = "calling"
  /\ \A r \in Requests :
       /\ card[r] # None => pc[r] \in Ended
       /\ answers[r] # None => card[answers[r]] # None
       /\ pc[r] = "idle" => answers[r] = None

OneRuns == crossed \/ \A r, q \in Running : r = q

\* There is one open card at most. It shows what the thread waits for, if the thread
\* can still be resumed.
OpenFits ==
  crossed \/ /\ \A a, b \in Open : a = b
             /\ \A a \in Open : thread.phase # "clean" /\ Waits(a)

\* There is none while an agent runs; that of a new message has the thread.
WorkFits ==
  crossed \/
    \A r \in Requests :
      /\ pc[r] \in {"model", "tools"} => Open = {} /\ (answers[r] = None => thread.run = r)
      /\ pc[r] = "detecting" /\ thread.asking # {} /\ answers[r] = None
           => Open = {} /\ thread.run = r

\* An answer on its way finds what its card shows.
AnswerFits ==
  crossed \/
    \A r \in Requests :
      answers[r] # None /\ pc[r] \in {"context", "inserting", "updating", "loading"}
        => Open = {} /\ Waits(answers[r])

\* A decision is for what the card shows, called by a request that has ended.
DecidedFits ==
  crossed \/
    \A r \in Requests :
      decided[r] # {}
        => /\ answers[r] # None /\ base[r] \in Requests /\ pc[base[r]] \in Ended
           /\ \A w \in decided[r] : w.target \in card[answers[r]].targets

ExecutedFits ==
  crossed \/
    \A e \in executed :
      /\ pc[e.proposed] \in Ended /\ answers[e.by] # None
      /\ e.write.target \in card[answers[e.by]].targets

\* A call that has been executed is not before its execution any more.
CallsFit ==
  crossed \/
    \A r \in Requests : \A e \in executed :
      pc[r] = "tools" /\ e.proposed = base[r] => tool[r][e.write] \in {"written", "done"}

OrderInv ==
  /\ IInv
  /\ CardsFit /\ OneRuns /\ OpenFits /\ WorkFits /\ AnswerFits
  /\ DecidedFits /\ ExecutedFits /\ CallsFit /\ ExecutedOnce

\* The initial state satisfies this invariant, too.
LEMMA InitOrderInv == Init => OrderInv
  <1> SUFFICES ASSUME Init PROVE OrderInv
    OBVIOUS
  <1>1. IInv
    BY InitIInv
  <1> USE DEF Init, NoThread
  <1>2. CardsFit /\ OneRuns
    BY DEF CardsFit, OneRuns, Running
  <1>3. OpenFits /\ WorkFits /\ AnswerFits
    BY DEF OpenFits, WorkFits, AnswerFits, Open
  <1>4. DecidedFits /\ ExecutedFits /\ CallsFit /\ ExecutedOnce
    BY DEF DecidedFits, ExecutedFits, CallsFit, ExecutedOnce
  <1> QED BY <1>1, <1>2, <1>3, <1>4 DEF OrderInv

\* Without an overlap, all other requests rest while one runs.
LEMMA Alone ==
  ASSUME OneRuns, ~crossed, NEW r \in Running
  PROVE  \A q \in Requests : q = r \/ pc[q] \in Ended \cup {"idle"}
  BY DEF OneRuns, Running

\* A request that runs goes on: nothing else starts to run, and what has ended stays so.
LEMMA Going ==
  ASSUME TypeOK, NEW r \in Running, NEW step, Goto(r, step)
  PROVE  /\ Running' \subseteq Running
         /\ \A q \in Requests : pc[q] \in Ended => pc'[q] = pc[q]
         /\ \A q \in Requests : pc'[q] = IF q = r THEN step ELSE pc[q]
  BY DEF TypeOK, Goto, Running

\* The progress of one call leaves the others.
LEMMA Calling ==
  ASSUME TypeOK, NEW r \in Requests, NEW c \in Calls, NEW s, ToolGoto(r, c, s)
  PROVE  \A q \in Requests, d \in Calls :
           tool'[q][d] = IF q = r /\ d = c THEN s ELSE tool[q][d]
  <1>1. tool \in [Requests -> [Calls -> ToolSteps]]
    BY DEF TypeOK, ToolSteps
  <1>2. tool' = [tool EXCEPT ![r] = [tool[r] EXCEPT ![c] = s]]
    BY DEF ToolGoto
  <1> QED BY <1>1, <1>2

\* Without an overlap, an answer comes when all requests rest, and is for the card
\* that is open.
LEMMA Answered ==
  ASSUME TypeOK, CardsFit, OpenFits, ~crossed', NEW r \in Requests, NEW asked \in Requests,
         NEW choice, Answer(r, asked, choice)
  PROVE  /\ ~crossed /\ Running = {} /\ pc' = [pc EXCEPT ![r] = "context"]
         /\ answers' = [answers EXCEPT ![r] = asked]
         /\ Open' = {} /\ Waits(asked)
  <1> USE DEF Answer, Send, Goto
  <1>1. ~crossed /\ Running = {} /\ asked \in Open
    BY DEF Open
  <1>2. answers[r] = None /\ None \notin Requests
    BY AssistantAssumption DEF AssistantAssumption, CardsFit, Requests
  <1>3. Open' \subseteq Open \ {asked}
    <2> SUFFICES ASSUME NEW a \in Open' PROVE a \in Open /\ a # asked
      OBVIOUS
    <2>1. a \in Requests /\ card[a] # None /\ \A q \in Requests : answers'[q] # a
      BY DEF Open
    <2>2. \A q \in Requests : answers'[q] = IF q = r THEN asked ELSE answers[q]
      BY DEF TypeOK
    <2>3. a # asked /\ \A q \in Requests : q # r => answers[q] # a
      BY <2>1, <2>2
    <2>4. answers[r] # a
      BY <1>2, <2>1
    <2> QED BY <2>1, <2>3, <2>4 DEF Open
  <1> QED BY <1>1, <1>3 DEF OpenFits

\* Cards, answers and the thread keep fitting.
LEMMA CardsStep == OrderInv /\ [Next]_vars => CardsFit'
  <1> SUFFICES ASSUME OrderInv /\ [Next]_vars PROVE CardsFit'
    OBVIOUS
  <1> USE DEF vars, agentVars, contextVars, TypeOK, CardsFit, Ended
  <1>0. TypeOK /\ CardsFit
    BY DEF OrderInv, IInv
  <1>1. ASSUME NEW r \in Requests, SendMessage(r) PROVE CardsFit'
    BY <1>0, <1>1 DEF SendMessage, Send, Goto
  <1>2. ASSUME NEW r \in Requests, NEW asked \in Requests,
              NEW choice \in {"confirm", "cancel"}, Answer(r, asked, choice)
       PROVE CardsFit'
    BY <1>0, <1>2 DEF Answer, Send, Goto
  <1>3. ASSUME NEW r \in Requests, ContextFound(r) PROVE CardsFit'
    BY <1>0, <1>3 DEF ContextFound, Goto
  <1>4. ASSUME NEW r \in Requests, ContextMissing(r) PROVE CardsFit'
    BY <1>0, <1>4 DEF ContextMissing, Goto
  <1>5. ASSUME NEW r \in Requests, ContextFlush(r) PROVE CardsFit'
    BY <1>0, <1>5 DEF ContextFlush, Goto
  <1>6. ASSUME NEW r \in Requests, AgentMessage(r) PROVE CardsFit'
    BY <1>0, <1>6 DEF AgentMessage, Goto
  <1>7. ASSUME NEW r \in Requests, AgentResume(r) PROVE CardsFit'
    BY <1>0, <1>7 DEF AgentResume, Goto
  <1>8. ASSUME NEW r \in Requests, NEW calls \in (SUBSET Writes) \cup (SUBSET Searches),
              ModelCalls(r, calls) PROVE CardsFit'
    BY <1>0, <1>8 DEF ModelCalls, Goto
  <1>9. ASSUME NEW r \in Requests, ModelEnds(r) PROVE CardsFit'
    BY <1>0, <1>9 DEF ModelEnds, Goto
  <1>10. ASSUME NEW r \in Requests, StepDone(r) PROVE CardsFit'
    BY <1>0, <1>10 DEF StepDone, NoThread, Goto
  <1>11. ASSUME NEW r \in Requests, StepInterrupted(r) PROVE CardsFit'
    BY <1>0, <1>11 DEF StepInterrupted, Goto
  <1>12. ASSUME NEW r \in Requests, NEW w \in Writes, WriteRefused(r, w)
       PROVE CardsFit'
    BY <1>0, <1>12 DEF WriteRefused, ToolDone
  <1>13. ASSUME NEW r \in Requests, NEW w \in Writes, WriteChecked(r, w)
       PROVE CardsFit'
    BY <1>0, <1>13 DEF WriteChecked
  <1>14. ASSUME NEW r \in Requests, NEW w \in Writes, WriteAsks(r, w) PROVE CardsFit'
    BY <1>0, <1>14 DEF WriteAsks
  <1>15. ASSUME NEW r \in Requests, NEW w \in Writes, WriteCancelled(r, w)
       PROVE CardsFit'
    BY <1>0, <1>15 DEF WriteCancelled, ToolDone
  <1>16. ASSUME NEW r \in Requests, NEW w \in Writes, WriteCommit(r, w)
       PROVE CardsFit'
    BY <1>0, <1>16 DEF WriteCommit
  <1>17. ASSUME NEW r \in Requests, NEW w \in Writes, WriteAnswered(r, w)
       PROVE CardsFit'
    BY <1>0, <1>17 DEF WriteAnswered, ToolDone
  <1>18. ASSUME NEW r \in Requests, NEW c \in Searches, SearchBegins(r, c)
       PROVE CardsFit'
    BY <1>0, <1>18 DEF SearchBegins
  <1>19. ASSUME NEW r \in Requests, NEW c \in Searches, SearchDone(r, c)
       PROVE CardsFit'
    BY <1>0, <1>19 DEF SearchDone, ToolDone
  <1>20. ASSUME NEW r \in Requests, NEW c \in Searches, SearchEmpty(r, c)
       PROVE CardsFit'
    BY <1>0, <1>20 DEF SearchEmpty, ToolDone
  <1>21. ASSUME NEW r \in Requests, NEW c \in Calls, ToolRaises(r, c) PROVE CardsFit'
    BY <1>0, <1>21 DEF ToolRaises, Goto
  <1>22. ASSUME NEW r \in Requests, NEW w \in Writes, SendCard(r, w) PROVE CardsFit'
    BY <1>0, <1>22 DEF SendCard, End, EndOf, AgentGone, Goto
  <1>23. ASSUME NEW r \in Requests, StoreReply(r) PROVE CardsFit'
    BY <1>0, <1>23 DEF StoreReply, End, EndOf, AgentGone, Goto
  <1>24. ASSUME NEW r \in Requests, RequestFails(r) PROVE CardsFit'
    BY <1>0, <1>24 DEF RequestFails, End, EndOf, AgentGone, Goto
  <1>25. ASSUME NEW r \in Requests, ClientLeaves(r) PROVE CardsFit'
    BY <1>0, <1>25 DEF ClientLeaves, End, EndOf, AgentGone, Goto
  <1>26. CASE Restart
    BY <1>0, <1>26 DEF Restart, NoThread
  <1>27. CASE DeleteSession
    BY <1>0, <1>27 DEF DeleteSession
  <1>28. ASSUME NEW w \in Writes, DeleteElsewhere(w) PROVE CardsFit'
    BY <1>0, <1>28 DEF DeleteElsewhere
  <1>29. CASE UNCHANGED vars
    BY <1>0, <1>29
  <1> QED BY <1>1, <1>2, <1>3, <1>4, <1>5, <1>6, <1>7, <1>8, <1>9, <1>10, <1>11, <1>12,
    <1>13, <1>14, <1>15, <1>16, <1>17, <1>18, <1>19, <1>20, <1>21, <1>22, <1>23, <1>24,
    <1>25, <1>26, <1>27, <1>28, <1>29 DEF Next, Progress, Tool

\* A second request is sent only with crossed set.
LEMMA OneRunsStep == OrderInv /\ [Next]_vars => OneRuns'
  <1> SUFFICES ASSUME OrderInv /\ [Next]_vars PROVE OneRuns'
    OBVIOUS
  <1> USE DEF vars, agentVars, contextVars, TypeOK, OneRuns, Running, Ended
  <1>0. TypeOK /\ OneRuns
    BY DEF OrderInv, IInv
  <1>1. ASSUME NEW r \in Requests, SendMessage(r) PROVE OneRuns'
    BY <1>0, <1>1 DEF SendMessage, Send, Goto
  <1>2. ASSUME NEW r \in Requests, NEW asked \in Requests,
              NEW choice \in {"confirm", "cancel"}, Answer(r, asked, choice)
       PROVE OneRuns'
    <2> SUFFICES ASSUME ~crossed' PROVE \A p, q \in Running' : p = q
      BY <1>2 DEF OneRuns
    <2>1. Running = {}
      BY <1>2 DEF Answer, Send
    <2>2. Running' \subseteq Running \cup {r}
      BY <1>0, <1>2 DEF Answer, Send, Goto, TypeOK, Running
    <2> QED BY <2>1, <2>2
  <1>3. ASSUME NEW r \in Requests, ContextFound(r) PROVE OneRuns'
    <2>1. r \in Running
      BY <1>3 DEF ContextFound, Running, Ended
    <2>2. \E step : Goto(r, step)
      BY <1>3 DEF ContextFound
    <2>3. Running' \subseteq Running
      BY <1>0, <2>1, <2>2, Going
    <2> QED BY <1>0, <1>3, <2>3 DEF ContextFound, OneRuns
  <1>4. ASSUME NEW r \in Requests, ContextMissing(r) PROVE OneRuns'
    BY <1>0, <1>4 DEF ContextMissing, Goto
  <1>5. ASSUME NEW r \in Requests, ContextFlush(r) PROVE OneRuns'
    BY <1>0, <1>5 DEF ContextFlush, Goto
  <1>6. ASSUME NEW r \in Requests, AgentMessage(r) PROVE OneRuns'
    BY <1>0, <1>6 DEF AgentMessage, Goto
  <1>7. ASSUME NEW r \in Requests, AgentResume(r) PROVE OneRuns'
    <2>1. r \in Running
      BY <1>7 DEF AgentResume, Running, Ended
    <2>2. \E step : Goto(r, step)
      BY <1>7 DEF AgentResume
    <2>3. Running' \subseteq Running
      BY <1>0, <2>1, <2>2, Going
    <2> QED BY <1>0, <1>7, <2>3 DEF AgentResume, OneRuns
  <1>8. ASSUME NEW r \in Requests, NEW calls \in (SUBSET Writes) \cup (SUBSET Searches),
              ModelCalls(r, calls) PROVE OneRuns'
    BY <1>0, <1>8 DEF ModelCalls, Goto
  <1>9. ASSUME NEW r \in Requests, ModelEnds(r) PROVE OneRuns'
    BY <1>0, <1>9 DEF ModelEnds, Goto
  <1>10. ASSUME NEW r \in Requests, StepDone(r) PROVE OneRuns'
    BY <1>0, <1>10 DEF StepDone, NoThread, Goto
  <1>11. ASSUME NEW r \in Requests, StepInterrupted(r) PROVE OneRuns'
    BY <1>0, <1>11 DEF StepInterrupted, Goto
  <1>12. ASSUME NEW r \in Requests, NEW w \in Writes, WriteRefused(r, w)
       PROVE OneRuns'
    BY <1>0, <1>12 DEF WriteRefused, ToolDone
  <1>13. ASSUME NEW r \in Requests, NEW w \in Writes, WriteChecked(r, w)
       PROVE OneRuns'
    BY <1>0, <1>13 DEF WriteChecked
  <1>14. ASSUME NEW r \in Requests, NEW w \in Writes, WriteAsks(r, w) PROVE OneRuns'
    BY <1>0, <1>14 DEF WriteAsks
  <1>15. ASSUME NEW r \in Requests, NEW w \in Writes, WriteCancelled(r, w)
       PROVE OneRuns'
    BY <1>0, <1>15 DEF WriteCancelled, ToolDone
  <1>16. ASSUME NEW r \in Requests, NEW w \in Writes, WriteCommit(r, w) PROVE OneRuns'
    BY <1>0, <1>16 DEF WriteCommit
  <1>17. ASSUME NEW r \in Requests, NEW w \in Writes, WriteAnswered(r, w)
       PROVE OneRuns'
    BY <1>0, <1>17 DEF WriteAnswered, ToolDone
  <1>18. ASSUME NEW r \in Requests, NEW c \in Searches, SearchBegins(r, c)
       PROVE OneRuns'
    BY <1>0, <1>18 DEF SearchBegins
  <1>19. ASSUME NEW r \in Requests, NEW c \in Searches, SearchDone(r, c)
       PROVE OneRuns'
    BY <1>0, <1>19 DEF SearchDone, ToolDone
  <1>20. ASSUME NEW r \in Requests, NEW c \in Searches, SearchEmpty(r, c)
       PROVE OneRuns'
    BY <1>0, <1>20 DEF SearchEmpty, ToolDone
  <1>21. ASSUME NEW r \in Requests, NEW c \in Calls, ToolRaises(r, c) PROVE OneRuns'
    BY <1>0, <1>21 DEF ToolRaises, Goto
  <1>22. ASSUME NEW r \in Requests, NEW w \in Writes, SendCard(r, w) PROVE OneRuns'
    BY <1>0, <1>22 DEF SendCard, End, EndOf, AgentGone, Goto
  <1>23. ASSUME NEW r \in Requests, StoreReply(r) PROVE OneRuns'
    BY <1>0, <1>23 DEF StoreReply, End, EndOf, AgentGone, Goto
  <1>24. ASSUME NEW r \in Requests, RequestFails(r) PROVE OneRuns'
    BY <1>0, <1>24 DEF RequestFails, End, EndOf, AgentGone, Goto
  <1>25. ASSUME NEW r \in Requests, ClientLeaves(r) PROVE OneRuns'
    BY <1>0, <1>25 DEF ClientLeaves, End, EndOf, AgentGone, Goto
  <1>26. CASE Restart
    BY <1>0, <1>26 DEF Restart, NoThread
  <1>27. CASE DeleteSession
    BY <1>0, <1>27 DEF DeleteSession
  <1>28. ASSUME NEW w \in Writes, DeleteElsewhere(w) PROVE OneRuns'
    BY <1>0, <1>28 DEF DeleteElsewhere
  <1>29. CASE UNCHANGED vars
    BY <1>0, <1>29
  <1> QED BY <1>1, <1>2, <1>3, <1>4, <1>5, <1>6, <1>7, <1>8, <1>9, <1>10, <1>11, <1>12,
    <1>13, <1>14, <1>15, <1>16, <1>17, <1>18, <1>19, <1>20, <1>21, <1>22, <1>23, <1>24,
    <1>25, <1>26, <1>27, <1>28, <1>29 DEF Next, Progress, Tool

\* An open card keeps showing what the thread waits for.
LEMMA OpenStep == OrderInv /\ [Next]_vars => OpenFits'
  <1> SUFFICES ASSUME OrderInv /\ [Next]_vars PROVE OpenFits'
    OBVIOUS
  <1> USE DEF vars, agentVars, contextVars, TypeOK, CardsFit, OpenFits, WorkFits,
              Open, Waits
  <1>0. TypeOK /\ CardsFit /\ OneRuns /\ OpenFits /\ WorkFits /\ ExecutedFits
    BY DEF OrderInv, IInv
  <1>1. ASSUME NEW r \in Requests, SendMessage(r) PROVE OpenFits'
    BY <1>0, <1>1 DEF SendMessage, Send, Goto
  <1>2. ASSUME NEW r \in Requests, NEW asked \in Requests,
              NEW choice \in {"confirm", "cancel"}, Answer(r, asked, choice)
       PROVE OpenFits'
    <2> SUFFICES ASSUME ~crossed' PROVE Open' = {}
      BY DEF OpenFits
    <2> QED BY <1>0, <1>2, Answered
  <1>3. ASSUME NEW r \in Requests, ContextFound(r) PROVE OpenFits'
    BY <1>0, <1>3 DEF ContextFound, Goto
  <1>4. ASSUME NEW r \in Requests, ContextMissing(r) PROVE OpenFits'
    BY <1>0, <1>4 DEF ContextMissing, Goto
  <1>5. ASSUME NEW r \in Requests, ContextFlush(r) PROVE OpenFits'
    BY <1>0, <1>5 DEF ContextFlush, Goto
  <1>6. ASSUME NEW r \in Requests, AgentMessage(r) PROVE OpenFits'
    BY <1>0, <1>6 DEF AgentMessage, Goto
  <1>7. ASSUME NEW r \in Requests, AgentResume(r) PROVE OpenFits'
    BY <1>0, <1>7 DEF AgentResume, Goto
  <1>8. ASSUME NEW r \in Requests, NEW calls \in (SUBSET Writes) \cup (SUBSET Searches),
              ModelCalls(r, calls) PROVE OpenFits'
    BY <1>0, <1>8 DEF ModelCalls, Goto
  <1>9. ASSUME NEW r \in Requests, ModelEnds(r) PROVE OpenFits'
    BY <1>0, <1>9 DEF ModelEnds, Goto
  <1>10. ASSUME NEW r \in Requests, StepDone(r) PROVE OpenFits'
    BY <1>0, <1>10 DEF StepDone, NoThread, Goto
  <1>11. ASSUME NEW r \in Requests, StepInterrupted(r) PROVE OpenFits'
    BY <1>0, <1>11 DEF StepInterrupted, Goto
  <1>12. ASSUME NEW r \in Requests, NEW w \in Writes, WriteRefused(r, w)
       PROVE OpenFits'
    BY <1>0, <1>12 DEF WriteRefused, ToolDone
  <1>13. ASSUME NEW r \in Requests, NEW w \in Writes, WriteChecked(r, w)
       PROVE OpenFits'
    BY <1>0, <1>13 DEF WriteChecked
  <1>14. ASSUME NEW r \in Requests, NEW w \in Writes, WriteAsks(r, w) PROVE OpenFits'
    BY <1>0, <1>14 DEF WriteAsks
  <1>15. ASSUME NEW r \in Requests, NEW w \in Writes, WriteCancelled(r, w)
       PROVE OpenFits'
    BY <1>0, <1>15 DEF WriteCancelled, ToolDone
  <1>16. ASSUME NEW r \in Requests, NEW w \in Writes, WriteCommit(r, w)
       PROVE OpenFits'
    BY <1>0, <1>16 DEF WriteCommit
  <1>17. ASSUME NEW r \in Requests, NEW w \in Writes, WriteAnswered(r, w)
       PROVE OpenFits'
    BY <1>0, <1>17 DEF WriteAnswered, ToolDone
  <1>18. ASSUME NEW r \in Requests, NEW c \in Searches, SearchBegins(r, c)
       PROVE OpenFits'
    BY <1>0, <1>18 DEF SearchBegins
  <1>19. ASSUME NEW r \in Requests, NEW c \in Searches, SearchDone(r, c)
       PROVE OpenFits'
    BY <1>0, <1>19 DEF SearchDone, ToolDone
  <1>20. ASSUME NEW r \in Requests, NEW c \in Searches, SearchEmpty(r, c)
       PROVE OpenFits'
    BY <1>0, <1>20 DEF SearchEmpty, ToolDone
  <1>21. ASSUME NEW r \in Requests, NEW c \in Calls, ToolRaises(r, c) PROVE OpenFits'
    BY <1>0, <1>21 DEF ToolRaises, Goto
  <1>22. ASSUME NEW r \in Requests, NEW w \in Writes, SendCard(r, w) PROVE OpenFits'
    <2> SUFFICES ASSUME ~crossed
                 PROVE  /\ \A a \in Open' : a = r
                        /\ thread'.phase # "clean" /\ Waits(r)'
      BY <1>22 DEF SendCard, OpenFits
    <2>1. Open = {} /\ thread.run = r
      BY <1>0, <1>22 DEF SendCard, WorkFits
    <2>2. \A a \in Open' : a = r
      BY <1>0, <1>22, <2>1 DEF SendCard, Open, TypeOK
    <2>3. thread' = thread /\ thread.phase = "calling"
      BY <1>0, <1>22 DEF SendCard, CardsFit, TypeOK
    <2>4. card'[r].targets = {v.target : v \in thread.asking}
      BY <1>0, <1>22 DEF SendCard, TypeOK
    <2>5. \A e \in executed' : e.proposed # r
      BY <1>0, <1>22 DEF SendCard, ExecutedFits, Ended
    <2> QED BY <1>22, <2>1, <2>2, <2>3, <2>4, <2>5 DEF SendCard, Waits
  <1>23. ASSUME NEW r \in Requests, StoreReply(r) PROVE OpenFits'
    BY <1>0, <1>23 DEF StoreReply, End, EndOf, AgentGone, Goto
  <1>24. ASSUME NEW r \in Requests, RequestFails(r) PROVE OpenFits'
    BY <1>0, <1>24 DEF RequestFails, End, EndOf, AgentGone, Goto
  <1>25. ASSUME NEW r \in Requests, ClientLeaves(r) PROVE OpenFits'
    BY <1>0, <1>25 DEF ClientLeaves, End, EndOf, AgentGone, Goto
  <1>26. CASE Restart
    BY <1>0, <1>26 DEF Restart, NoThread
  <1>27. CASE DeleteSession
    BY <1>0, <1>27 DEF DeleteSession
  <1>28. ASSUME NEW w \in Writes, DeleteElsewhere(w) PROVE OpenFits'
    BY <1>0, <1>28 DEF DeleteElsewhere
  <1>29. CASE UNCHANGED vars
    BY <1>0, <1>29
  <1> QED BY <1>1, <1>2, <1>3, <1>4, <1>5, <1>6, <1>7, <1>8, <1>9, <1>10, <1>11, <1>12,
    <1>13, <1>14, <1>15, <1>16, <1>17, <1>18, <1>19, <1>20, <1>21, <1>22, <1>23, <1>24,
    <1>25, <1>26, <1>27, <1>28, <1>29 DEF Next, Progress, Tool

\* No card is open while an agent runs.
LEMMA WorkStep == OrderInv /\ [Next]_vars => WorkFits'
  <1> SUFFICES ASSUME OrderInv /\ [Next]_vars PROVE WorkFits'
    OBVIOUS
  <1> USE DEF vars, agentVars, contextVars, TypeOK, CardsFit, OneRuns, OpenFits,
              WorkFits, AnswerFits, Open, Running, Ended
  <1>0. TypeOK /\ CardsFit /\ OneRuns /\ OpenFits /\ WorkFits /\ AnswerFits
    BY DEF OrderInv, IInv
  <1>1. ASSUME NEW r \in Requests, SendMessage(r) PROVE WorkFits'
    BY <1>0, <1>1 DEF SendMessage, Send, Goto
  <1>2. ASSUME NEW r \in Requests, NEW asked \in Requests,
              NEW choice \in {"confirm", "cancel"}, Answer(r, asked, choice)
       PROVE WorkFits'
    BY <1>0, <1>2 DEF Answer, Send, Goto
  <1>3. ASSUME NEW r \in Requests, ContextFound(r) PROVE WorkFits'
    BY <1>0, <1>3 DEF ContextFound, Goto
  <1>4. ASSUME NEW r \in Requests, ContextMissing(r) PROVE WorkFits'
    BY <1>0, <1>4 DEF ContextMissing, Goto
  <1>5. ASSUME NEW r \in Requests, ContextFlush(r) PROVE WorkFits'
    BY <1>0, <1>5 DEF ContextFlush, Goto
  <1>6. ASSUME NEW r \in Requests, AgentMessage(r) PROVE WorkFits'
    <2> SUFFICES ASSUME ~crossed PROVE WorkFits'
      BY <1>6 DEF AgentMessage, WorkFits
    <2>a. r \in Running
      BY <1>6 DEF AgentMessage, Running, Ended
    <2>b. \A q \in Requests : q = r \/ pc[q] \in Ended \cup {"idle"}
      BY <1>0, <2>a, Alone
    <2>c. \A q \in Requests : q # r => pc'[q] = pc[q]
      <3>1. Goto(r, "model") \/ Goto(r, "detecting")
        BY <1>6 DEF AgentMessage
      <3> QED BY <1>0, <2>a, <3>1, Going
    <2>1. \A q \in Requests : pc'[q] \in {"model", "tools", "detecting"} => q = r
      BY <2>b, <2>c DEF Ended
    <2>2. Open' = Open
      BY <1>6 DEF AgentMessage, Open
    <2>3. thread'.run = r /\ thread'.asking = {}
      BY <1>6 DEF AgentMessage
    <2>4. pc'[r] \in {"model", "tools"} => Open = {}
      BY <1>0, <1>6 DEF AgentMessage, Goto, TypeOK, OpenFits
    <2> QED BY <2>1, <2>2, <2>3, <2>4 DEF WorkFits
  <1>7. ASSUME NEW r \in Requests, AgentResume(r) PROVE WorkFits'
    BY <1>0, <1>7 DEF AgentResume, Goto
  <1>8. ASSUME NEW r \in Requests, NEW calls \in (SUBSET Writes) \cup (SUBSET Searches),
              ModelCalls(r, calls) PROVE WorkFits'
    <2> SUFFICES ASSUME ~crossed PROVE WorkFits'
      BY <1>8 DEF ModelCalls, WorkFits
    <2>a. r \in Running /\ Goto(r, "tools")
      BY <1>8 DEF ModelCalls, Running, Ended
    <2>b. \A q \in Requests : q = r \/ pc[q] \in Ended \cup {"idle"}
      BY <1>0, <2>a, Alone
    <2>c. \A q \in Requests : pc'[q] = IF q = r THEN "tools" ELSE pc[q]
      BY <1>0, <2>a, Going
    <2>1. \A q \in Requests : pc'[q] \in {"model", "tools", "detecting"} => q = r
      BY <2>b, <2>c DEF Ended
    <2>2. Open' = Open /\ Open = {}
      BY <1>0, <1>8 DEF ModelCalls, Open, WorkFits
    <2>3. thread'.run = r
      BY <1>8 DEF ModelCalls, NoThread
    <2> QED BY <2>1, <2>2, <2>3 DEF WorkFits
  <1>9. ASSUME NEW r \in Requests, ModelEnds(r) PROVE WorkFits'
    BY <1>0, <1>9 DEF ModelEnds, Goto
  <1>10. ASSUME NEW r \in Requests, StepDone(r) PROVE WorkFits'
    <2> SUFFICES ASSUME ~crossed PROVE WorkFits'
      BY <1>10 DEF StepDone, WorkFits
    <2>a. r \in Running /\ Goto(r, "model")
      BY <1>10 DEF StepDone, Running, Ended
    <2>b. \A q \in Requests : q = r \/ pc[q] \in Ended \cup {"idle"}
      BY <1>0, <2>a, Alone
    <2>c. \A q \in Requests : pc'[q] = IF q = r THEN "model" ELSE pc[q]
      BY <1>0, <2>a, Going
    <2>1. \A q \in Requests : pc'[q] \in {"model", "tools", "detecting"} => q = r
      BY <2>b, <2>c DEF Ended
    <2>2. Open' = Open /\ Open = {}
      BY <1>0, <1>10 DEF StepDone, Open, WorkFits
    <2>3. thread'.run = r
      BY <1>10 DEF StepDone, NoThread
    <2> QED BY <2>1, <2>2, <2>3 DEF WorkFits
  <1>11. ASSUME NEW r \in Requests, StepInterrupted(r) PROVE WorkFits'
    BY <1>0, <1>11 DEF StepInterrupted, Goto
  <1>12. ASSUME NEW r \in Requests, NEW w \in Writes, WriteRefused(r, w)
       PROVE WorkFits'
    BY <1>0, <1>12 DEF WriteRefused, ToolDone
  <1>13. ASSUME NEW r \in Requests, NEW w \in Writes, WriteChecked(r, w)
       PROVE WorkFits'
    BY <1>0, <1>13 DEF WriteChecked
  <1>14. ASSUME NEW r \in Requests, NEW w \in Writes, WriteAsks(r, w) PROVE WorkFits'
    <2> SUFFICES ASSUME ~crossed PROVE WorkFits'
      BY <1>14 DEF WriteAsks, WorkFits
    <2>a. \A q \in Requests : q = r \/ pc[q] \in Ended \cup {"idle"}
      <3>1. r \in Running
        BY <1>14 DEF WriteAsks, Running, Ended
      <3> QED BY <1>0, <3>1, Alone
    <2>1. \A q \in Requests : pc'[q] \in {"model", "tools", "detecting"} => q = r
      BY <1>0, <1>14, <2>a DEF WriteAsks, Ended
    <2>2. /\ Open' = Open /\ Open = {}
          /\ answers' = answers /\ (answers[r] = None => thread.run = r)
      BY <1>0, <1>14 DEF WriteAsks, Open, WorkFits
    <2>3. thread'.run = thread.run
      BY <1>0, <1>14 DEF WriteAsks, TypeOK
    <2> QED BY <2>1, <2>2, <2>3 DEF WorkFits
  <1>15. ASSUME NEW r \in Requests, NEW w \in Writes, WriteCancelled(r, w)
       PROVE WorkFits'
    BY <1>0, <1>15 DEF WriteCancelled, ToolDone
  <1>16. ASSUME NEW r \in Requests, NEW w \in Writes, WriteCommit(r, w)
       PROVE WorkFits'
    BY <1>0, <1>16 DEF WriteCommit
  <1>17. ASSUME NEW r \in Requests, NEW w \in Writes, WriteAnswered(r, w)
       PROVE WorkFits'
    BY <1>0, <1>17 DEF WriteAnswered, ToolDone
  <1>18. ASSUME NEW r \in Requests, NEW c \in Searches, SearchBegins(r, c)
       PROVE WorkFits'
    BY <1>0, <1>18 DEF SearchBegins
  <1>19. ASSUME NEW r \in Requests, NEW c \in Searches, SearchDone(r, c)
       PROVE WorkFits'
    BY <1>0, <1>19 DEF SearchDone, ToolDone
  <1>20. ASSUME NEW r \in Requests, NEW c \in Searches, SearchEmpty(r, c)
       PROVE WorkFits'
    BY <1>0, <1>20 DEF SearchEmpty, ToolDone
  <1>21. ASSUME NEW r \in Requests, NEW c \in Calls, ToolRaises(r, c) PROVE WorkFits'
    BY <1>0, <1>21 DEF ToolRaises, Goto
  <1>22. ASSUME NEW r \in Requests, NEW w \in Writes, SendCard(r, w) PROVE WorkFits'
    <2> SUFFICES ASSUME ~crossed PROVE WorkFits'
      BY <1>22 DEF SendCard, WorkFits
    <2>a. r \in Running /\ Goto(r, "done")
      BY <1>22 DEF SendCard, Running, Ended, End
    <2>b. \A q \in Requests : q = r \/ pc[q] \in Ended \cup {"idle"}
      BY <1>0, <2>a, Alone
    <2>c. \A q \in Requests : pc'[q] = IF q = r THEN "done" ELSE pc[q]
      BY <1>0, <2>a, Going
    <2>1. \A q \in Requests : pc'[q] \notin {"model", "tools", "detecting"}
      BY <2>b, <2>c DEF Ended
    <2> QED BY <2>1 DEF WorkFits
  <1>23. ASSUME NEW r \in Requests, StoreReply(r) PROVE WorkFits'
    BY <1>0, <1>23 DEF StoreReply, End, EndOf, AgentGone, Goto
  <1>24. ASSUME NEW r \in Requests, RequestFails(r) PROVE WorkFits'
    BY <1>0, <1>24 DEF RequestFails, End, EndOf, AgentGone, Goto
  <1>25. ASSUME NEW r \in Requests, ClientLeaves(r) PROVE WorkFits'
    BY <1>0, <1>25 DEF ClientLeaves, End, EndOf, AgentGone, Goto
  <1>26. CASE Restart
    BY <1>0, <1>26 DEF Restart, NoThread
  <1>27. CASE DeleteSession
    BY <1>0, <1>27 DEF DeleteSession
  <1>28. ASSUME NEW w \in Writes, DeleteElsewhere(w) PROVE WorkFits'
    BY <1>0, <1>28 DEF DeleteElsewhere
  <1>29. CASE UNCHANGED vars
    BY <1>0, <1>29
  <1> QED BY <1>1, <1>2, <1>3, <1>4, <1>5, <1>6, <1>7, <1>8, <1>9, <1>10, <1>11, <1>12,
    <1>13, <1>14, <1>15, <1>16, <1>17, <1>18, <1>19, <1>20, <1>21, <1>22, <1>23, <1>24,
    <1>25, <1>26, <1>27, <1>28, <1>29 DEF Next, Progress, Tool

\* An answer on its way finds what its card shows.
LEMMA AnswerStep == OrderInv /\ [Next]_vars => AnswerFits'
  <1> SUFFICES ASSUME OrderInv /\ [Next]_vars PROVE AnswerFits'
    OBVIOUS
  <1> USE DEF vars, agentVars, contextVars, TypeOK, CardsFit, OneRuns, OpenFits,
              AnswerFits, Open, Waits, Running, Ended
  <1>0. TypeOK /\ CardsFit /\ OneRuns /\ OpenFits /\ AnswerFits
    BY DEF OrderInv, IInv
  <1>1. ASSUME NEW r \in Requests, SendMessage(r) PROVE AnswerFits'
    BY <1>0, <1>1 DEF SendMessage, Send, Goto
  <1>2. ASSUME NEW r \in Requests, NEW asked \in Requests,
              NEW choice \in {"confirm", "cancel"}, Answer(r, asked, choice)
       PROVE AnswerFits'
    <2> SUFFICES ASSUME ~crossed' PROVE AnswerFits'
      BY DEF AnswerFits
    <2>1. /\ Running = {} /\ pc' = [pc EXCEPT ![r] = "context"]
          /\ answers' = [answers EXCEPT ![r] = asked] /\ Open' = {} /\ Waits(asked)
      <3>1. TypeOK /\ CardsFit /\ OpenFits /\ ~crossed'
        BY <1>0
      <3> HIDE DEF TypeOK, CardsFit, OpenFits, Open, Waits, Running
      <3> QED BY <1>2, <3>1, Answered
    <2>2. \A q \in Requests : pc[q] \in Ended \cup {"idle"}
      BY <2>1 DEF Running
    <2>3. \A q \in Requests : pc'[q] = IF q = r THEN "context" ELSE pc[q]
      BY <1>0, <2>1 DEF TypeOK
    <2>4. \A q \in Requests :
            pc'[q] \in {"context", "inserting", "updating", "loading"} => q = r
      BY <2>2, <2>3 DEF Ended
    <2>5. answers'[r] = asked /\ Waits(asked)'
      BY <1>0, <1>2, <2>1 DEF TypeOK, Answer, Waits
    <2> QED BY <2>1, <2>4, <2>5 DEF AnswerFits
  <1>3. ASSUME NEW r \in Requests, ContextFound(r) PROVE AnswerFits'
    <2>1. UNCHANGED <<answers, card, executed, thread, crossed>>
      BY <1>3 DEF ContextFound
    <2>2. Open' = Open /\ \A q \in Requests : Waits(answers[q])' <=> Waits(answers[q])
      BY <2>1 DEF Open, Waits
    <2>3. \A q \in Requests : pc'[q] \in {"context", "inserting", "updating", "loading"}
            => pc[q] \in {"context", "inserting", "updating", "loading"}
      BY <1>0, <1>3 DEF ContextFound, Goto, TypeOK
    <2> QED BY <1>0, <2>1, <2>2, <2>3 DEF AnswerFits
  <1>4. ASSUME NEW r \in Requests, ContextMissing(r) PROVE AnswerFits'
    BY <1>0, <1>4 DEF ContextMissing, Goto
  <1>5. ASSUME NEW r \in Requests, ContextFlush(r) PROVE AnswerFits'
    BY <1>0, <1>5 DEF ContextFlush, Goto
  <1>6. ASSUME NEW r \in Requests, AgentMessage(r) PROVE AnswerFits'
    BY <1>0, <1>6 DEF AgentMessage, Goto
  <1>7. ASSUME NEW r \in Requests, AgentResume(r) PROVE AnswerFits'
    BY <1>0, <1>7 DEF AgentResume, Goto
  <1>8. ASSUME NEW r \in Requests, NEW calls \in (SUBSET Writes) \cup (SUBSET Searches),
              ModelCalls(r, calls) PROVE AnswerFits'
    <2> SUFFICES ASSUME ~crossed PROVE AnswerFits'
      BY <1>8 DEF ModelCalls, AnswerFits
    <2>a. r \in Running /\ Goto(r, "tools")
      BY <1>8 DEF ModelCalls, Running, Ended
    <2>b. \A q \in Requests : q = r \/ pc[q] \in Ended \cup {"idle"}
      BY <1>0, <2>a, Alone
    <2>c. \A q \in Requests : pc'[q] = IF q = r THEN "tools" ELSE pc[q]
      BY <1>0, <2>a, Going
    <2>1. \A q \in Requests :
            pc'[q] \notin {"context", "inserting", "updating", "loading"}
      BY <2>b, <2>c DEF Ended
    <2> QED BY <2>1 DEF AnswerFits
  <1>9. ASSUME NEW r \in Requests, ModelEnds(r) PROVE AnswerFits'
    BY <1>0, <1>9 DEF ModelEnds, Goto
  <1>10. ASSUME NEW r \in Requests, StepDone(r) PROVE AnswerFits'
    BY <1>0, <1>10 DEF StepDone, NoThread, Goto
  <1>11. ASSUME NEW r \in Requests, StepInterrupted(r) PROVE AnswerFits'
    BY <1>0, <1>11 DEF StepInterrupted, Goto
  <1>12. ASSUME NEW r \in Requests, NEW w \in Writes, WriteRefused(r, w)
       PROVE AnswerFits'
    <2> SUFFICES ASSUME ~crossed PROVE AnswerFits'
      BY <1>12 DEF WriteRefused, AnswerFits
    <2>a. \A q \in Requests : q = r \/ pc[q] \in Ended \cup {"idle"}
      <3>1. r \in Running
        BY <1>12 DEF WriteRefused, Running, Ended
      <3> QED BY <1>0, <3>1, Alone
    <2>1. \A q \in Requests :
            pc'[q] \notin {"context", "inserting", "updating", "loading"}
      BY <1>0, <1>12, <2>a DEF WriteRefused, Goto, TypeOK, Ended
    <2> QED BY <2>1 DEF AnswerFits
  <1>13. ASSUME NEW r \in Requests, NEW w \in Writes, WriteChecked(r, w)
       PROVE AnswerFits'
    BY <1>0, <1>13 DEF WriteChecked
  <1>14. ASSUME NEW r \in Requests, NEW w \in Writes, WriteAsks(r, w)
       PROVE AnswerFits'
    <2> SUFFICES ASSUME ~crossed PROVE AnswerFits'
      BY <1>14 DEF WriteAsks, AnswerFits
    <2>a. \A q \in Requests : q = r \/ pc[q] \in Ended \cup {"idle"}
      <3>1. r \in Running
        BY <1>14 DEF WriteAsks, Running, Ended
      <3> QED BY <1>0, <3>1, Alone
    <2>1. \A q \in Requests :
            pc'[q] \notin {"context", "inserting", "updating", "loading"}
      BY <1>0, <1>14, <2>a DEF WriteAsks, Goto, TypeOK, Ended
    <2> QED BY <2>1 DEF AnswerFits
  <1>15. ASSUME NEW r \in Requests, NEW w \in Writes, WriteCancelled(r, w)
       PROVE AnswerFits'
    <2> SUFFICES ASSUME ~crossed PROVE AnswerFits'
      BY <1>15 DEF WriteCancelled, AnswerFits
    <2>a. \A q \in Requests : q = r \/ pc[q] \in Ended \cup {"idle"}
      <3>1. r \in Running
        BY <1>15 DEF WriteCancelled, Running, Ended
      <3> QED BY <1>0, <3>1, Alone
    <2>1. \A q \in Requests :
            pc'[q] \notin {"context", "inserting", "updating", "loading"}
      BY <1>0, <1>15, <2>a DEF WriteCancelled, Goto, TypeOK, Ended
    <2> QED BY <2>1 DEF AnswerFits
  <1>16. ASSUME NEW r \in Requests, NEW w \in Writes, WriteCommit(r, w)
       PROVE AnswerFits'
    <2> SUFFICES ASSUME ~crossed PROVE AnswerFits'
      BY <1>16 DEF WriteCommit, AnswerFits
    <2>a. \A q \in Requests : q = r \/ pc[q] \in Ended \cup {"idle"}
      <3>1. r \in Running
        BY <1>16 DEF WriteCommit, Running, Ended
      <3> QED BY <1>0, <3>1, Alone
    <2>1. \A q \in Requests :
            pc'[q] \notin {"context", "inserting", "updating", "loading"}
      BY <1>0, <1>16, <2>a DEF WriteCommit, Goto, TypeOK, Ended
    <2> QED BY <2>1 DEF AnswerFits
  <1>17. ASSUME NEW r \in Requests, NEW w \in Writes, WriteAnswered(r, w)
       PROVE AnswerFits'
    <2> SUFFICES ASSUME ~crossed PROVE AnswerFits'
      BY <1>17 DEF WriteAnswered, AnswerFits
    <2>a. \A q \in Requests : q = r \/ pc[q] \in Ended \cup {"idle"}
      <3>1. r \in Running
        BY <1>17 DEF WriteAnswered, Running, Ended
      <3> QED BY <1>0, <3>1, Alone
    <2>1. \A q \in Requests :
            pc'[q] \notin {"context", "inserting", "updating", "loading"}
      BY <1>0, <1>17, <2>a DEF WriteAnswered, Goto, TypeOK, Ended
    <2> QED BY <2>1 DEF AnswerFits
  <1>18. ASSUME NEW r \in Requests, NEW c \in Searches, SearchBegins(r, c)
       PROVE AnswerFits'
    BY <1>0, <1>18 DEF SearchBegins
  <1>19. ASSUME NEW r \in Requests, NEW c \in Searches, SearchDone(r, c)
       PROVE AnswerFits'
    <2> SUFFICES ASSUME ~crossed PROVE AnswerFits'
      BY <1>19 DEF SearchDone, AnswerFits
    <2>a. \A q \in Requests : q = r \/ pc[q] \in Ended \cup {"idle"}
      <3>1. r \in Running
        BY <1>19 DEF SearchDone, Running, Ended
      <3> QED BY <1>0, <3>1, Alone
    <2>1. \A q \in Requests :
            pc'[q] \notin {"context", "inserting", "updating", "loading"}
      BY <1>0, <1>19, <2>a DEF SearchDone, Goto, TypeOK, Ended
    <2> QED BY <2>1 DEF AnswerFits
  <1>20. ASSUME NEW r \in Requests, NEW c \in Searches, SearchEmpty(r, c)
       PROVE AnswerFits'
    <2> SUFFICES ASSUME ~crossed PROVE AnswerFits'
      BY <1>20 DEF SearchEmpty, AnswerFits
    <2>a. \A q \in Requests : q = r \/ pc[q] \in Ended \cup {"idle"}
      <3>1. r \in Running
        BY <1>20 DEF SearchEmpty, Running, Ended
      <3> QED BY <1>0, <3>1, Alone
    <2>1. \A q \in Requests :
            pc'[q] \notin {"context", "inserting", "updating", "loading"}
      BY <1>0, <1>20, <2>a DEF SearchEmpty, Goto, TypeOK, Ended
    <2> QED BY <2>1 DEF AnswerFits
  <1>21. ASSUME NEW r \in Requests, NEW c \in Calls, ToolRaises(r, c)
       PROVE AnswerFits'
    BY <1>0, <1>21 DEF ToolRaises, Goto
  <1>22. ASSUME NEW r \in Requests, NEW w \in Writes, SendCard(r, w) PROVE AnswerFits'
    BY <1>0, <1>22 DEF SendCard, End, EndOf, AgentGone, Goto
  <1>23. ASSUME NEW r \in Requests, StoreReply(r) PROVE AnswerFits'
    BY <1>0, <1>23 DEF StoreReply, End, EndOf, AgentGone, Goto
  <1>24. ASSUME NEW r \in Requests, RequestFails(r) PROVE AnswerFits'
    BY <1>0, <1>24 DEF RequestFails, End, EndOf, AgentGone, Goto
  <1>25. ASSUME NEW r \in Requests, ClientLeaves(r) PROVE AnswerFits'
    BY <1>0, <1>25 DEF ClientLeaves, End, EndOf, AgentGone, Goto
  <1>26. CASE Restart
    BY <1>0, <1>26 DEF Restart, NoThread
  <1>27. CASE DeleteSession
    BY <1>0, <1>27 DEF DeleteSession
  <1>28. ASSUME NEW w \in Writes, DeleteElsewhere(w) PROVE AnswerFits'
    BY <1>0, <1>28 DEF DeleteElsewhere
  <1>29. CASE UNCHANGED vars
    BY <1>0, <1>29
  <1> QED BY <1>1, <1>2, <1>3, <1>4, <1>5, <1>6, <1>7, <1>8, <1>9, <1>10, <1>11, <1>12,
    <1>13, <1>14, <1>15, <1>16, <1>17, <1>18, <1>19, <1>20, <1>21, <1>22, <1>23, <1>24,
    <1>25, <1>26, <1>27, <1>28, <1>29 DEF Next, Progress, Tool

\* A decision is for what the card shows.
LEMMA DecidedFitsStep == OrderInv /\ [Next]_vars => DecidedFits'
  <1> SUFFICES ASSUME OrderInv /\ [Next]_vars PROVE DecidedFits'
    OBVIOUS
  <1> USE DEF vars, agentVars, contextVars, TypeOK, CardsFit, OneRuns, AnswerFits,
              DecidedFits, Waits, Running, Ended, EarlyHaveNotRun, CallsHaveRuns
  <1>0. TypeOK /\ CardsFit /\ OneRuns /\ AnswerFits /\ DecidedFits
    BY DEF OrderInv, IInv
  <1>a. EarlyHaveNotRun /\ CallsHaveRuns
    BY DEF OrderInv, IInv
  <1>1. ASSUME NEW r \in Requests, SendMessage(r) PROVE DecidedFits'
    BY <1>0, <1>a, <1>1 DEF SendMessage, Send, Goto
  <1>2. ASSUME NEW r \in Requests, NEW asked \in Requests,
              NEW choice \in {"confirm", "cancel"}, Answer(r, asked, choice)
       PROVE DecidedFits'
    BY <1>0, <1>a, <1>2 DEF Answer, Send, Goto
  <1>3. ASSUME NEW r \in Requests, ContextFound(r) PROVE DecidedFits'
    <2>1. r \in Running /\ \E step : Goto(r, step)
      BY <1>3 DEF ContextFound, Running, Ended
    <2>2. \A q \in Requests : pc[q] \in Ended => pc'[q] = pc[q]
      BY <1>0, <2>1, Going
    <2>3. UNCHANGED <<crossed, decided, base, answers, card>>
      BY <1>3 DEF ContextFound
    <2> QED BY <1>0, <2>2, <2>3 DEF DecidedFits
  <1>4. ASSUME NEW r \in Requests, ContextMissing(r) PROVE DecidedFits'
    BY <1>0, <1>a, <1>4 DEF ContextMissing, Goto
  <1>5. ASSUME NEW r \in Requests, ContextFlush(r) PROVE DecidedFits'
    <2>1. r \in Running /\ \E step : Goto(r, step)
      BY <1>5 DEF ContextFlush, Running, Ended
    <2>2. \A q \in Requests : pc[q] \in Ended => pc'[q] = pc[q]
      BY <1>0, <2>1, Going
    <2>3. UNCHANGED <<crossed, decided, base, answers, card>>
      BY <1>5 DEF ContextFlush
    <2> QED BY <1>0, <2>2, <2>3 DEF DecidedFits
  <1>6. ASSUME NEW r \in Requests, AgentMessage(r) PROVE DecidedFits'
    <2>1. r \in Running /\ \E step : Goto(r, step)
      BY <1>6 DEF AgentMessage, Running, Ended
    <2>2. \A q \in Requests : pc[q] \in Ended => pc'[q] = pc[q]
      BY <1>0, <2>1, Going
    <2>3. UNCHANGED <<crossed, decided, base, answers, card>>
      BY <1>6 DEF AgentMessage
    <2> QED BY <1>0, <2>2, <2>3 DEF DecidedFits
  <1>7. ASSUME NEW r \in Requests, AgentResume(r) PROVE DecidedFits'
    <2> SUFFICES ASSUME ~crossed, NEW q \in Requests, decided'[q] # {}
                 PROVE  /\ answers[q] # None /\ base'[q] \in Requests
                        /\ pc'[base'[q]] \in Ended
                        /\ \A w \in decided'[q] : w.target \in card[answers[q]].targets
      BY <1>7 DEF AgentResume, DecidedFits
    <2>1. r \in Running /\ \E step : Goto(r, step)
      BY <1>7 DEF AgentResume, Running, Ended
    <2>2. \A p \in Requests : pc[p] \in Ended => pc'[p] = pc[p]
      BY <1>0, <2>1, Going
    <2>3. CASE q = r /\ thread.phase = "calling"
      <3>1. PICK calls \in SUBSET (thread.open \cap Writes) :
              /\ calls = thread.asking \/ thread.asking = {}
              /\ decided' = [decided EXCEPT ![r] = calls]
        BY <1>7, <2>3 DEF AgentResume
      <3>2. answers[r] # None /\ Waits(answers[r])
        BY <1>0, <1>7 DEF AgentResume, AnswerFits
      <3>3. /\ decided'[r] = thread.asking
            /\ \A w \in thread.asking : w.target \in card[answers[r]].targets
        BY <1>0, <2>3, <3>1, <3>2 DEF Waits, TypeOK
      <3>4. base'[r] = thread.run /\ thread.run \in Requests
        BY <1>0, <1>a, <1>7, <2>3 DEF AgentResume, TypeOK, CallsHaveRuns
      <3>5. thread.run # r /\ pc[thread.run] # "idle"
        BY <1>a, <1>7, <3>4 DEF AgentResume, EarlyHaveNotRun
      <3>6. pc[thread.run] \in Ended
        BY <1>0, <2>1, <3>4, <3>5, Alone
      <3> QED BY <2>2, <2>3, <3>2, <3>3, <3>4, <3>6
    <2>4. CASE ~(q = r /\ thread.phase = "calling")
      <3>1. decided'[q] = decided[q] /\ base'[q] = base[q]
        BY <1>0, <1>7, <2>4 DEF AgentResume, TypeOK
      <3> QED BY <1>0, <2>2, <3>1 DEF DecidedFits
    <2> QED BY <2>3, <2>4
  <1>8. ASSUME NEW r \in Requests, NEW calls \in (SUBSET Writes) \cup (SUBSET Searches),
              ModelCalls(r, calls) PROVE DecidedFits'
    <2> SUFFICES ASSUME ~crossed, NEW q \in Requests, decided'[q] # {}
                 PROVE  /\ answers[q] # None /\ base'[q] \in Requests
                        /\ pc'[base'[q]] \in Ended
                        /\ \A w \in decided'[q] : w.target \in card[answers[q]].targets
      BY <1>8 DEF ModelCalls, DecidedFits
    <2>1. r \in Running /\ Goto(r, "tools")
      BY <1>8 DEF ModelCalls, Running, Ended
    <2>2. \A p \in Requests : pc[p] \in Ended => pc'[p] = pc[p]
      BY <1>0, <2>1, Going
    <2>3. q # r
      BY <1>0, <1>8 DEF ModelCalls, TypeOK
    <2>4. decided'[q] = decided[q] /\ base'[q] = base[q]
      BY <1>0, <1>8, <2>3 DEF ModelCalls, TypeOK
    <2> QED BY <1>0, <2>2, <2>4 DEF DecidedFits
  <1>9. ASSUME NEW r \in Requests, ModelEnds(r) PROVE DecidedFits'
    BY <1>0, <1>a, <1>9 DEF ModelEnds, Goto
  <1>10. ASSUME NEW r \in Requests, StepDone(r) PROVE DecidedFits'
    BY <1>0, <1>a, <1>10 DEF StepDone, NoThread, Goto
  <1>11. ASSUME NEW r \in Requests, StepInterrupted(r) PROVE DecidedFits'
    <2>1. r \in Running /\ \E step : Goto(r, step)
      BY <1>11 DEF StepInterrupted, Running, Ended
    <2>2. \A q \in Requests : pc[q] \in Ended => pc'[q] = pc[q]
      BY <1>0, <2>1, Going
    <2>3. UNCHANGED <<crossed, decided, base, answers, card>>
      BY <1>11 DEF StepInterrupted
    <2> QED BY <1>0, <2>2, <2>3 DEF DecidedFits
  <1>12. ASSUME NEW r \in Requests, NEW w \in Writes, WriteRefused(r, w)
       PROVE DecidedFits'
    BY <1>0, <1>a, <1>12 DEF WriteRefused, ToolDone
  <1>13. ASSUME NEW r \in Requests, NEW w \in Writes, WriteChecked(r, w)
       PROVE DecidedFits'
    BY <1>0, <1>a, <1>13 DEF WriteChecked
  <1>14. ASSUME NEW r \in Requests, NEW w \in Writes, WriteAsks(r, w)
       PROVE DecidedFits'
    BY <1>0, <1>a, <1>14 DEF WriteAsks
  <1>15. ASSUME NEW r \in Requests, NEW w \in Writes, WriteCancelled(r, w)
       PROVE DecidedFits'
    BY <1>0, <1>a, <1>15 DEF WriteCancelled, ToolDone
  <1>16. ASSUME NEW r \in Requests, NEW w \in Writes, WriteCommit(r, w)
       PROVE DecidedFits'
    BY <1>0, <1>a, <1>16 DEF WriteCommit
  <1>17. ASSUME NEW r \in Requests, NEW w \in Writes, WriteAnswered(r, w)
       PROVE DecidedFits'
    BY <1>0, <1>a, <1>17 DEF WriteAnswered, ToolDone
  <1>18. ASSUME NEW r \in Requests, NEW c \in Searches, SearchBegins(r, c)
       PROVE DecidedFits'
    BY <1>0, <1>a, <1>18 DEF SearchBegins
  <1>19. ASSUME NEW r \in Requests, NEW c \in Searches, SearchDone(r, c)
       PROVE DecidedFits'
    BY <1>0, <1>a, <1>19 DEF SearchDone, ToolDone
  <1>20. ASSUME NEW r \in Requests, NEW c \in Searches, SearchEmpty(r, c)
       PROVE DecidedFits'
    BY <1>0, <1>a, <1>20 DEF SearchEmpty, ToolDone
  <1>21. ASSUME NEW r \in Requests, NEW c \in Calls, ToolRaises(r, c)
       PROVE DecidedFits'
    <2>1. r \in Running /\ \E step : Goto(r, step)
      BY <1>21 DEF ToolRaises, Running, Ended
    <2>2. \A q \in Requests : pc[q] \in Ended => pc'[q] = pc[q]
      BY <1>0, <2>1, Going
    <2>3. UNCHANGED <<crossed, decided, base, answers, card>>
      BY <1>21 DEF ToolRaises
    <2> QED BY <1>0, <2>2, <2>3 DEF DecidedFits
  <1>22. ASSUME NEW r \in Requests, NEW w \in Writes, SendCard(r, w)
       PROVE DecidedFits'
    BY <1>0, <1>a, <1>22 DEF SendCard, End, EndOf, AgentGone, Goto
  <1>23. ASSUME NEW r \in Requests, StoreReply(r) PROVE DecidedFits'
    BY <1>0, <1>a, <1>23 DEF StoreReply, End, EndOf, AgentGone, Goto
  <1>24. ASSUME NEW r \in Requests, RequestFails(r) PROVE DecidedFits'
    BY <1>0, <1>a, <1>24 DEF RequestFails, End, EndOf, AgentGone, Goto
  <1>25. ASSUME NEW r \in Requests, ClientLeaves(r) PROVE DecidedFits'
    BY <1>0, <1>a, <1>25 DEF ClientLeaves, End, EndOf, AgentGone, Goto
  <1>26. CASE Restart
    BY <1>0, <1>a, <1>26 DEF Restart, NoThread
  <1>27. CASE DeleteSession
    BY <1>0, <1>a, <1>27 DEF DeleteSession
  <1>28. ASSUME NEW w \in Writes, DeleteElsewhere(w) PROVE DecidedFits'
    BY <1>0, <1>a, <1>28 DEF DeleteElsewhere
  <1>29. CASE UNCHANGED vars
    BY <1>0, <1>a, <1>29
  <1> QED BY <1>1, <1>2, <1>3, <1>4, <1>5, <1>6, <1>7, <1>8, <1>9, <1>10, <1>11, <1>12,
    <1>13, <1>14, <1>15, <1>16, <1>17, <1>18, <1>19, <1>20, <1>21, <1>22, <1>23, <1>24,
    <1>25, <1>26, <1>27, <1>28, <1>29 DEF Next, Progress, Tool

\* What is executed is on the card.
LEMMA ExecutedStep == OrderInv /\ [Next]_vars => ExecutedFits'
  <1> SUFFICES ASSUME OrderInv /\ [Next]_vars PROVE ExecutedFits'
    OBVIOUS
  <1> USE DEF vars, agentVars, contextVars, TypeOK, CardsFit, DecidedFits,
              ExecutedFits, WritersWereSent, Ended
  <1>0. TypeOK /\ CardsFit /\ DecidedFits /\ ExecutedFits /\ WritersWereSent
    BY DEF OrderInv, IInv
  <1>1. ASSUME NEW r \in Requests, SendMessage(r) PROVE ExecutedFits'
    BY <1>0, <1>1 DEF SendMessage, Send, Goto
  <1>2. ASSUME NEW r \in Requests, NEW asked \in Requests,
              NEW choice \in {"confirm", "cancel"}, Answer(r, asked, choice)
       PROVE ExecutedFits'
    BY <1>0, <1>2 DEF Answer, Send, Goto
  <1>3. ASSUME NEW r \in Requests, ContextFound(r) PROVE ExecutedFits'
    BY <1>0, <1>3 DEF ContextFound, Goto
  <1>4. ASSUME NEW r \in Requests, ContextMissing(r) PROVE ExecutedFits'
    BY <1>0, <1>4 DEF ContextMissing, Goto
  <1>5. ASSUME NEW r \in Requests, ContextFlush(r) PROVE ExecutedFits'
    <2>1. r \in Running /\ \E step : Goto(r, step)
      BY <1>5 DEF ContextFlush, Running, Ended
    <2>2. \A q \in Requests : pc[q] \in Ended => pc'[q] = pc[q]
      BY <1>0, <2>1, Going
    <2>3. UNCHANGED <<crossed, executed, answers, card>>
      BY <1>5 DEF ContextFlush
    <2>4. \A e \in executed : e.proposed \in Requests
      BY <1>0 DEF TypeOK
    <2> QED BY <1>0, <2>2, <2>3, <2>4 DEF ExecutedFits
  <1>6. ASSUME NEW r \in Requests, AgentMessage(r) PROVE ExecutedFits'
    BY <1>0, <1>6 DEF AgentMessage, Goto
  <1>7. ASSUME NEW r \in Requests, AgentResume(r) PROVE ExecutedFits'
    BY <1>0, <1>7 DEF AgentResume, Goto
  <1>8. ASSUME NEW r \in Requests, NEW calls \in (SUBSET Writes) \cup (SUBSET Searches),
              ModelCalls(r, calls) PROVE ExecutedFits'
    BY <1>0, <1>8 DEF ModelCalls, Goto
  <1>9. ASSUME NEW r \in Requests, ModelEnds(r) PROVE ExecutedFits'
    BY <1>0, <1>9 DEF ModelEnds, Goto
  <1>10. ASSUME NEW r \in Requests, StepDone(r) PROVE ExecutedFits'
    BY <1>0, <1>10 DEF StepDone, NoThread, Goto
  <1>11. ASSUME NEW r \in Requests, StepInterrupted(r) PROVE ExecutedFits'
    BY <1>0, <1>11 DEF StepInterrupted, Goto
  <1>12. ASSUME NEW r \in Requests, NEW w \in Writes, WriteRefused(r, w)
       PROVE ExecutedFits'
    BY <1>0, <1>12 DEF WriteRefused, ToolDone
  <1>13. ASSUME NEW r \in Requests, NEW w \in Writes, WriteChecked(r, w)
       PROVE ExecutedFits'
    BY <1>0, <1>13 DEF WriteChecked
  <1>14. ASSUME NEW r \in Requests, NEW w \in Writes, WriteAsks(r, w)
       PROVE ExecutedFits'
    BY <1>0, <1>14 DEF WriteAsks
  <1>15. ASSUME NEW r \in Requests, NEW w \in Writes, WriteCancelled(r, w)
       PROVE ExecutedFits'
    BY <1>0, <1>15 DEF WriteCancelled, ToolDone
  <1>16. ASSUME NEW r \in Requests, NEW w \in Writes, WriteCommit(r, w)
       PROVE ExecutedFits'
    BY <1>0, <1>16 DEF WriteCommit
  <1>17. ASSUME NEW r \in Requests, NEW w \in Writes, WriteAnswered(r, w)
       PROVE ExecutedFits'
    BY <1>0, <1>17 DEF WriteAnswered, ToolDone
  <1>18. ASSUME NEW r \in Requests, NEW c \in Searches, SearchBegins(r, c)
       PROVE ExecutedFits'
    BY <1>0, <1>18 DEF SearchBegins
  <1>19. ASSUME NEW r \in Requests, NEW c \in Searches, SearchDone(r, c)
       PROVE ExecutedFits'
    BY <1>0, <1>19 DEF SearchDone, ToolDone
  <1>20. ASSUME NEW r \in Requests, NEW c \in Searches, SearchEmpty(r, c)
       PROVE ExecutedFits'
    BY <1>0, <1>20 DEF SearchEmpty, ToolDone
  <1>21. ASSUME NEW r \in Requests, NEW c \in Calls, ToolRaises(r, c)
       PROVE ExecutedFits'
    BY <1>0, <1>21 DEF ToolRaises, Goto
  <1>22. ASSUME NEW r \in Requests, NEW w \in Writes, SendCard(r, w)
       PROVE ExecutedFits'
    <2>1. r \in Running /\ Goto(r, "done")
      BY <1>22 DEF SendCard, End, Running, Ended
    <2>2. \A q \in Requests : pc[q] \in Ended => pc'[q] = pc[q]
      BY <1>0, <2>1, Going
    <2>3. \A e \in executed : e.proposed \in Requests /\ e.by \in Requests
      BY <1>0 DEF TypeOK
    <2>4. \A q \in Requests : answers[q] # None => answers[q] \in Requests /\ answers[q] # r
      BY <1>0, <1>22 DEF SendCard, CardsFit, TypeOK, Ended
    <2>5. \A q \in Requests : q # r => card'[q] = card[q]
      BY <1>0, <1>22 DEF SendCard, TypeOK
    <2> QED BY <1>0, <1>22, <2>2, <2>3, <2>4, <2>5 DEF SendCard, ExecutedFits
  <1>23. ASSUME NEW r \in Requests, StoreReply(r) PROVE ExecutedFits'
    BY <1>0, <1>23 DEF StoreReply, End, EndOf, AgentGone, Goto
  <1>24. ASSUME NEW r \in Requests, RequestFails(r) PROVE ExecutedFits'
    BY <1>0, <1>24 DEF RequestFails, End, EndOf, AgentGone, Goto
  <1>25. ASSUME NEW r \in Requests, ClientLeaves(r) PROVE ExecutedFits'
    BY <1>0, <1>25 DEF ClientLeaves, End, EndOf, AgentGone, Goto
  <1>26. CASE Restart
    BY <1>0, <1>26 DEF Restart, NoThread
  <1>27. CASE DeleteSession
    BY <1>0, <1>27 DEF DeleteSession
  <1>28. ASSUME NEW w \in Writes, DeleteElsewhere(w) PROVE ExecutedFits'
    BY <1>0, <1>28 DEF DeleteElsewhere
  <1>29. CASE UNCHANGED vars
    BY <1>0, <1>29
  <1> QED BY <1>1, <1>2, <1>3, <1>4, <1>5, <1>6, <1>7, <1>8, <1>9, <1>10, <1>11, <1>12,
    <1>13, <1>14, <1>15, <1>16, <1>17, <1>18, <1>19, <1>20, <1>21, <1>22, <1>23, <1>24,
    <1>25, <1>26, <1>27, <1>28, <1>29 DEF Next, Progress, Tool

\* A call that has been executed does not come before its execution again.
LEMMA CallsStep == OrderInv /\ [Next]_vars => CallsFit'
  <1> SUFFICES ASSUME OrderInv /\ [Next]_vars PROVE CallsFit'
    OBVIOUS
  <1> USE DEF vars, agentVars, contextVars, TypeOK, CallsFit, AnswerFits,
              ExecutedFits, Waits, Ended
  <1>0. TypeOK /\ OneRuns /\ CallsFit /\ AnswerFits /\ ExecutedFits
    BY DEF OrderInv, IInv
  <1>1. ASSUME NEW r \in Requests, SendMessage(r) PROVE CallsFit'
    BY <1>0, <1>1 DEF SendMessage, Send, Goto
  <1>2. ASSUME NEW r \in Requests, NEW asked \in Requests,
              NEW choice \in {"confirm", "cancel"}, Answer(r, asked, choice)
       PROVE CallsFit'
    BY <1>0, <1>2 DEF Answer, Send, Goto
  <1>3. ASSUME NEW r \in Requests, ContextFound(r) PROVE CallsFit'
    BY <1>0, <1>3 DEF ContextFound, Goto
  <1>4. ASSUME NEW r \in Requests, ContextMissing(r) PROVE CallsFit'
    BY <1>0, <1>4 DEF ContextMissing, Goto
  <1>5. ASSUME NEW r \in Requests, ContextFlush(r) PROVE CallsFit'
    BY <1>0, <1>5 DEF ContextFlush, Goto
  <1>6. ASSUME NEW r \in Requests, AgentMessage(r) PROVE CallsFit'
    BY <1>0, <1>6 DEF AgentMessage, Goto
  <1>7. ASSUME NEW r \in Requests, AgentResume(r) PROVE CallsFit'
    <2> SUFFICES ASSUME ~crossed, NEW q \in Requests, NEW e \in executed,
                        pc'[q] = "tools", e.proposed = base'[q]
                 PROVE  tool'[q][e.write] \in {"written", "done"}
      BY <1>7 DEF AgentResume, CallsFit
    <2>1. CASE q = r
      <3>1. thread.phase = "calling" /\ base'[r] = thread.run
        BY <1>0, <1>7, <2>1 DEF AgentResume, Goto, TypeOK
      <3>2. Waits(answers[r])
        BY <1>0, <1>7 DEF AgentResume, AnswerFits
      <3> QED BY <2>1, <3>1, <3>2 DEF Waits
    <2>2. CASE q # r
      <3>1. pc'[q] = pc[q] /\ tool'[q] = tool[q] /\ base'[q] = base[q]
        BY <1>0, <1>7, <2>2 DEF AgentResume, Goto, TypeOK
      <3> QED BY <1>0, <3>1 DEF CallsFit
    <2> QED BY <2>1, <2>2
  <1>8. ASSUME NEW r \in Requests, NEW calls \in (SUBSET Writes) \cup (SUBSET Searches),
              ModelCalls(r, calls) PROVE CallsFit'
    BY <1>0, <1>8 DEF ModelCalls, Goto
  <1>9. ASSUME NEW r \in Requests, ModelEnds(r) PROVE CallsFit'
    BY <1>0, <1>9 DEF ModelEnds, Goto
  <1>10. ASSUME NEW r \in Requests, StepDone(r) PROVE CallsFit'
    BY <1>0, <1>10 DEF StepDone, NoThread, Goto
  <1>11. ASSUME NEW r \in Requests, StepInterrupted(r) PROVE CallsFit'
    BY <1>0, <1>11 DEF StepInterrupted, Goto
  <1>12. ASSUME NEW r \in Requests, NEW w \in Writes, WriteRefused(r, w)
       PROVE CallsFit'
    <2>1. w \in Calls /\ ToolGoto(r, w, "done") /\ tool[r][w] = "called"
      BY <1>12 DEF WriteRefused, ToolDone, Calls
    <2>2. \A q \in Requests, d \in Calls :
            tool'[q][d] = IF q = r /\ d = w THEN "done" ELSE tool[q][d]
      BY <1>0, <2>1, Calling
    <2>3. UNCHANGED <<crossed, executed, pc, base>>
      BY <1>12 DEF WriteRefused
    <2>4. \A e \in executed : e.write \in Calls
      BY <1>0 DEF TypeOK, Calls
    <2> QED BY <1>0, <2>1, <2>2, <2>3, <2>4 DEF CallsFit
  <1>13. ASSUME NEW r \in Requests, NEW w \in Writes, WriteChecked(r, w)
       PROVE CallsFit'
    <2>1. w \in Calls /\ ToolGoto(r, w, "checked") /\ tool[r][w] = "called"
      BY <1>13 DEF WriteChecked, Calls
    <2>2. \A q \in Requests, d \in Calls :
            tool'[q][d] = IF q = r /\ d = w THEN "checked" ELSE tool[q][d]
      BY <1>0, <2>1, Calling
    <2>3. UNCHANGED <<crossed, executed, pc, base>>
      BY <1>13 DEF WriteChecked
    <2>4. \A e \in executed : e.write \in Calls
      BY <1>0 DEF TypeOK, Calls
    <2> QED BY <1>0, <2>1, <2>2, <2>3, <2>4 DEF CallsFit
  <1>14. ASSUME NEW r \in Requests, NEW w \in Writes, WriteAsks(r, w) PROVE CallsFit'
    <2>1. w \in Calls /\ ToolGoto(r, w, "asking") /\ tool[r][w] = "checked"
      BY <1>14 DEF WriteAsks, Calls
    <2>2. \A q \in Requests, d \in Calls :
            tool'[q][d] = IF q = r /\ d = w THEN "asking" ELSE tool[q][d]
      BY <1>0, <2>1, Calling
    <2>3. UNCHANGED <<crossed, executed, pc, base>>
      BY <1>14 DEF WriteAsks
    <2>4. \A e \in executed : e.write \in Calls
      BY <1>0 DEF TypeOK, Calls
    <2> QED BY <1>0, <2>1, <2>2, <2>3, <2>4 DEF CallsFit
  <1>15. ASSUME NEW r \in Requests, NEW w \in Writes, WriteCancelled(r, w)
       PROVE CallsFit'
    <2>1. w \in Calls /\ ToolGoto(r, w, "done") /\ tool[r][w] = "checked"
      BY <1>15 DEF WriteCancelled, ToolDone, Calls
    <2>2. \A q \in Requests, d \in Calls :
            tool'[q][d] = IF q = r /\ d = w THEN "done" ELSE tool[q][d]
      BY <1>0, <2>1, Calling
    <2>3. UNCHANGED <<crossed, executed, pc, base>>
      BY <1>15 DEF WriteCancelled
    <2>4. \A e \in executed : e.write \in Calls
      BY <1>0 DEF TypeOK, Calls
    <2> QED BY <1>0, <2>1, <2>2, <2>3, <2>4 DEF CallsFit
  <1>16. ASSUME NEW r \in Requests, NEW w \in Writes, WriteCommit(r, w)
       PROVE CallsFit'
    <2> SUFFICES ASSUME ~crossed PROVE CallsFit'
      BY <1>16 DEF WriteCommit, CallsFit
    <2>1. w \in Calls /\ ToolGoto(r, w, "written") /\ tool[r][w] = "checked"
      BY <1>16 DEF WriteCommit, Calls
    <2>2. \A q \in Requests, d \in Calls :
            tool'[q][d] = IF q = r /\ d = w THEN "written" ELSE tool[q][d]
      BY <1>0, <2>1, Calling
    <2>3. UNCHANGED <<crossed, pc, base>>
          /\ executed' = executed \cup {[write |-> w, by |-> r, proposed |-> base[r]]}
      BY <1>16 DEF WriteCommit
    <2>4. \A e \in executed : e.write \in Calls
      BY <1>0 DEF TypeOK, Calls
    <2>5. \A q \in Requests : pc[q] = "tools" => q = r
      <3>1. r \in Running
        BY <1>16 DEF WriteCommit, Running, Ended
      <3> QED BY <1>0, <3>1, Alone DEF Ended
    <2> SUFFICES ASSUME NEW e \in executed', pc[r] = "tools", e.proposed = base[r]
                 PROVE  tool'[r][e.write] \in {"written", "done"}
      BY <2>3, <2>5 DEF CallsFit
    <2>6. CASE e \in executed
      BY <1>0, <2>1, <2>2, <2>4, <2>6 DEF CallsFit
    <2>7. CASE e = [write |-> w, by |-> r, proposed |-> base[r]]
      <3>1. e.write = w
        BY <2>7
      <3> QED BY <2>1, <2>2, <3>1
    <2> QED BY <2>3, <2>6, <2>7
  <1>17. ASSUME NEW r \in Requests, NEW w \in Writes, WriteAnswered(r, w)
       PROVE CallsFit'
    <2>1. w \in Calls /\ ToolGoto(r, w, "done") /\ tool[r][w] = "written"
      BY <1>17 DEF WriteAnswered, ToolDone, Calls
    <2>2. \A q \in Requests, d \in Calls :
            tool'[q][d] = IF q = r /\ d = w THEN "done" ELSE tool[q][d]
      BY <1>0, <2>1, Calling
    <2>3. UNCHANGED <<crossed, executed, pc, base>>
      BY <1>17 DEF WriteAnswered
    <2>4. \A e \in executed : e.write \in Calls
      BY <1>0 DEF TypeOK, Calls
    <2> QED BY <1>0, <2>1, <2>2, <2>3, <2>4 DEF CallsFit
  <1>18. ASSUME NEW r \in Requests, NEW c \in Searches, SearchBegins(r, c)
       PROVE CallsFit'
    <2>1. c \in Calls /\ ToolGoto(r, c, "checked") /\ tool[r][c] = "called"
      BY <1>18 DEF SearchBegins, Calls
    <2>2. \A q \in Requests, d \in Calls :
            tool'[q][d] = IF q = r /\ d = c THEN "checked" ELSE tool[q][d]
      BY <1>0, <2>1, Calling
    <2>3. UNCHANGED <<crossed, executed, pc, base>>
      BY <1>18 DEF SearchBegins
    <2>4. \A e \in executed : e.write \in Calls
      BY <1>0 DEF TypeOK, Calls
    <2> QED BY <1>0, <2>1, <2>2, <2>3, <2>4 DEF CallsFit
  <1>19. ASSUME NEW r \in Requests, NEW c \in Searches, SearchDone(r, c)
       PROVE CallsFit'
    <2>1. c \in Calls /\ ToolGoto(r, c, "done") /\ tool[r][c] = "checked"
      BY <1>19 DEF SearchDone, ToolDone, Calls
    <2>2. \A q \in Requests, d \in Calls :
            tool'[q][d] = IF q = r /\ d = c THEN "done" ELSE tool[q][d]
      BY <1>0, <2>1, Calling
    <2>3. UNCHANGED <<crossed, executed, pc, base>>
      BY <1>19 DEF SearchDone
    <2>4. \A e \in executed : e.write \in Calls
      BY <1>0 DEF TypeOK, Calls
    <2> QED BY <1>0, <2>1, <2>2, <2>3, <2>4 DEF CallsFit
  <1>20. ASSUME NEW r \in Requests, NEW c \in Searches, SearchEmpty(r, c)
       PROVE CallsFit'
    <2>1. c \in Calls /\ ToolGoto(r, c, "done") /\ tool[r][c] = "called"
      BY <1>20 DEF SearchEmpty, ToolDone, Calls
    <2>2. \A q \in Requests, d \in Calls :
            tool'[q][d] = IF q = r /\ d = c THEN "done" ELSE tool[q][d]
      BY <1>0, <2>1, Calling
    <2>3. UNCHANGED <<crossed, executed, pc, base>>
      BY <1>20 DEF SearchEmpty
    <2>4. \A e \in executed : e.write \in Calls
      BY <1>0 DEF TypeOK, Calls
    <2> QED BY <1>0, <2>1, <2>2, <2>3, <2>4 DEF CallsFit
  <1>21. ASSUME NEW r \in Requests, NEW c \in Calls, ToolRaises(r, c) PROVE CallsFit'
    BY <1>0, <1>21 DEF ToolRaises, Goto
  <1>22. ASSUME NEW r \in Requests, NEW w \in Writes, SendCard(r, w) PROVE CallsFit'
    BY <1>0, <1>22 DEF SendCard, End, EndOf, AgentGone, Goto
  <1>23. ASSUME NEW r \in Requests, StoreReply(r) PROVE CallsFit'
    BY <1>0, <1>23 DEF StoreReply, End, EndOf, AgentGone, Goto
  <1>24. ASSUME NEW r \in Requests, RequestFails(r) PROVE CallsFit'
    BY <1>0, <1>24 DEF RequestFails, End, EndOf, AgentGone, Goto
  <1>25. ASSUME NEW r \in Requests, ClientLeaves(r) PROVE CallsFit'
    BY <1>0, <1>25 DEF ClientLeaves, End, EndOf, AgentGone, Goto
  <1>26. CASE Restart
    BY <1>0, <1>26 DEF Restart, NoThread
  <1>27. CASE DeleteSession
    BY <1>0, <1>27 DEF DeleteSession
  <1>28. ASSUME NEW w \in Writes, DeleteElsewhere(w) PROVE CallsFit'
    BY <1>0, <1>28 DEF DeleteElsewhere
  <1>29. CASE UNCHANGED vars
    BY <1>0, <1>29
  <1> QED BY <1>1, <1>2, <1>3, <1>4, <1>5, <1>6, <1>7, <1>8, <1>9, <1>10, <1>11, <1>12,
    <1>13, <1>14, <1>15, <1>16, <1>17, <1>18, <1>19, <1>20, <1>21, <1>22, <1>23, <1>24,
    <1>25, <1>26, <1>27, <1>28, <1>29 DEF Next, Progress, Tool

\* No call is executed twice.
LEMMA OnceStep == OrderInv /\ [Next]_vars => ExecutedOnce'
  <1> SUFFICES ASSUME OrderInv /\ [Next]_vars PROVE ExecutedOnce'
    OBVIOUS
  <1> USE DEF vars, agentVars, contextVars, TypeOK, CallsFit, ExecutedOnce
  <1>0. TypeOK /\ CallsFit /\ ExecutedOnce
    BY DEF OrderInv, IInv
  <1>1. ASSUME NEW r \in Requests, SendMessage(r) PROVE ExecutedOnce'
    BY <1>0, <1>1 DEF SendMessage, Send, Goto
  <1>2. ASSUME NEW r \in Requests, NEW asked \in Requests,
              NEW choice \in {"confirm", "cancel"}, Answer(r, asked, choice)
       PROVE ExecutedOnce'
    BY <1>0, <1>2 DEF Answer, Send, Goto
  <1>3. ASSUME NEW r \in Requests, ContextFound(r) PROVE ExecutedOnce'
    BY <1>0, <1>3 DEF ContextFound, Goto
  <1>4. ASSUME NEW r \in Requests, ContextMissing(r) PROVE ExecutedOnce'
    BY <1>0, <1>4 DEF ContextMissing, Goto
  <1>5. ASSUME NEW r \in Requests, ContextFlush(r) PROVE ExecutedOnce'
    BY <1>0, <1>5 DEF ContextFlush, Goto
  <1>6. ASSUME NEW r \in Requests, AgentMessage(r) PROVE ExecutedOnce'
    BY <1>0, <1>6 DEF AgentMessage, Goto
  <1>7. ASSUME NEW r \in Requests, AgentResume(r) PROVE ExecutedOnce'
    BY <1>0, <1>7 DEF AgentResume, Goto
  <1>8. ASSUME NEW r \in Requests, NEW calls \in (SUBSET Writes) \cup (SUBSET Searches),
              ModelCalls(r, calls) PROVE ExecutedOnce'
    BY <1>0, <1>8 DEF ModelCalls, Goto
  <1>9. ASSUME NEW r \in Requests, ModelEnds(r) PROVE ExecutedOnce'
    BY <1>0, <1>9 DEF ModelEnds, Goto
  <1>10. ASSUME NEW r \in Requests, StepDone(r) PROVE ExecutedOnce'
    BY <1>0, <1>10 DEF StepDone, NoThread, Goto
  <1>11. ASSUME NEW r \in Requests, StepInterrupted(r) PROVE ExecutedOnce'
    BY <1>0, <1>11 DEF StepInterrupted, Goto
  <1>12. ASSUME NEW r \in Requests, NEW w \in Writes, WriteRefused(r, w)
       PROVE ExecutedOnce'
    BY <1>0, <1>12 DEF WriteRefused, ToolDone
  <1>13. ASSUME NEW r \in Requests, NEW w \in Writes, WriteChecked(r, w)
       PROVE ExecutedOnce'
    BY <1>0, <1>13 DEF WriteChecked
  <1>14. ASSUME NEW r \in Requests, NEW w \in Writes, WriteAsks(r, w)
       PROVE ExecutedOnce'
    BY <1>0, <1>14 DEF WriteAsks
  <1>15. ASSUME NEW r \in Requests, NEW w \in Writes, WriteCancelled(r, w)
       PROVE ExecutedOnce'
    BY <1>0, <1>15 DEF WriteCancelled, ToolDone
  <1>16. ASSUME NEW r \in Requests, NEW w \in Writes, WriteCommit(r, w)
       PROVE ExecutedOnce'
    <2> SUFFICES ASSUME ~crossed PROVE ExecutedOnce'
      BY <1>16 DEF WriteCommit, ExecutedOnce
    <2> DEFINE new == [write |-> w, by |-> r, proposed |-> base[r]]
    <2>1. executed' = executed \cup {new}
      BY <1>16 DEF WriteCommit
    <2>2. \A e \in executed : ~(e.write = w /\ e.proposed = base[r])
      BY <1>0, <1>16 DEF WriteCommit, CallsFit
    <2>3. new.write = w /\ new.proposed = base[r]
      OBVIOUS
    <2> HIDE DEF new
    <2> QED BY <1>0, <2>1, <2>2, <2>3 DEF ExecutedOnce
  <1>17. ASSUME NEW r \in Requests, NEW w \in Writes, WriteAnswered(r, w)
       PROVE ExecutedOnce'
    BY <1>0, <1>17 DEF WriteAnswered, ToolDone
  <1>18. ASSUME NEW r \in Requests, NEW c \in Searches, SearchBegins(r, c)
       PROVE ExecutedOnce'
    BY <1>0, <1>18 DEF SearchBegins
  <1>19. ASSUME NEW r \in Requests, NEW c \in Searches, SearchDone(r, c)
       PROVE ExecutedOnce'
    BY <1>0, <1>19 DEF SearchDone, ToolDone
  <1>20. ASSUME NEW r \in Requests, NEW c \in Searches, SearchEmpty(r, c)
       PROVE ExecutedOnce'
    BY <1>0, <1>20 DEF SearchEmpty, ToolDone
  <1>21. ASSUME NEW r \in Requests, NEW c \in Calls, ToolRaises(r, c)
       PROVE ExecutedOnce'
    BY <1>0, <1>21 DEF ToolRaises, Goto
  <1>22. ASSUME NEW r \in Requests, NEW w \in Writes, SendCard(r, w)
       PROVE ExecutedOnce'
    BY <1>0, <1>22 DEF SendCard, End, EndOf, AgentGone, Goto
  <1>23. ASSUME NEW r \in Requests, StoreReply(r) PROVE ExecutedOnce'
    BY <1>0, <1>23 DEF StoreReply, End, EndOf, AgentGone, Goto
  <1>24. ASSUME NEW r \in Requests, RequestFails(r) PROVE ExecutedOnce'
    BY <1>0, <1>24 DEF RequestFails, End, EndOf, AgentGone, Goto
  <1>25. ASSUME NEW r \in Requests, ClientLeaves(r) PROVE ExecutedOnce'
    BY <1>0, <1>25 DEF ClientLeaves, End, EndOf, AgentGone, Goto
  <1>26. CASE Restart
    BY <1>0, <1>26 DEF Restart, NoThread
  <1>27. CASE DeleteSession
    BY <1>0, <1>27 DEF DeleteSession
  <1>28. ASSUME NEW w \in Writes, DeleteElsewhere(w) PROVE ExecutedOnce'
    BY <1>0, <1>28 DEF DeleteElsewhere
  <1>29. CASE UNCHANGED vars
    BY <1>0, <1>29
  <1> QED BY <1>1, <1>2, <1>3, <1>4, <1>5, <1>6, <1>7, <1>8, <1>9, <1>10, <1>11, <1>12,
    <1>13, <1>14, <1>15, <1>16, <1>17, <1>18, <1>19, <1>20, <1>21, <1>22, <1>23, <1>24,
    <1>25, <1>26, <1>27, <1>28, <1>29 DEF Next, Progress, Tool

\* Every step preserves this invariant.
LEMMA NextOrderInv == OrderInv /\ [Next]_vars => OrderInv'
  <1> SUFFICES ASSUME OrderInv /\ [Next]_vars PROVE OrderInv'
    OBVIOUS
  <1>1. IInv'
    BY NextIInv DEF OrderInv
  <1> QED BY <1>1, CardsStep, OneRunsStep, OpenStep, WorkStep, AnswerStep, DecidedFitsStep,
             ExecutedStep, CallsStep, OnceStep DEF OrderInv

\* Every reachable state satisfies it.
LEMMA Order == Spec => []OrderInv
  BY InitOrderInv, NextOrderInv, PTL DEF Spec

\* The card of ChatView and the facade's resume: without overlaps and restarts, a
\* confirmation executes only what concerns the targets of the card it answers.
THEOREM OnlyWhatTheCardShows == Spec => []AnswersItsCard
  <1>1. OrderInv => AnswersItsCard
    BY DEF OrderInv, ExecutedFits, AnswersItsCard
  <1> QED BY Order, <1>1, PTL

\* Calls that run again after an interrupt or a stream that was cut off: without
\* overlaps and restarts none is executed twice.
THEOREM NothingTwice == Spec => []ExecutedOnce
  <1>1. OrderInv => ExecutedOnce
    BY DEF OrderInv
  <1> QED BY Order, <1>1, PTL

\* From here on: how often a request searches.

\* A request completes no more searches than one model step has calls. (Once in a turn
\* is what tools.py tells the model: that is so for searches of different steps only.)
SearchesBounded == \A r \in Requests : searched[r] <= Cardinality(Searches)

Completed(r) == {c \in Searches : tool[r][c] = "done"}

\* While a search is under way, each search the request has completed is a call of its
\* step that is done.
SearchInv ==
  \A r \in Requests :
    /\ searched[r] <= Cardinality(Searches)
    /\ (\E c \in Searches : tool[r][c] = "checked")
         => searched[r] <= Cardinality(Completed(r))

LEMMA SearchCounts ==
  ASSUME NEW S \in SUBSET Searches
  PROVE  /\ IsFiniteSet(S) /\ Cardinality(S) \in Nat
         /\ Cardinality(S) <= Cardinality(Searches) /\ Cardinality(Searches) \in Nat
  BY AssistantAssumption, FS_Subset, FS_CardinalityType DEF AssistantAssumption

\* A step that leaves each request's searches, or drops them, preserves it.
LEMMA SearchKept ==
  ASSUME TypeOK, SearchInv,
         \A q \in Requests :
           /\ searched'[q] \in {searched[q], 0}
           /\ \/ \A d \in Searches : tool'[q][d] = tool[q][d]
              \/ \A d \in Searches : tool'[q][d] # "checked"
  PROVE  SearchInv'
  <1> SUFFICES ASSUME NEW q \in Requests
               PROVE  /\ searched'[q] <= Cardinality(Searches)
                      /\ (\E c \in Searches : tool'[q][c] = "checked")
                           => searched'[q] <= Cardinality(Completed(q)')
    BY DEF SearchInv
  <1>1. searched[q] \in Nat /\ searched[q] <= Cardinality(Searches)
    BY DEF TypeOK, SearchInv
  <1>2. Completed(q) \in SUBSET Searches /\ Completed(q)' \in SUBSET Searches
    BY DEF Completed
  <1>3. Cardinality(Searches) \in Nat /\ Cardinality(Completed(q)') \in Nat
    BY <1>2, SearchCounts
  <1>4. searched'[q] <= Cardinality(Searches)
    BY <1>1, <1>3
  <1>5. CASE \A d \in Searches : tool'[q][d] = tool[q][d]
    <2>1. Completed(q)' = Completed(q)
      BY <1>5 DEF Completed
    <2>2. (\E c \in Searches : tool'[q][c] = "checked")
            => searched[q] <= Cardinality(Completed(q)')
      BY <1>5, <2>1 DEF SearchInv
    <2>3. 0 <= Cardinality(Completed(q)')
      BY <1>3
    <2> QED BY <1>4, <2>2, <2>3
  <1>6. CASE \A d \in Searches : tool'[q][d] # "checked"
    BY <1>4, <1>6
  <1> QED BY <1>5, <1>6

LEMMA InitSearchInv == Init => SearchInv
  <1> SUFFICES ASSUME Init PROVE SearchInv
    OBVIOUS
  <1>1. \A r \in Requests : searched[r] = 0 /\ \A c \in Searches : tool[r][c] = "no"
    BY DEF Init, NoCalls, Calls
  <1>2. 0 <= Cardinality(Searches)
    <2>1. Cardinality(Searches) \in Nat
      BY SearchCounts
    <2> QED BY <2>1
  <1> QED BY <1>1, <1>2 DEF SearchInv

\* Every step preserves it.
LEMMA SearchStep == IInv /\ SearchInv /\ [Next]_vars => SearchInv'
  <1> SUFFICES ASSUME IInv, SearchInv, [Next]_vars PROVE SearchInv'
    OBVIOUS
  <1> USE DEF vars, agentVars, contextVars
  <1>0. TypeOK /\ SearchInv
    BY DEF IInv
  <1>s. Searches \subseteq Calls /\ Writes \subseteq Calls /\ Writes \cap Searches = {}
    BY AssistantAssumption DEF AssistantAssumption, Calls
  <1>1. ASSUME NEW r \in Requests, SendMessage(r) PROVE SearchInv'
    <2>1. \A q \in Requests :
            /\ searched'[q] \in {searched[q], 0}
            /\ \/ \A d \in Searches : tool'[q][d] = tool[q][d]
               \/ \A d \in Searches : tool'[q][d] # "checked"
      BY <1>0, <1>s, <1>1 DEF SendMessage, Send, Goto, TypeOK, NoCalls, Called
    <2> QED BY <1>0, <2>1, SearchKept
  <1>2. ASSUME NEW r \in Requests, NEW asked \in Requests,
              NEW choice \in {"confirm", "cancel"}, Answer(r, asked, choice)
       PROVE SearchInv'
    <2>1. \A q \in Requests :
            /\ searched'[q] \in {searched[q], 0}
            /\ \/ \A d \in Searches : tool'[q][d] = tool[q][d]
               \/ \A d \in Searches : tool'[q][d] # "checked"
      BY <1>0, <1>s, <1>2 DEF Answer, Send, Goto, TypeOK, NoCalls, Called
    <2> QED BY <1>0, <2>1, SearchKept
  <1>3. ASSUME NEW r \in Requests, ContextFound(r) PROVE SearchInv'
    <2>1. \A q \in Requests :
            /\ searched'[q] \in {searched[q], 0}
            /\ \/ \A d \in Searches : tool'[q][d] = tool[q][d]
               \/ \A d \in Searches : tool'[q][d] # "checked"
      BY <1>0, <1>s, <1>3 DEF ContextFound, Goto, TypeOK, NoCalls, Called
    <2> QED BY <1>0, <2>1, SearchKept
  <1>4. ASSUME NEW r \in Requests, ContextMissing(r) PROVE SearchInv'
    <2>1. \A q \in Requests :
            /\ searched'[q] \in {searched[q], 0}
            /\ \/ \A d \in Searches : tool'[q][d] = tool[q][d]
               \/ \A d \in Searches : tool'[q][d] # "checked"
      BY <1>0, <1>s, <1>4 DEF ContextMissing, Goto, TypeOK, NoCalls, Called
    <2> QED BY <1>0, <2>1, SearchKept
  <1>5. ASSUME NEW r \in Requests, ContextFlush(r) PROVE SearchInv'
    <2>1. \A q \in Requests :
            /\ searched'[q] \in {searched[q], 0}
            /\ \/ \A d \in Searches : tool'[q][d] = tool[q][d]
               \/ \A d \in Searches : tool'[q][d] # "checked"
      BY <1>0, <1>s, <1>5 DEF ContextFlush, Goto, TypeOK, NoCalls, Called
    <2> QED BY <1>0, <2>1, SearchKept
  <1>6. ASSUME NEW r \in Requests, AgentMessage(r) PROVE SearchInv'
    <2>1. \A q \in Requests :
            /\ searched'[q] \in {searched[q], 0}
            /\ \/ \A d \in Searches : tool'[q][d] = tool[q][d]
               \/ \A d \in Searches : tool'[q][d] # "checked"
      BY <1>0, <1>s, <1>6 DEF AgentMessage, Goto, TypeOK, NoCalls, Called
    <2> QED BY <1>0, <2>1, SearchKept
  <1>7. ASSUME NEW r \in Requests, AgentResume(r) PROVE SearchInv'
    <2>1. searched' = searched
      BY <1>7 DEF AgentResume
    <2>2. tool' = [tool EXCEPT ![r] = Called(thread.open)] \/ tool' = tool
      BY <1>7 DEF AgentResume
    <2>3. \A d \in Searches : Called(thread.open)[d] # "checked"
      BY <1>s DEF Called
    <2>4. \A q \in Requests :
            /\ searched'[q] \in {searched[q], 0}
            /\ \/ \A d \in Searches : tool'[q][d] = tool[q][d]
               \/ \A d \in Searches : tool'[q][d] # "checked"
      BY <1>0, <2>1, <2>2, <2>3 DEF TypeOK
    <2> QED BY <1>0, <2>4, SearchKept
  <1>8. ASSUME NEW r \in Requests, NEW calls \in (SUBSET Writes) \cup (SUBSET Searches),
              ModelCalls(r, calls) PROVE SearchInv'
    <2>1. \A q \in Requests :
            /\ searched'[q] \in {searched[q], 0}
            /\ \/ \A d \in Searches : tool'[q][d] = tool[q][d]
               \/ \A d \in Searches : tool'[q][d] # "checked"
      BY <1>0, <1>s, <1>8 DEF ModelCalls, Goto, TypeOK, NoCalls, Called
    <2> QED BY <1>0, <2>1, SearchKept
  <1>9. ASSUME NEW r \in Requests, ModelEnds(r) PROVE SearchInv'
    <2>1. \A q \in Requests :
            /\ searched'[q] \in {searched[q], 0}
            /\ \/ \A d \in Searches : tool'[q][d] = tool[q][d]
               \/ \A d \in Searches : tool'[q][d] # "checked"
      BY <1>0, <1>s, <1>9 DEF ModelEnds, Goto, TypeOK, NoCalls, Called
    <2> QED BY <1>0, <2>1, SearchKept
  <1>10. ASSUME NEW r \in Requests, StepDone(r) PROVE SearchInv'
    <2>1. \A q \in Requests :
            /\ searched'[q] \in {searched[q], 0}
            /\ \/ \A d \in Searches : tool'[q][d] = tool[q][d]
               \/ \A d \in Searches : tool'[q][d] # "checked"
      BY <1>0, <1>s, <1>10 DEF StepDone, NoThread, Goto, TypeOK, NoCalls, Called
    <2> QED BY <1>0, <2>1, SearchKept
  <1>11. ASSUME NEW r \in Requests, StepInterrupted(r) PROVE SearchInv'
    <2>1. \A q \in Requests :
            /\ searched'[q] \in {searched[q], 0}
            /\ \/ \A d \in Searches : tool'[q][d] = tool[q][d]
               \/ \A d \in Searches : tool'[q][d] # "checked"
      BY <1>0, <1>s, <1>11 DEF StepInterrupted, Goto, TypeOK, NoCalls, Called
    <2> QED BY <1>0, <2>1, SearchKept
  <1>12. ASSUME NEW r \in Requests, NEW w \in Writes, WriteRefused(r, w)
       PROVE SearchInv'
    <2>1. ToolGoto(r, w, "done") /\ searched' = searched
      BY <1>12 DEF WriteRefused, ToolDone
    <2>2. \A q \in Requests, d \in Searches : tool'[q][d] = tool[q][d]
      BY <1>0, <1>s, <2>1, Calling
    <2> QED BY <1>0, <2>1, <2>2, SearchKept
  <1>13. ASSUME NEW r \in Requests, NEW w \in Writes, WriteChecked(r, w)
       PROVE SearchInv'
    <2>1. ToolGoto(r, w, "checked") /\ searched' = searched
      BY <1>13 DEF WriteChecked
    <2>2. \A q \in Requests, d \in Searches : tool'[q][d] = tool[q][d]
      BY <1>0, <1>s, <2>1, Calling
    <2> QED BY <1>0, <2>1, <2>2, SearchKept
  <1>14. ASSUME NEW r \in Requests, NEW w \in Writes, WriteAsks(r, w) PROVE SearchInv'
    <2>1. ToolGoto(r, w, "asking") /\ searched' = searched
      BY <1>14 DEF WriteAsks
    <2>2. \A q \in Requests, d \in Searches : tool'[q][d] = tool[q][d]
      BY <1>0, <1>s, <2>1, Calling
    <2> QED BY <1>0, <2>1, <2>2, SearchKept
  <1>15. ASSUME NEW r \in Requests, NEW w \in Writes, WriteCancelled(r, w)
       PROVE SearchInv'
    <2>1. ToolGoto(r, w, "done") /\ searched' = searched
      BY <1>15 DEF WriteCancelled, ToolDone
    <2>2. \A q \in Requests, d \in Searches : tool'[q][d] = tool[q][d]
      BY <1>0, <1>s, <2>1, Calling
    <2> QED BY <1>0, <2>1, <2>2, SearchKept
  <1>16. ASSUME NEW r \in Requests, NEW w \in Writes, WriteCommit(r, w)
       PROVE SearchInv'
    <2>1. ToolGoto(r, w, "written") /\ searched' = searched
      BY <1>16 DEF WriteCommit
    <2>2. \A q \in Requests, d \in Searches : tool'[q][d] = tool[q][d]
      BY <1>0, <1>s, <2>1, Calling
    <2> QED BY <1>0, <2>1, <2>2, SearchKept
  <1>17. ASSUME NEW r \in Requests, NEW w \in Writes, WriteAnswered(r, w)
       PROVE SearchInv'
    <2>1. ToolGoto(r, w, "done") /\ searched' = searched
      BY <1>17 DEF WriteAnswered, ToolDone
    <2>2. \A q \in Requests, d \in Searches : tool'[q][d] = tool[q][d]
      BY <1>0, <1>s, <2>1, Calling
    <2> QED BY <1>0, <2>1, <2>2, SearchKept
  <1>18. ASSUME NEW r \in Requests, NEW c \in Searches, SearchBegins(r, c)
       PROVE SearchInv'
    <2>1. /\ ToolGoto(r, c, "checked") /\ searched' = searched /\ searched[r] = 0
          /\ tool[r][c] = "called"
      BY <1>18 DEF SearchBegins
    <2>2. \A q \in Requests, d \in Searches :
            tool'[q][d] = IF q = r /\ d = c THEN "checked" ELSE tool[q][d]
      BY <1>0, <1>s, <2>1, Calling
    <2> SUFFICES ASSUME NEW q \in Requests
                 PROVE  /\ searched'[q] <= Cardinality(Searches)
                        /\ (\E d \in Searches : tool'[q][d] = "checked")
                             => searched'[q] <= Cardinality(Completed(q)')
      BY DEF SearchInv
    <2>3. searched'[q] <= Cardinality(Searches)
      BY <1>0, <2>1 DEF SearchInv
    <2>4. CASE q = r
      <3>1. Completed(q)' \in SUBSET Searches
        BY DEF Completed
      <3>2. Cardinality(Completed(q)') \in Nat
        BY <3>1, SearchCounts
      <3> QED BY <2>1, <2>3, <2>4, <3>2
    <2>5. CASE q # r
      <3>1. Completed(q)' = Completed(q)
        BY <2>2, <2>5 DEF Completed
      <3> QED BY <1>0, <2>1, <2>2, <2>3, <2>5, <3>1 DEF SearchInv
    <2> QED BY <2>4, <2>5
  <1>19. ASSUME NEW r \in Requests, NEW c \in Searches, SearchDone(r, c)
       PROVE SearchInv'
    <2>1. /\ ToolGoto(r, c, "done") /\ searched' = [searched EXCEPT ![r] = searched[r] + 1]
          /\ tool[r][c] = "checked"
      BY <1>19 DEF SearchDone, ToolDone
    <2>2. \A q \in Requests, d \in Searches :
            tool'[q][d] = IF q = r /\ d = c THEN "done" ELSE tool[q][d]
      BY <1>0, <1>s, <2>1, Calling
    <2> SUFFICES ASSUME NEW q \in Requests
                 PROVE  /\ searched'[q] <= Cardinality(Searches)
                        /\ (\E d \in Searches : tool'[q][d] = "checked")
                             => searched'[q] <= Cardinality(Completed(q)')
      BY DEF SearchInv
    <2>3. CASE q = r
      <3>1. Completed(q)' = Completed(q) \cup {c} /\ c \notin Completed(q)
        BY <2>1, <2>2, <2>3 DEF Completed
      <3>2. Completed(q) \in SUBSET Searches /\ Completed(q)' \in SUBSET Searches
        BY DEF Completed
      <3>3. IsFiniteSet(Completed(q)) /\ Cardinality(Completed(q)) \in Nat
        BY <3>2, SearchCounts
      <3>4. /\ Cardinality(Completed(q)') <= Cardinality(Searches)
            /\ Cardinality(Completed(q)') \in Nat /\ Cardinality(Searches) \in Nat
        BY <3>2, SearchCounts
      <3>5. Cardinality(Completed(q)') = Cardinality(Completed(q)) + 1
        BY <3>1, <3>3, FS_AddElement
      <3>6. searched[q] \in Nat /\ searched'[q] = searched[q] + 1
        BY <1>0, <2>1, <2>3 DEF TypeOK
      <3>7. searched[q] <= Cardinality(Completed(q))
        BY <1>0, <2>1, <2>3 DEF SearchInv
      <3> HIDE DEF Completed
      <3> QED BY <3>3, <3>4, <3>5, <3>6, <3>7
    <2>4. CASE q # r
      <3>1. Completed(q)' = Completed(q)
        BY <2>2, <2>4 DEF Completed
      <3>2. searched'[q] = searched[q]
        BY <1>0, <2>1, <2>4 DEF TypeOK
      <3> QED BY <1>0, <2>2, <2>4, <3>1, <3>2 DEF SearchInv
    <2> QED BY <2>3, <2>4
  <1>20. ASSUME NEW r \in Requests, NEW c \in Searches, SearchEmpty(r, c)
       PROVE SearchInv'
    <2>1. ToolGoto(r, c, "done") /\ searched' = searched /\ tool[r][c] = "called"
      BY <1>20 DEF SearchEmpty, ToolDone
    <2>2. \A q \in Requests, d \in Searches :
            tool'[q][d] = IF q = r /\ d = c THEN "done" ELSE tool[q][d]
      BY <1>0, <1>s, <2>1, Calling
    <2> SUFFICES ASSUME NEW q \in Requests
                 PROVE  /\ searched'[q] <= Cardinality(Searches)
                        /\ (\E d \in Searches : tool'[q][d] = "checked")
                             => searched'[q] <= Cardinality(Completed(q)')
      BY DEF SearchInv
    <2>3. Completed(q) \in SUBSET Completed(q)' /\ Completed(q)' \in SUBSET Searches
      BY <2>2 DEF Completed
    <2>4. /\ IsFiniteSet(Completed(q)') /\ Cardinality(Completed(q)') \in Nat
          /\ Cardinality(Completed(q)) \in Nat
      <3>1. Completed(q) \in SUBSET Searches
        BY DEF Completed
      <3> QED BY <2>3, <3>1, SearchCounts
    <2>5. Cardinality(Completed(q)) <= Cardinality(Completed(q)')
      BY <2>3, <2>4, FS_Subset
    <2>6. (\E d \in Searches : tool'[q][d] = "checked")
            => \E d \in Searches : tool[q][d] = "checked"
      BY <2>2
    <2>7. /\ searched[q] \in Nat /\ searched[q] <= Cardinality(Searches)
          /\ (\E d \in Searches : tool[q][d] = "checked")
               => searched[q] <= Cardinality(Completed(q))
      BY <1>0 DEF TypeOK, SearchInv
    <2> HIDE DEF Completed
    <2> QED BY <2>1, <2>4, <2>5, <2>6, <2>7
  <1>21. ASSUME NEW r \in Requests, NEW c \in Calls, ToolRaises(r, c) PROVE SearchInv'
    <2>1. \A q \in Requests :
            /\ searched'[q] \in {searched[q], 0}
            /\ \/ \A d \in Searches : tool'[q][d] = tool[q][d]
               \/ \A d \in Searches : tool'[q][d] # "checked"
      BY <1>0, <1>s, <1>21 DEF ToolRaises, Goto, TypeOK, NoCalls, Called
    <2> QED BY <1>0, <2>1, SearchKept
  <1>22. ASSUME NEW r \in Requests, NEW w \in Writes, SendCard(r, w) PROVE SearchInv'
    <2>1. \A q \in Requests :
            /\ searched'[q] \in {searched[q], 0}
            /\ \/ \A d \in Searches : tool'[q][d] = tool[q][d]
               \/ \A d \in Searches : tool'[q][d] # "checked"
      BY <1>0, <1>s, <1>22 DEF SendCard, End, EndOf, AgentGone, Goto, TypeOK, NoCalls, Called
    <2> QED BY <1>0, <2>1, SearchKept
  <1>23. ASSUME NEW r \in Requests, StoreReply(r) PROVE SearchInv'
    <2>1. \A q \in Requests :
            /\ searched'[q] \in {searched[q], 0}
            /\ \/ \A d \in Searches : tool'[q][d] = tool[q][d]
               \/ \A d \in Searches : tool'[q][d] # "checked"
      BY <1>0, <1>s, <1>23 DEF StoreReply, End, EndOf, AgentGone, Goto, TypeOK, NoCalls, Called
    <2> QED BY <1>0, <2>1, SearchKept
  <1>24. ASSUME NEW r \in Requests, RequestFails(r) PROVE SearchInv'
    <2>1. \A q \in Requests :
            /\ searched'[q] \in {searched[q], 0}
            /\ \/ \A d \in Searches : tool'[q][d] = tool[q][d]
               \/ \A d \in Searches : tool'[q][d] # "checked"
      BY <1>0, <1>s, <1>24 DEF RequestFails, End, EndOf, AgentGone, Goto, TypeOK, NoCalls, Called
    <2> QED BY <1>0, <2>1, SearchKept
  <1>25. ASSUME NEW r \in Requests, ClientLeaves(r) PROVE SearchInv'
    <2>1. \A q \in Requests :
            /\ searched'[q] \in {searched[q], 0}
            /\ \/ \A d \in Searches : tool'[q][d] = tool[q][d]
               \/ \A d \in Searches : tool'[q][d] # "checked"
      BY <1>0, <1>s, <1>25 DEF ClientLeaves, End, EndOf, AgentGone, Goto, TypeOK, NoCalls, Called
    <2> QED BY <1>0, <2>1, SearchKept
  <1>26. CASE Restart
    <2>1. \A q \in Requests :
            /\ searched'[q] \in {searched[q], 0}
            /\ \/ \A d \in Searches : tool'[q][d] = tool[q][d]
               \/ \A d \in Searches : tool'[q][d] # "checked"
      BY <1>0, <1>s, <1>26 DEF Restart, NoThread, TypeOK, NoCalls, Called
    <2> QED BY <1>0, <2>1, SearchKept
  <1>27. CASE DeleteSession
    <2>1. \A q \in Requests :
            /\ searched'[q] \in {searched[q], 0}
            /\ \/ \A d \in Searches : tool'[q][d] = tool[q][d]
               \/ \A d \in Searches : tool'[q][d] # "checked"
      BY <1>0, <1>s, <1>27 DEF DeleteSession, TypeOK, NoCalls, Called
    <2> QED BY <1>0, <2>1, SearchKept
  <1>28. ASSUME NEW w \in Writes, DeleteElsewhere(w) PROVE SearchInv'
    <2>1. \A q \in Requests :
            /\ searched'[q] \in {searched[q], 0}
            /\ \/ \A d \in Searches : tool'[q][d] = tool[q][d]
               \/ \A d \in Searches : tool'[q][d] # "checked"
      BY <1>0, <1>s, <1>28 DEF DeleteElsewhere, TypeOK, NoCalls, Called
    <2> QED BY <1>0, <2>1, SearchKept
  <1>29. CASE UNCHANGED vars
    <2>1. \A q \in Requests :
            /\ searched'[q] \in {searched[q], 0}
            /\ \/ \A d \in Searches : tool'[q][d] = tool[q][d]
               \/ \A d \in Searches : tool'[q][d] # "checked"
      BY <1>29
    <2> QED BY <1>0, <2>1, SearchKept
  <1> QED BY <1>1, <1>2, <1>3, <1>4, <1>5, <1>6, <1>7, <1>8, <1>9, <1>10, <1>11, <1>12,
    <1>13, <1>14, <1>15, <1>16, <1>17, <1>18, <1>19, <1>20, <1>21, <1>22, <1>23, <1>24,
    <1>25, <1>26, <1>27, <1>28, <1>29 DEF Next, Progress, Tool

\* result_holder of the search tool: a request completes at most as many searches as one
\* model step has calls, however many steps follow, and however its step is repeated.
THEOREM SearchesStayBounded == Spec => []SearchesBounded
  <1>1. SearchInv => SearchesBounded
    BY DEF SearchInv, SearchesBounded
  <1>2. IInv /\ SearchInv /\ [Next]_vars => SearchInv'
    BY SearchStep
  <1> QED BY InitSearchInv, Invariance, <1>1, <1>2, PTL DEF Spec

=============================================================================
