------------------------ MODULE GroupMembershipProofs ------------------------
(***************************************************************************)
(* Theorems about GroupMembership, for any number of requests, users,      *)
(* tickets and documents.                                                  *)
(***************************************************************************)
EXTENDS GroupMembership, FiniteSetTheorems, TLAPS

\* What a request carries fits the step it is at.
RequestsFit ==
  \A r \in Requests :
    /\ pc[r] \in {"asking", "asked"} => what[r] \in Kinds
    /\ pc[r] \in {"deciding", "flushed"} => about[r] \in Tickets /\ what[r] \in Decisions
    /\ pc[r] = "admin" => what[r] \in GroupStatuses

\* A request that has looked for a PENDING ticket and found none knows as late all
\* those that are there by now.
AskedSeeAll ==
  \A r \in Requests : pc[r] = "asked" => Pending(what[r], user[r]) \subseteq late[r]

\* A ticket that can still become or stay PENDING has never been decided.
OpenIsUndecided ==
  \A t \in Tickets : ticket[t].status \in {"none", "PENDING"} => decisions[t] = 0

\* One dissolution at a time has marked the group.
OneDissolves == \A r, q \in Requests : Dissolving(r) /\ Dissolving(q) => r = q

\* What a dissolution knows to have been there is there, or is in its hands.
DissolvingKnows ==
  \A r \in Requests :
    /\ pc[r] = "marked" => \A d \in known[r].docs : doc[d] # "none"
    /\ Dissolving(r) /\ pc[r] # "marked"
         => \A d \in known[r].docs : d \in docs[r] \/ doc[d] = "deleted"
    /\ pc[r] \in {"marked", "emptied"} => known[r].members \subseteq members
    /\ Dissolving(r) /\ pc[r] \notin {"marked", "emptied"}
         => known[r].members \subseteq gone[r]

\* The tickets a dissolution knows have their rows until it commits, and each of its two
\* DELETEs has those of its kind once it has started.
DissolvingClears ==
  \A r \in Requests :
    /\ Dissolving(r) => known[r].tickets \subseteq Filed
    /\ pc[r] = "uninviting" => OfKind("invitation", known[r].tickets) \subseteq closing[r]
    /\ pc[r] \in {"uninvited", "unasking", "cleared"}
         => OfKind("invitation", known[r].tickets) \subseteq closed[r]
    /\ pc[r] = "unasking" => OfKind("request", known[r].tickets) \subseteq closing[r]
    /\ pc[r] = "cleared" => OfKind("request", known[r].tickets) \subseteq closed[r]

\* The invariant that every theorem below rests on.
IInv ==
  /\ TypeOK
  /\ RequestsFit
  /\ AskedSeeAll /\ PendingOverlapped
  /\ OpenIsUndecided /\ DecisionsBounded
  /\ OwnerStays
  /\ OneDissolves /\ DissolvingKnows /\ DissolvingClears

\* The requests that are about to decide a ticket.
Deciders(t) == {r \in Requests : pc[r] \in {"deciding", "flushed"} /\ about[r] = t}

\* A subset of a finite set has at most as many elements.
LEMMA FewerElements ==
  ASSUME NEW S, NEW T \in SUBSET S, IsFiniteSet(S)
  PROVE  /\ IsFiniteSet(T) /\ Cardinality(T) \in Nat /\ Cardinality(S) \in Nat
         /\ Cardinality(T) <= Cardinality(S)
  BY FS_Subset, FS_CardinalityType

\* Without one of its elements a finite set has one less.
LEMMA OneLess ==
  ASSUME NEW S, NEW x \in S, IsFiniteSet(S)
  PROVE  Cardinality(S \ {x}) = Cardinality(S) - 1 /\ Cardinality(S) \in Nat
  BY FS_RemoveElement, FS_CardinalityType

\* A Boolean function keeps its type when it is changed in one place.
LEMMA BooleanExcept ==
  ASSUME NEW S, NEW f \in [S -> BOOLEAN], NEW x \in S, NEW b \in BOOLEAN
  PROVE  [f EXCEPT ![x] = b] \in [S -> BOOLEAN]
  OBVIOUS

\* The sum of decisions made and to come, when one of those to come is made.
LEMMA OneDecided ==
  ASSUME NEW n \in Nat, NEW a \in Nat, NEW c \in Nat, NEW b \in Nat, NEW d \in Nat,
         a + c <= n, b \in {a, a + 1}, d <= c - 1
  PROVE  b + d <= n
  OBVIOUS

\* What a dissolution can know.
Knowledge == [docs : SUBSET Docs, members : SUBSET Users, tickets : SUBSET Tickets]

\* What the end of a request leaves of it and of the others.
Ended(r) ==
  /\ pc'[r] = "idle"
  /\ \A q \in Requests \ {r} :
       /\ pc'[q] = pc[q] /\ user'[q] = user[q] /\ about'[q] = about[q]
       /\ what'[q] = what[q]
       /\ docs'[q] = docs[q] /\ gone'[q] = gone[q] /\ known'[q] = known[q]
       /\ closing'[q] = closing[q] /\ closed'[q] = closed[q]

EndTypes ==
  /\ pc' \in [Requests -> Steps]
  /\ user' \in [Requests -> Users]
  /\ about' \in [Requests -> Tickets \cup {NoTicket}]
  /\ what' \in [Requests -> Kinds \cup Decisions \cup GroupStatuses \cup {"none"}]
  /\ sawMember' \in [Requests -> BOOLEAN]
  /\ docs' \in [Requests -> SUBSET Docs]
  /\ gone' \in [Requests -> SUBSET Users]
  /\ closing' \in [Requests -> SUBSET Tickets]
  /\ closed' \in [Requests -> SUBSET Tickets]
  /\ known' \in [Requests -> Knowledge]

LEMMA Ending ==
  ASSUME TypeOK
  PROVE  \A r \in Requests : Finish(r) => Ended(r) /\ EndTypes
  <1> SUFFICES ASSUME NEW r \in Requests, Finish(r) PROVE Ended(r) /\ EndTypes
    OBVIOUS
  <1> USE GroupAssumption DEF GroupAssumption, TypeOK, Finish, Goto
  <1>1. pc'[r] = "idle" /\ \A q \in Requests \ {r} : pc'[q] = pc[q]
    OBVIOUS
  <1>2. \A q \in Requests \ {r} :
          user'[q] = user[q] /\ about'[q] = about[q] /\ what'[q] = what[q]
    OBVIOUS
  <1>7. \A q \in Requests \ {r} :
          /\ docs'[q] = docs[q] /\ gone'[q] = gone[q] /\ known'[q] = known[q]
          /\ closing'[q] = closing[q] /\ closed'[q] = closed[q]
    OBVIOUS
  <1>3. pc' \in [Requests -> Steps] /\ user' \in [Requests -> Users]
    BY DEF Steps
  <1>4. /\ about' \in [Requests -> Tickets \cup {NoTicket}]
        /\ what' \in [Requests -> Kinds \cup Decisions \cup GroupStatuses \cup {"none"}]
    OBVIOUS
  <1>5. sawMember' \in [Requests -> BOOLEAN] /\ docs' \in [Requests -> SUBSET Docs]
    OBVIOUS
  <1>6. /\ gone' \in [Requests -> SUBSET Users]
        /\ known' \in [Requests -> Knowledge]
    BY DEF Knowledge, Nothing
  <1>8. closing' \in [Requests -> SUBSET Tickets] /\ closed' \in [Requests -> SUBSET Tickets]
    OBVIOUS
  <1> QED BY <1>1, <1>2, <1>3, <1>4, <1>5, <1>6, <1>7, <1>8 DEF Ended, EndTypes

\* What a decision does to its ticket, and that it leaves the others alone.
DecidedOnly(r) ==
  /\ about[r] \in Tickets
  /\ ticket' \in [Tickets -> [kind : Kinds, user : Users,
                              status : Decisions \cup {"none", "PENDING", "gone"}]]
  /\ decisions' \in [Tickets -> Nat]
  /\ \A t \in Tickets :
       /\ ticket'[t].kind = ticket[t].kind /\ ticket'[t].user = ticket[t].user
       /\ t # about[r] => /\ ticket'[t].status = ticket[t].status
                          /\ decisions'[t] = decisions[t]
  /\ ticket'[about[r]].status \in Decisions
  /\ decisions'[about[r]] = decisions[about[r]] + 1

LEMMA Deciding ==
  ASSUME TypeOK, RequestsFit
  PROVE  \A r \in Requests :
           pc[r] \in {"deciding", "flushed"} /\ Decided(r) => DecidedOnly(r)
  <1> SUFFICES ASSUME NEW r \in Requests, pc[r] \in {"deciding", "flushed"}, Decided(r)
               PROVE  DecidedOnly(r)
    OBVIOUS
  <1> DEFINE t == about[r]
  <1>1. t \in Tickets /\ what[r] \in Decisions
    BY DEF RequestsFit
  <1>2. ticket' = [ticket EXCEPT ![t] = [ticket[t] EXCEPT !.status = what[r]]]
    BY DEF Decided
  <1>3. decisions' = [decisions EXCEPT ![t] = decisions[t] + 1]
    BY DEF Decided
  <1>4. ticket \in [Tickets -> [kind : Kinds, user : Users,
                                status : Decisions \cup {"none", "PENDING", "gone"}]]
        /\ decisions \in [Tickets -> Nat]
    BY DEF TypeOK
  <1>5. [ticket[t] EXCEPT !.status = what[r]]
          \in [kind : Kinds, user : Users,
               status : Decisions \cup {"none", "PENDING", "gone"}]
    BY <1>1, <1>4
  <1>6. ticket' \in [Tickets -> [kind : Kinds, user : Users,
                                 status : Decisions \cup {"none", "PENDING", "gone"}]]
    BY <1>1, <1>2, <1>4, <1>5
  <1>7. ticket'[t].kind = ticket[t].kind /\ ticket'[t].user = ticket[t].user
        /\ ticket'[t].status = what[r]
    BY <1>1, <1>2, <1>4
  <1>8. \A m \in Tickets : m # t => ticket'[m] = ticket[m]
    BY <1>1, <1>2, <1>4
  <1>9. decisions' \in [Tickets -> Nat] /\ decisions'[t] = decisions[t] + 1
        /\ \A m \in Tickets : m # t => decisions'[m] = decisions[m]
    BY <1>1, <1>3, <1>4
  <1> QED BY <1>1, <1>6, <1>7, <1>8, <1>9 DEF DecidedOnly

\* The initial state satisfies the invariant.
LEMMA InitIInv == Init => IInv
  <1> SUFFICES ASSUME Init PROVE IInv
    OBVIOUS
  <1> USE GroupAssumption DEF Init, GroupAssumption
  <1>1. TypeOK
    BY DEF TypeOK, Steps, Kinds, Decisions, GroupStatuses, Nothing
  <1>2. RequestsFit /\ AskedSeeAll
    BY DEF RequestsFit, AskedSeeAll
  <1>3. PendingOverlapped
    BY DEF PendingOverlapped, Pending
  <1>4. OpenIsUndecided /\ OwnerStays
    BY DEF OpenIsUndecided, OwnerStays
  <1>5. DecisionsBounded
    <2>1. \A t \in Tickets :
            {r \in Requests : pc[r] \in {"deciding", "flushed"} /\ about[r] = t} = {}
      OBVIOUS
    <2>2. Cardinality({}) = 0 /\ Cardinality(Requests) \in Nat
      BY FS_EmptySet, FS_CardinalityType
    <2>3. ASSUME NEW t \in Tickets
          PROVE  decisions[t] + Cardinality({r \in Requests : pc[r] \in {"deciding", "flushed"}
                                                              /\ about[r] = t})
                   <= Cardinality(Requests)
      <3> DEFINE D == {r \in Requests : pc[r] \in {"deciding", "flushed"} /\ about[r] = t}
      <3>1. decisions[t] = 0 /\ D = {}
        BY <2>1
      <3> HIDE DEF D
      <3>2. decisions[t] + Cardinality(D) <= Cardinality(Requests)
        BY <2>2, <3>1
      <3> QED BY <3>2 DEF D
    <2> QED BY <2>3 DEF DecisionsBounded
  <1>6. OneDissolves /\ DissolvingKnows /\ DissolvingClears
    BY DEF OneDissolves, DissolvingKnows, DissolvingClears, Dissolving
  <1> QED BY <1>1, <1>2, <1>3, <1>4, <1>5, <1>6 DEF IInv

\* Every step preserves the types.
LEMMA TypeStep == IInv /\ [Next]_vars => TypeOK'
  <1> SUFFICES ASSUME IInv /\ [Next]_vars PROVE TypeOK'
    OBVIOUS
  <1> USE DEF vars, groupVars, requestVars, TypeOK, RequestsFit, GroupAssumption,
              Steps, Kinds, Decisions, GroupStatuses, Knowledge
  <1>0. TypeOK /\ RequestsFit /\ GroupAssumption
    BY GroupAssumption DEF IInv
  <1>e. \A r \in Requests : Finish(r) => Ended(r) /\ EndTypes
    BY Ending DEF IInv
  <1>d. \A r \in Requests :
          pc[r] \in {"deciding", "flushed"} /\ Decided(r) => DecidedOnly(r)
    BY Deciding DEF IInv
  <1>1. ASSUME NEW r \in Requests, NEW u \in Users, NEW k \in Kinds, Ask(r, u, k)
       PROVE TypeOK'
    BY <1>0, <1>1 DEF Ask, Begin, Goto
  <1>2. ASSUME NEW r \in Requests, NEW t \in Tickets, NEW decision \in Decisions,
              Decide(r, t, decision)
       PROVE TypeOK'
    BY <1>0, <1>2 DEF Decide, Begin, Goto
  <1>3. ASSUME NEW r \in Requests, NEW s \in GroupStatuses, Admin(r, s) PROVE TypeOK'
    BY <1>0, <1>3 DEF Admin, Begin, Goto
  <1>4. ASSUME NEW r \in Requests, NEW u \in Users, Upload(r, u) PROVE TypeOK'
    BY <1>0, <1>4 DEF Upload, Begin, Goto
  <1>5. ASSUME NEW r \in Requests, AskPending(r) PROVE TypeOK'
    BY <1>0, <1>e, <1>5
       DEF AskPending, Rejected, End, Goto, Ended, EndTypes
  <1>6. ASSUME NEW r \in Requests, AskCommit(r) PROVE TypeOK'
    <2>1. PICK t \in Tickets :
            /\ ticket' = [ticket EXCEPT ![t] = [kind |-> what[r], user |-> user[r],
                                                status |-> "PENDING"]]
            /\ twins' = twins \cup {{t, m} : m \in late[r]}
      BY <1>6 DEF AskCommit
    <2>2. [kind |-> what[r], user |-> user[r], status |-> "PENDING"]
            \in [kind : Kinds, user : Users,
                 status : Decisions \cup {"none", "PENDING", "gone"}]
      BY <1>0, <1>6 DEF AskCommit
    <2>3. ticket' \in [Tickets -> [kind : Kinds, user : Users,
                                   status : Decisions \cup {"none", "PENDING", "gone"}]]
      BY <1>0, <2>1, <2>2
    <2>4. twins' \subseteq SUBSET Tickets
      <3>1. ASSUME NEW m \in late[r] PROVE {t, m} \in SUBSET Tickets
        BY <1>0, <3>1
      <3>2. twins \subseteq SUBSET Tickets
        BY <1>0
      <3> QED BY <2>1, <3>1, <3>2
    <2>5. late' \in [Requests -> SUBSET Tickets]
      BY <1>0, <1>6 DEF AskCommit
    <2>6. EndTypes
      BY <1>e, <1>6 DEF AskCommit
    <2> QED BY <1>0, <1>6, <2>3, <2>4, <2>5, <2>6 DEF AskCommit, EndTypes
  <1>7. ASSUME NEW r \in Requests, AcceptFlush(r) PROVE TypeOK'
    <2>1. CASE ticket[about[r]].status # "gone"
      <3>1. sawMember' \in [Requests -> BOOLEAN]
        <4>1. sawMember \in [Requests -> BOOLEAN]
              /\ sawMember' = [sawMember EXCEPT ![r] = user[r] \in members]
          BY <1>0, <1>7, <2>1 DEF AcceptFlush
        <4> QED BY <4>1, BooleanExcept
      <3> QED BY <1>0, <1>7, <2>1, <3>1 DEF AcceptFlush, Goto
    <2>2. CASE ticket[about[r]].status = "gone"
      BY <1>0, <1>7, <1>e, <2>2 DEF AcceptFlush, Rejected, End, EndTypes
    <2> QED BY <2>1, <2>2
  <1>8. ASSUME NEW r \in Requests, AcceptCommit(r) PROVE TypeOK'
    BY <1>0, <1>e, <1>d, <1>8
       DEF AcceptCommit, End, Goto, Ended, EndTypes, DecidedOnly
  <1>9. ASSUME NEW r \in Requests, CloseCommit(r) PROVE TypeOK'
    BY <1>0, <1>e, <1>d, <1>9
       DEF CloseCommit, End, Goto, Ended, EndTypes, DecidedOnly
  <1>10. ASSUME NEW r \in Requests, SetStatus(r) PROVE TypeOK'
    BY <1>0, <1>e, <1>10
       DEF SetStatus, End, Goto, Ended, EndTypes
  <1>11. ASSUME NEW r \in Requests, DissolveMark(r) PROVE TypeOK'
    <2>1. [docs |-> Live, members |-> members, tickets |-> Filed] \in Knowledge
      BY <1>0 DEF Live, Filed, Knowledge
    <2>2. known' \in [Requests -> Knowledge]
      BY <1>0, <1>11, <2>1 DEF DissolveMark
    <2> QED BY <1>0, <1>11, <2>2 DEF DissolveMark, Goto
  <1>12. ASSUME NEW r \in Requests, DissolveDocs(r) PROVE TypeOK'
    BY <1>0, <1>12 DEF DissolveDocs, Live, Goto
  <1>13. ASSUME NEW r \in Requests, DissolveMembers(r) PROVE TypeOK'
    BY <1>0, <1>13 DEF DissolveMembers, Goto
  <1>14. ASSUME NEW r \in Requests, DissolveSeek(r) PROVE TypeOK'
    <2>1. \A k : OfKind(k, Filed) \in SUBSET Tickets
      BY DEF OfKind, Filed
    <2>2. closing' \in [Requests -> SUBSET Tickets]
      <3>1. PICK k \in Kinds : closing' = [closing EXCEPT ![r] = OfKind(k, Filed)]
        BY <1>14 DEF DissolveSeek
      <3> QED BY <1>0, <2>1, <3>1
    <2>3. pc' \in [Requests -> Steps]
      BY <1>0, <1>14 DEF DissolveSeek, Goto
    <2> QED BY <1>0, <1>14, <2>2, <2>3 DEF DissolveSeek
  <1>15. ASSUME NEW r \in Requests, DissolveTickets(r) PROVE TypeOK'
    BY <1>0, <1>15 DEF DissolveTickets, Goto
  <1>16. ASSUME NEW r \in Requests, DissolveCommit(r) PROVE TypeOK'
    <2>1. ticket' \in [Tickets -> [kind : Kinds, user : Users,
                                   status : Decisions \cup {"none", "PENDING", "gone"}]]
      <3>1. ASSUME NEW t \in Tickets
            PROVE  [ticket[t] EXCEPT !.status = "gone"]
                     \in [kind : Kinds, user : Users,
                          status : Decisions \cup {"none", "PENDING", "gone"}]
        BY <1>0
      <3> QED BY <1>0, <1>16, <3>1 DEF DissolveCommit
    <2>2. doc' \in [Docs -> {"none", "live", "deleted"}]
      BY <1>0, <1>16 DEF DissolveCommit
    <2>3. EndTypes /\ late' \in [Requests -> SUBSET Tickets]
      BY <1>0, <1>16, <1>e DEF DissolveCommit, End
    <2> QED BY <1>0, <1>16, <2>1, <2>2, <2>3 DEF DissolveCommit, EndTypes
  <1>17. ASSUME NEW r \in Requests, UploadMember(r) PROVE TypeOK'
    BY <1>0, <1>e, <1>17
       DEF UploadMember, Rejected, End, Goto, Ended, EndTypes
  <1>18. ASSUME NEW r \in Requests, UploadCommit(r) PROVE TypeOK'
    BY <1>0, <1>e, <1>18
       DEF UploadCommit, End, Goto, Ended, EndTypes
  <1>19. ASSUME NEW r \in Requests, RequestFails(r) PROVE TypeOK'
    BY <1>0, <1>e, <1>19
       DEF RequestFails, Rejected, End, Goto, Ended, EndTypes
  <1>20. ASSUME NEW u \in Users, Remove(u) PROVE TypeOK'
    <2>1. ASSUME NEW q \in Requests
          PROVE  [known[q] EXCEPT !.members = @ \ {u}] \in Knowledge
      <3>1. known[q] \in Knowledge
        BY <1>0
      <3>2. known[q].members \ {u} \in SUBSET Users
        BY <3>1
      <3> QED BY <3>1, <3>2
    <2>2. known' \in [Requests -> Knowledge]
      BY <1>20, <2>1 DEF Remove
    <2> QED BY <1>0, <1>20, <2>2 DEF Remove
  <1>21. ASSUME NEW d \in Docs, DeleteDoc(d) PROVE TypeOK'
    BY <1>0, <1>21 DEF DeleteDoc
  <1>22. CASE UNCHANGED vars
    BY <1>0, <1>22
  <1> QED BY <1>1, <1>2, <1>3, <1>4, <1>5, <1>6, <1>7, <1>8, <1>9, <1>10, <1>11,
    <1>12, <1>13, <1>14, <1>15, <1>16, <1>17, <1>18, <1>19, <1>20, <1>21, <1>22
    DEF Next, Start, Continue

\* What a request carries keeps fitting its step.
LEMMA FitStep == IInv /\ [Next]_vars => RequestsFit'
  <1> SUFFICES ASSUME IInv /\ [Next]_vars PROVE RequestsFit'
    OBVIOUS
  <1> USE DEF vars, groupVars, requestVars, TypeOK, RequestsFit, GroupAssumption
  <1>0. TypeOK /\ RequestsFit /\ GroupAssumption
    BY GroupAssumption DEF IInv
  <1>e. \A r \in Requests : Finish(r) => Ended(r) /\ EndTypes
    BY Ending DEF IInv
  <1>d. \A r \in Requests :
          pc[r] \in {"deciding", "flushed"} /\ Decided(r) => DecidedOnly(r)
    BY Deciding DEF IInv
  <1>1. ASSUME NEW r \in Requests, NEW u \in Users, NEW k \in Kinds, Ask(r, u, k)
       PROVE RequestsFit'
    BY <1>0, <1>1 DEF Ask, Begin, Goto
  <1>2. ASSUME NEW r \in Requests, NEW t \in Tickets, NEW decision \in Decisions,
              Decide(r, t, decision)
       PROVE RequestsFit'
    BY <1>0, <1>2 DEF Decide, Begin, Goto
  <1>3. ASSUME NEW r \in Requests, NEW s \in GroupStatuses, Admin(r, s)
       PROVE RequestsFit'
    BY <1>0, <1>3 DEF Admin, Begin, Goto
  <1>4. ASSUME NEW r \in Requests, NEW u \in Users, Upload(r, u) PROVE RequestsFit'
    BY <1>0, <1>4 DEF Upload, Begin, Goto
  <1>5. ASSUME NEW r \in Requests, AskPending(r) PROVE RequestsFit'
    BY <1>0, <1>e, <1>5
       DEF AskPending, Rejected, End, Goto, Ended
  <1>6. ASSUME NEW r \in Requests, AskCommit(r) PROVE RequestsFit'
    BY <1>0, <1>e, <1>6
       DEF AskCommit, End, Goto, Ended
  <1>7. ASSUME NEW r \in Requests, AcceptFlush(r) PROVE RequestsFit'
    BY <1>0, <1>e, <1>7
       DEF AcceptFlush, Rejected, End, Goto, Ended
  <1>8. ASSUME NEW r \in Requests, AcceptCommit(r) PROVE RequestsFit'
    BY <1>0, <1>e, <1>d, <1>8
       DEF AcceptCommit, End, Goto, Ended, DecidedOnly
  <1>9. ASSUME NEW r \in Requests, CloseCommit(r) PROVE RequestsFit'
    BY <1>0, <1>e, <1>d, <1>9
       DEF CloseCommit, End, Goto, Ended, DecidedOnly
  <1>10. ASSUME NEW r \in Requests, SetStatus(r) PROVE RequestsFit'
    BY <1>0, <1>e, <1>10
       DEF SetStatus, End, Goto, Ended
  <1>11. ASSUME NEW r \in Requests, DissolveMark(r) PROVE RequestsFit'
    BY <1>0, <1>11 DEF DissolveMark, Goto
  <1>12. ASSUME NEW r \in Requests, DissolveDocs(r) PROVE RequestsFit'
    BY <1>0, <1>12 DEF DissolveDocs, Live, Goto
  <1>13. ASSUME NEW r \in Requests, DissolveMembers(r) PROVE RequestsFit'
    BY <1>0, <1>13 DEF DissolveMembers, Goto
  <1>14. ASSUME NEW r \in Requests, DissolveSeek(r) PROVE RequestsFit'
    BY <1>0, <1>14 DEF DissolveSeek, Filed, OfKind, Goto
  <1>15. ASSUME NEW r \in Requests, DissolveTickets(r) PROVE RequestsFit'
    BY <1>0, <1>15 DEF DissolveTickets, Goto
  <1>16. ASSUME NEW r \in Requests, DissolveCommit(r) PROVE RequestsFit'
    BY <1>0, <1>e, <1>16
       DEF DissolveCommit, End, Goto, Ended
  <1>17. ASSUME NEW r \in Requests, UploadMember(r) PROVE RequestsFit'
    BY <1>0, <1>e, <1>17
       DEF UploadMember, Rejected, End, Goto, Ended
  <1>18. ASSUME NEW r \in Requests, UploadCommit(r) PROVE RequestsFit'
    BY <1>0, <1>e, <1>18
       DEF UploadCommit, End, Goto, Ended
  <1>19. ASSUME NEW r \in Requests, RequestFails(r) PROVE RequestsFit'
    BY <1>0, <1>e, <1>19
       DEF RequestFails, Rejected, End, Goto, Ended
  <1>20. ASSUME NEW u \in Users, Remove(u) PROVE RequestsFit'
    BY <1>0, <1>20 DEF Remove
  <1>21. ASSUME NEW d \in Docs, DeleteDoc(d) PROVE RequestsFit'
    BY <1>0, <1>21 DEF DeleteDoc
  <1>22. CASE UNCHANGED vars
    BY <1>0, <1>22
  <1> QED BY <1>1, <1>2, <1>3, <1>4, <1>5, <1>6, <1>7, <1>8, <1>9, <1>10, <1>11,
    <1>12, <1>13, <1>14, <1>15, <1>16, <1>17, <1>18, <1>19, <1>20, <1>21, <1>22
    DEF Next, Start, Continue

\* A request that has looked misses no later ticket.
LEMMA AskedStep == IInv /\ [Next]_vars => AskedSeeAll'
  <1> SUFFICES ASSUME IInv /\ [Next]_vars PROVE AskedSeeAll'
    OBVIOUS
  <1> USE DEF vars, groupVars, requestVars, TypeOK, RequestsFit, AskedSeeAll,
              Pending, Decisions
  <1>0. TypeOK /\ RequestsFit /\ AskedSeeAll
    BY DEF IInv
  <1>e. \A r \in Requests : Finish(r) => Ended(r) /\ EndTypes
    BY Ending DEF IInv
  <1>d. \A r \in Requests :
          pc[r] \in {"deciding", "flushed"} /\ Decided(r) => DecidedOnly(r)
    BY Deciding DEF IInv
  <1>1. ASSUME NEW r \in Requests, NEW u \in Users, NEW k \in Kinds, Ask(r, u, k)
       PROVE AskedSeeAll'
    BY <1>0, <1>1 DEF Ask, Begin, Goto
  <1>2. ASSUME NEW r \in Requests, NEW t \in Tickets, NEW decision \in Decisions,
              Decide(r, t, decision)
       PROVE AskedSeeAll'
    BY <1>0, <1>2 DEF Decide, Begin, Goto
  <1>3. ASSUME NEW r \in Requests, NEW s \in GroupStatuses, Admin(r, s)
       PROVE AskedSeeAll'
    BY <1>0, <1>3 DEF Admin, Begin, Goto
  <1>4. ASSUME NEW r \in Requests, NEW u \in Users, Upload(r, u) PROVE AskedSeeAll'
    BY <1>0, <1>4 DEF Upload, Begin, Goto
  <1>5. ASSUME NEW r \in Requests, AskPending(r) PROVE AskedSeeAll'
    BY <1>0, <1>e, <1>5
       DEF AskPending, Rejected, End, Goto, Ended
  <1>6. ASSUME NEW r \in Requests, AskCommit(r) PROVE AskedSeeAll'
    BY <1>0, <1>e, <1>6
       DEF AskCommit, End, Goto, Ended
  <1>7. ASSUME NEW r \in Requests, AcceptFlush(r) PROVE AskedSeeAll'
    <2>1. CASE Rejected(r)
      BY <1>0, <1>e, <2>1 DEF Rejected, End, Ended
    <2>2. CASE Goto(r, "flushed") /\ UNCHANGED <<ticket, user, what, late>>
      BY <1>0, <2>2 DEF Goto
    <2> QED BY <1>7, <2>1, <2>2 DEF AcceptFlush
  <1>8. ASSUME NEW r \in Requests, AcceptCommit(r) PROVE AskedSeeAll'
    <2>1. /\ pc[r] \in {"deciding", "flushed"} /\ twins' = twins
          /\ Finish(r) /\ late' = [late EXCEPT ![r] = {}]
          /\ Decided(r) \/ UNCHANGED <<ticket, decisions>>
      BY <1>8 DEF AcceptCommit, End
    <2>2. Ended(r) /\ (DecidedOnly(r) \/ UNCHANGED <<ticket, decisions>>)
      BY <1>e, <1>d, <2>1
    <2>3. \A k, u : Pending(k, u)' \subseteq Pending(k, u)
      BY <2>2 DEF DecidedOnly
    <2> HIDE DEF Pending
    <2> QED BY <1>0, <2>1, <2>2, <2>3 DEF Ended
  <1>9. ASSUME NEW r \in Requests, CloseCommit(r) PROVE AskedSeeAll'
    <2>1. /\ pc[r] \in {"deciding", "flushed"} /\ twins' = twins
          /\ Finish(r) /\ late' = [late EXCEPT ![r] = {}]
          /\ Decided(r) \/ UNCHANGED <<ticket, decisions>>
      BY <1>9 DEF CloseCommit, End
    <2>2. Ended(r) /\ (DecidedOnly(r) \/ UNCHANGED <<ticket, decisions>>)
      BY <1>e, <1>d, <2>1
    <2>3. \A k, u : Pending(k, u)' \subseteq Pending(k, u)
      BY <2>2 DEF DecidedOnly
    <2> HIDE DEF Pending
    <2> QED BY <1>0, <2>1, <2>2, <2>3 DEF Ended
  <1>10. ASSUME NEW r \in Requests, SetStatus(r) PROVE AskedSeeAll'
    BY <1>0, <1>e, <1>10
       DEF SetStatus, End, Goto, Ended
  <1>11. ASSUME NEW r \in Requests, DissolveMark(r) PROVE AskedSeeAll'
    BY <1>0, <1>11 DEF DissolveMark, Goto
  <1>12. ASSUME NEW r \in Requests, DissolveDocs(r) PROVE AskedSeeAll'
    BY <1>0, <1>12 DEF DissolveDocs, Live, Goto
  <1>13. ASSUME NEW r \in Requests, DissolveMembers(r) PROVE AskedSeeAll'
    BY <1>0, <1>13 DEF DissolveMembers, Goto
  <1>14. ASSUME NEW r \in Requests, DissolveSeek(r) PROVE AskedSeeAll'
    BY <1>0, <1>14 DEF DissolveSeek, Filed, OfKind, Goto
  <1>15. ASSUME NEW r \in Requests, DissolveTickets(r) PROVE AskedSeeAll'
    BY <1>0, <1>15 DEF DissolveTickets, Goto
  <1>16. ASSUME NEW r \in Requests, DissolveCommit(r) PROVE AskedSeeAll'
    BY <1>0, <1>e, <1>16
       DEF DissolveCommit, End, Goto, Ended
  <1>17. ASSUME NEW r \in Requests, UploadMember(r) PROVE AskedSeeAll'
    BY <1>0, <1>e, <1>17
       DEF UploadMember, Rejected, End, Goto, Ended
  <1>18. ASSUME NEW r \in Requests, UploadCommit(r) PROVE AskedSeeAll'
    BY <1>0, <1>e, <1>18
       DEF UploadCommit, End, Goto, Ended
  <1>19. ASSUME NEW r \in Requests, RequestFails(r) PROVE AskedSeeAll'
    BY <1>0, <1>e, <1>19
       DEF RequestFails, Rejected, End, Goto, Ended
  <1>20. ASSUME NEW u \in Users, Remove(u) PROVE AskedSeeAll'
    BY <1>0, <1>20 DEF Remove
  <1>21. ASSUME NEW d \in Docs, DeleteDoc(d) PROVE AskedSeeAll'
    BY <1>0, <1>21 DEF DeleteDoc
  <1>22. CASE UNCHANGED vars
    BY <1>0, <1>22
  <1> QED BY <1>1, <1>2, <1>3, <1>4, <1>5, <1>6, <1>7, <1>8, <1>9, <1>10, <1>11,
    <1>12, <1>13, <1>14, <1>15, <1>16, <1>17, <1>18, <1>19, <1>20, <1>21, <1>22
    DEF Next, Start, Continue

\* A second PENDING ticket is created only in an overlap.
LEMMA PendingStep == IInv /\ [Next]_vars => PendingOverlapped'
  <1> SUFFICES ASSUME IInv /\ [Next]_vars PROVE PendingOverlapped'
    OBVIOUS
  <1> USE DEF vars, groupVars, requestVars, TypeOK, RequestsFit, PendingOverlapped,
              Pending, Decisions
  <1>0. TypeOK /\ RequestsFit /\ PendingOverlapped /\ AskedSeeAll
    BY DEF IInv
  <1>e. \A r \in Requests : Finish(r) => Ended(r) /\ EndTypes
    BY Ending DEF IInv
  <1>d. \A r \in Requests :
          pc[r] \in {"deciding", "flushed"} /\ Decided(r) => DecidedOnly(r)
    BY Deciding DEF IInv
  <1>1. ASSUME NEW r \in Requests, NEW u \in Users, NEW k \in Kinds, Ask(r, u, k)
       PROVE PendingOverlapped'
    BY <1>0, <1>1 DEF Ask, Begin, Goto
  <1>2. ASSUME NEW r \in Requests, NEW t \in Tickets, NEW decision \in Decisions,
              Decide(r, t, decision)
       PROVE PendingOverlapped'
    BY <1>0, <1>2 DEF Decide, Begin, Goto
  <1>3. ASSUME NEW r \in Requests, NEW s \in GroupStatuses, Admin(r, s)
       PROVE PendingOverlapped'
    BY <1>0, <1>3 DEF Admin, Begin, Goto
  <1>4. ASSUME NEW r \in Requests, NEW u \in Users, Upload(r, u)
       PROVE PendingOverlapped'
    BY <1>0, <1>4 DEF Upload, Begin, Goto
  <1>5. ASSUME NEW r \in Requests, AskPending(r) PROVE PendingOverlapped'
    BY <1>0, <1>e, <1>5
       DEF AskPending, Rejected, End, Goto, Ended
  <1>6. ASSUME NEW r \in Requests, AskCommit(r) PROVE PendingOverlapped'
    <2>1. PICK t \in Tickets :
            /\ ticket' = [ticket EXCEPT ![t] = [kind |-> what[r], user |-> user[r],
                                                status |-> "PENDING"]]
            /\ twins' = twins \cup {{t, m} : m \in late[r]}
      BY <1>6 DEF AskCommit
    <2>2. ASSUME NEW k \in Kinds, NEW u \in Users
          PROVE  \A m \in Pending(k, u)' : m = t \/ m \in Pending(k, u)
      BY <1>0, <2>1
    <2>3. ASSUME NEW k \in Kinds, NEW u \in Users, t \in Pending(k, u)',
                 NEW m \in Pending(k, u), m # t
          PROVE  {t, m} \in twins'
      <3>1. k = what[r] /\ u = user[r]
        BY <1>0, <2>1, <2>3
      <3>2. m \in late[r]
        BY <1>0, <1>6, <2>3, <3>1 DEF AskCommit, AskedSeeAll
      <3> QED BY <2>1, <3>2
    <2>4. twins \subseteq twins'
      BY <2>1
    <2>5. SUFFICES ASSUME NEW k \in Kinds, NEW u \in Users,
                          NEW l \in Pending(k, u)', NEW m \in Pending(k, u)', l # m
                   PROVE  {l, m} \in twins'
      BY DEF PendingOverlapped
    <2> HIDE DEF Pending
    <2>6. CASE l # t /\ m # t
      BY <1>0, <2>2, <2>4, <2>5, <2>6 DEF PendingOverlapped
    <2>7. CASE l = t
      BY <2>2, <2>3, <2>5, <2>7
    <2>8. CASE m = t
      <3>1. {m, l} \in twins'
        BY <2>2, <2>3, <2>5, <2>8
      <3>2. {m, l} = {l, m}
        OBVIOUS
      <3> QED BY <3>1, <3>2
    <2> QED BY <2>6, <2>7, <2>8
  <1>7. ASSUME NEW r \in Requests, AcceptFlush(r) PROVE PendingOverlapped'
    <2>1. ticket' = ticket /\ twins' = twins
      BY <1>7 DEF AcceptFlush, Rejected, groupVars
    <2> QED BY <1>0, <2>1
  <1>8. ASSUME NEW r \in Requests, AcceptCommit(r) PROVE PendingOverlapped'
    <2>1. /\ pc[r] \in {"deciding", "flushed"} /\ twins' = twins
          /\ Finish(r) /\ late' = [late EXCEPT ![r] = {}]
          /\ Decided(r) \/ UNCHANGED <<ticket, decisions>>
      BY <1>8 DEF AcceptCommit, End
    <2>2. Ended(r) /\ (DecidedOnly(r) \/ UNCHANGED <<ticket, decisions>>)
      BY <1>e, <1>d, <2>1
    <2>3. \A k, u : Pending(k, u)' \subseteq Pending(k, u)
      BY <2>2 DEF DecidedOnly
    <2> HIDE DEF Pending
    <2> QED BY <1>0, <2>1, <2>3
  <1>9. ASSUME NEW r \in Requests, CloseCommit(r) PROVE PendingOverlapped'
    <2>1. /\ pc[r] \in {"deciding", "flushed"} /\ twins' = twins
          /\ Finish(r) /\ late' = [late EXCEPT ![r] = {}]
          /\ Decided(r) \/ UNCHANGED <<ticket, decisions>>
      BY <1>9 DEF CloseCommit, End
    <2>2. Ended(r) /\ (DecidedOnly(r) \/ UNCHANGED <<ticket, decisions>>)
      BY <1>e, <1>d, <2>1
    <2>3. \A k, u : Pending(k, u)' \subseteq Pending(k, u)
      BY <2>2 DEF DecidedOnly
    <2> HIDE DEF Pending
    <2> QED BY <1>0, <2>1, <2>3
  <1>10. ASSUME NEW r \in Requests, SetStatus(r) PROVE PendingOverlapped'
    BY <1>0, <1>e, <1>10
       DEF SetStatus, End, Goto, Ended
  <1>11. ASSUME NEW r \in Requests, DissolveMark(r) PROVE PendingOverlapped'
    BY <1>0, <1>11 DEF DissolveMark, Goto
  <1>12. ASSUME NEW r \in Requests, DissolveDocs(r) PROVE PendingOverlapped'
    BY <1>0, <1>12 DEF DissolveDocs, Live, Goto
  <1>13. ASSUME NEW r \in Requests, DissolveMembers(r) PROVE PendingOverlapped'
    BY <1>0, <1>13 DEF DissolveMembers, Goto
  <1>14. ASSUME NEW r \in Requests, DissolveSeek(r) PROVE PendingOverlapped'
    BY <1>0, <1>14 DEF DissolveSeek, Filed, OfKind, Goto
  <1>15. ASSUME NEW r \in Requests, DissolveTickets(r) PROVE PendingOverlapped'
    BY <1>0, <1>15 DEF DissolveTickets, Goto
  <1>16. ASSUME NEW r \in Requests, DissolveCommit(r) PROVE PendingOverlapped'
    <2>1. \A k, u : Pending(k, u)' \subseteq Pending(k, u)
      BY <1>0, <1>16 DEF DissolveCommit
    <2>2. twins' = twins
      BY <1>16 DEF DissolveCommit
    <2> HIDE DEF Pending
    <2> QED BY <1>0, <2>1, <2>2
  <1>17. ASSUME NEW r \in Requests, UploadMember(r) PROVE PendingOverlapped'
    BY <1>0, <1>e, <1>17
       DEF UploadMember, Rejected, End, Goto, Ended
  <1>18. ASSUME NEW r \in Requests, UploadCommit(r) PROVE PendingOverlapped'
    BY <1>0, <1>e, <1>18
       DEF UploadCommit, End, Goto, Ended
  <1>19. ASSUME NEW r \in Requests, RequestFails(r) PROVE PendingOverlapped'
    BY <1>0, <1>e, <1>19
       DEF RequestFails, Rejected, End, Goto, Ended
  <1>20. ASSUME NEW u \in Users, Remove(u) PROVE PendingOverlapped'
    BY <1>0, <1>20 DEF Remove
  <1>21. ASSUME NEW d \in Docs, DeleteDoc(d) PROVE PendingOverlapped'
    BY <1>0, <1>21 DEF DeleteDoc
  <1>22. CASE UNCHANGED vars
    BY <1>0, <1>22
  <1> QED BY <1>1, <1>2, <1>3, <1>4, <1>5, <1>6, <1>7, <1>8, <1>9, <1>10, <1>11,
    <1>12, <1>13, <1>14, <1>15, <1>16, <1>17, <1>18, <1>19, <1>20, <1>21, <1>22
    DEF Next, Start, Continue

\* Deciding a ticket closes it for good.
LEMMA UndecidedStep == IInv /\ [Next]_vars => OpenIsUndecided'
  <1> SUFFICES ASSUME IInv /\ [Next]_vars PROVE OpenIsUndecided'
    OBVIOUS
  <1> USE DEF vars, groupVars, requestVars, TypeOK, RequestsFit, OpenIsUndecided,
              Decisions
  <1>0. TypeOK /\ RequestsFit /\ OpenIsUndecided
    BY DEF IInv
  <1>e. \A r \in Requests : Finish(r) => Ended(r) /\ EndTypes
    BY Ending DEF IInv
  <1>d. \A r \in Requests :
          pc[r] \in {"deciding", "flushed"} /\ Decided(r) => DecidedOnly(r)
    BY Deciding DEF IInv
  <1>1. ASSUME NEW r \in Requests, NEW u \in Users, NEW k \in Kinds, Ask(r, u, k)
       PROVE OpenIsUndecided'
    BY <1>0, <1>1 DEF Ask, Begin, Goto
  <1>2. ASSUME NEW r \in Requests, NEW t \in Tickets, NEW decision \in Decisions,
              Decide(r, t, decision)
       PROVE OpenIsUndecided'
    BY <1>0, <1>2 DEF Decide, Begin, Goto
  <1>3. ASSUME NEW r \in Requests, NEW s \in GroupStatuses, Admin(r, s)
       PROVE OpenIsUndecided'
    BY <1>0, <1>3 DEF Admin, Begin, Goto
  <1>4. ASSUME NEW r \in Requests, NEW u \in Users, Upload(r, u)
       PROVE OpenIsUndecided'
    BY <1>0, <1>4 DEF Upload, Begin, Goto
  <1>5. ASSUME NEW r \in Requests, AskPending(r) PROVE OpenIsUndecided'
    BY <1>0, <1>e, <1>5
       DEF AskPending, Rejected, End, Goto, Ended
  <1>6. ASSUME NEW r \in Requests, AskCommit(r) PROVE OpenIsUndecided'
    BY <1>0, <1>e, <1>6
       DEF AskCommit, End, Goto, Ended
  <1>7. ASSUME NEW r \in Requests, AcceptFlush(r) PROVE OpenIsUndecided'
    BY <1>0, <1>e, <1>7
       DEF AcceptFlush, Rejected, End, Goto, Ended
  <1>8. ASSUME NEW r \in Requests, AcceptCommit(r) PROVE OpenIsUndecided'
    <2>1. /\ pc[r] \in {"deciding", "flushed"} /\ twins' = twins
          /\ Finish(r) /\ late' = [late EXCEPT ![r] = {}]
          /\ Decided(r) \/ UNCHANGED <<ticket, decisions>>
      BY <1>8 DEF AcceptCommit, End
    <2>2. Ended(r) /\ (DecidedOnly(r) \/ UNCHANGED <<ticket, decisions>>)
      BY <1>e, <1>d, <2>1
    <2> QED BY <1>0, <2>2 DEF DecidedOnly
  <1>9. ASSUME NEW r \in Requests, CloseCommit(r) PROVE OpenIsUndecided'
    <2>1. /\ pc[r] \in {"deciding", "flushed"} /\ twins' = twins
          /\ Finish(r) /\ late' = [late EXCEPT ![r] = {}]
          /\ Decided(r) \/ UNCHANGED <<ticket, decisions>>
      BY <1>9 DEF CloseCommit, End
    <2>2. Ended(r) /\ (DecidedOnly(r) \/ UNCHANGED <<ticket, decisions>>)
      BY <1>e, <1>d, <2>1
    <2> QED BY <1>0, <2>2 DEF DecidedOnly
  <1>10. ASSUME NEW r \in Requests, SetStatus(r) PROVE OpenIsUndecided'
    BY <1>0, <1>e, <1>10
       DEF SetStatus, End, Goto, Ended
  <1>11. ASSUME NEW r \in Requests, DissolveMark(r) PROVE OpenIsUndecided'
    BY <1>0, <1>11 DEF DissolveMark, Goto
  <1>12. ASSUME NEW r \in Requests, DissolveDocs(r) PROVE OpenIsUndecided'
    BY <1>0, <1>12 DEF DissolveDocs, Live, Goto
  <1>13. ASSUME NEW r \in Requests, DissolveMembers(r) PROVE OpenIsUndecided'
    BY <1>0, <1>13 DEF DissolveMembers, Goto
  <1>14. ASSUME NEW r \in Requests, DissolveSeek(r) PROVE OpenIsUndecided'
    BY <1>0, <1>14 DEF DissolveSeek, Filed, OfKind, Goto
  <1>15. ASSUME NEW r \in Requests, DissolveTickets(r) PROVE OpenIsUndecided'
    BY <1>0, <1>15 DEF DissolveTickets, Goto
  <1>16. ASSUME NEW r \in Requests, DissolveCommit(r) PROVE OpenIsUndecided'
    BY <1>0, <1>e, <1>16
       DEF DissolveCommit, End, Goto, Ended
  <1>17. ASSUME NEW r \in Requests, UploadMember(r) PROVE OpenIsUndecided'
    BY <1>0, <1>e, <1>17
       DEF UploadMember, Rejected, End, Goto, Ended
  <1>18. ASSUME NEW r \in Requests, UploadCommit(r) PROVE OpenIsUndecided'
    BY <1>0, <1>e, <1>18
       DEF UploadCommit, End, Goto, Ended
  <1>19. ASSUME NEW r \in Requests, RequestFails(r) PROVE OpenIsUndecided'
    BY <1>0, <1>e, <1>19
       DEF RequestFails, Rejected, End, Goto, Ended
  <1>20. ASSUME NEW u \in Users, Remove(u) PROVE OpenIsUndecided'
    BY <1>0, <1>20 DEF Remove
  <1>21. ASSUME NEW d \in Docs, DeleteDoc(d) PROVE OpenIsUndecided'
    BY <1>0, <1>21 DEF DeleteDoc
  <1>22. CASE UNCHANGED vars
    BY <1>0, <1>22
  <1> QED BY <1>1, <1>2, <1>3, <1>4, <1>5, <1>6, <1>7, <1>8, <1>9, <1>10, <1>11,
    <1>12, <1>13, <1>14, <1>15, <1>16, <1>17, <1>18, <1>19, <1>20, <1>21, <1>22
    DEF Next, Start, Continue

\* Only a committed dissolution takes the owner's membership.
LEMMA OwnerStep == IInv /\ [Next]_vars => OwnerStays'
  <1> SUFFICES ASSUME IInv /\ [Next]_vars PROVE OwnerStays'
    OBVIOUS
  <1> USE DEF vars, groupVars, requestVars, TypeOK, OwnerStays
  <1>0. TypeOK /\ OwnerStays
    BY DEF IInv
  <1>e. \A r \in Requests : Finish(r) => Ended(r) /\ EndTypes
    BY Ending DEF IInv
  <1>d. \A r \in Requests :
          pc[r] \in {"deciding", "flushed"} /\ Decided(r) => DecidedOnly(r)
    BY Deciding DEF IInv
  <1>1. ASSUME NEW r \in Requests, NEW u \in Users, NEW k \in Kinds, Ask(r, u, k)
       PROVE OwnerStays'
    BY <1>0, <1>1 DEF Ask, Begin, Goto
  <1>2. ASSUME NEW r \in Requests, NEW t \in Tickets, NEW decision \in Decisions,
              Decide(r, t, decision)
       PROVE OwnerStays'
    BY <1>0, <1>2 DEF Decide, Begin, Goto
  <1>3. ASSUME NEW r \in Requests, NEW s \in GroupStatuses, Admin(r, s)
       PROVE OwnerStays'
    BY <1>0, <1>3 DEF Admin, Begin, Goto
  <1>4. ASSUME NEW r \in Requests, NEW u \in Users, Upload(r, u) PROVE OwnerStays'
    BY <1>0, <1>4 DEF Upload, Begin, Goto
  <1>5. ASSUME NEW r \in Requests, AskPending(r) PROVE OwnerStays'
    BY <1>0, <1>e, <1>5
       DEF AskPending, Rejected, End, Goto, Ended
  <1>6. ASSUME NEW r \in Requests, AskCommit(r) PROVE OwnerStays'
    BY <1>0, <1>e, <1>6
       DEF AskCommit, End, Goto, Ended
  <1>7. ASSUME NEW r \in Requests, AcceptFlush(r) PROVE OwnerStays'
    BY <1>0, <1>e, <1>7
       DEF AcceptFlush, Rejected, End, Goto, Ended
  <1>8. ASSUME NEW r \in Requests, AcceptCommit(r) PROVE OwnerStays'
    BY <1>0, <1>e, <1>d, <1>8
       DEF AcceptCommit, End, Goto, Ended, DecidedOnly
  <1>9. ASSUME NEW r \in Requests, CloseCommit(r) PROVE OwnerStays'
    BY <1>0, <1>e, <1>d, <1>9
       DEF CloseCommit, End, Goto, Ended, DecidedOnly
  <1>10. ASSUME NEW r \in Requests, SetStatus(r) PROVE OwnerStays'
    BY <1>0, <1>e, <1>10
       DEF SetStatus, End, Goto, Ended
  <1>11. ASSUME NEW r \in Requests, DissolveMark(r) PROVE OwnerStays'
    BY <1>0, <1>11 DEF DissolveMark, Goto
  <1>12. ASSUME NEW r \in Requests, DissolveDocs(r) PROVE OwnerStays'
    BY <1>0, <1>12 DEF DissolveDocs, Live, Goto
  <1>13. ASSUME NEW r \in Requests, DissolveMembers(r) PROVE OwnerStays'
    BY <1>0, <1>13 DEF DissolveMembers, Goto
  <1>14. ASSUME NEW r \in Requests, DissolveSeek(r) PROVE OwnerStays'
    BY <1>0, <1>14 DEF DissolveSeek, Filed, OfKind, Goto
  <1>15. ASSUME NEW r \in Requests, DissolveTickets(r) PROVE OwnerStays'
    BY <1>0, <1>15 DEF DissolveTickets, Goto
  <1>16. ASSUME NEW r \in Requests, DissolveCommit(r) PROVE OwnerStays'
    BY <1>0, <1>e, <1>16
       DEF DissolveCommit, End, Goto, Ended
  <1>17. ASSUME NEW r \in Requests, UploadMember(r) PROVE OwnerStays'
    BY <1>0, <1>e, <1>17
       DEF UploadMember, Rejected, End, Goto, Ended
  <1>18. ASSUME NEW r \in Requests, UploadCommit(r) PROVE OwnerStays'
    BY <1>0, <1>e, <1>18
       DEF UploadCommit, End, Goto, Ended
  <1>19. ASSUME NEW r \in Requests, RequestFails(r) PROVE OwnerStays'
    BY <1>0, <1>e, <1>19
       DEF RequestFails, Rejected, End, Goto, Ended
  <1>20. ASSUME NEW u \in Users, Remove(u) PROVE OwnerStays'
    BY <1>0, <1>20 DEF Remove
  <1>21. ASSUME NEW d \in Docs, DeleteDoc(d) PROVE OwnerStays'
    BY <1>0, <1>21 DEF DeleteDoc
  <1>22. CASE UNCHANGED vars
    BY <1>0, <1>22
  <1> QED BY <1>1, <1>2, <1>3, <1>4, <1>5, <1>6, <1>7, <1>8, <1>9, <1>10, <1>11,
    <1>12, <1>13, <1>14, <1>15, <1>16, <1>17, <1>18, <1>19, <1>20, <1>21, <1>22
    DEF Next, Start, Continue

\* The group's row lets one dissolution in at a time.
LEMMA OneStep == IInv /\ [Next]_vars => OneDissolves'
  <1> SUFFICES ASSUME IInv /\ [Next]_vars PROVE OneDissolves'
    OBVIOUS
  <1> USE DEF vars, groupVars, requestVars, TypeOK, OneDissolves, Dissolving,
              GroupLocked
  <1>0. TypeOK /\ OneDissolves
    BY DEF IInv
  <1>e. \A r \in Requests : Finish(r) => Ended(r) /\ EndTypes
    BY Ending DEF IInv
  <1>d. \A r \in Requests :
          pc[r] \in {"deciding", "flushed"} /\ Decided(r) => DecidedOnly(r)
    BY Deciding DEF IInv
  <1>1. ASSUME NEW r \in Requests, NEW u \in Users, NEW k \in Kinds, Ask(r, u, k)
       PROVE OneDissolves'
    BY <1>0, <1>1 DEF Ask, Begin, Goto
  <1>2. ASSUME NEW r \in Requests, NEW t \in Tickets, NEW decision \in Decisions,
              Decide(r, t, decision)
       PROVE OneDissolves'
    BY <1>0, <1>2 DEF Decide, Begin, Goto
  <1>3. ASSUME NEW r \in Requests, NEW s \in GroupStatuses, Admin(r, s)
       PROVE OneDissolves'
    BY <1>0, <1>3 DEF Admin, Begin, Goto
  <1>4. ASSUME NEW r \in Requests, NEW u \in Users, Upload(r, u) PROVE OneDissolves'
    BY <1>0, <1>4 DEF Upload, Begin, Goto
  <1>5. ASSUME NEW r \in Requests, AskPending(r) PROVE OneDissolves'
    BY <1>0, <1>e, <1>5
       DEF AskPending, Rejected, End, Goto, Ended
  <1>6. ASSUME NEW r \in Requests, AskCommit(r) PROVE OneDissolves'
    BY <1>0, <1>e, <1>6
       DEF AskCommit, End, Goto, Ended
  <1>7. ASSUME NEW r \in Requests, AcceptFlush(r) PROVE OneDissolves'
    BY <1>0, <1>e, <1>7
       DEF AcceptFlush, Rejected, End, Goto, Ended
  <1>8. ASSUME NEW r \in Requests, AcceptCommit(r) PROVE OneDissolves'
    BY <1>0, <1>e, <1>d, <1>8
       DEF AcceptCommit, End, Goto, Ended, DecidedOnly
  <1>9. ASSUME NEW r \in Requests, CloseCommit(r) PROVE OneDissolves'
    BY <1>0, <1>e, <1>d, <1>9
       DEF CloseCommit, End, Goto, Ended, DecidedOnly
  <1>10. ASSUME NEW r \in Requests, SetStatus(r) PROVE OneDissolves'
    BY <1>0, <1>e, <1>10
       DEF SetStatus, End, Goto, Ended
  <1>11. ASSUME NEW r \in Requests, DissolveMark(r) PROVE OneDissolves'
    BY <1>0, <1>11 DEF DissolveMark, Goto
  <1>12. ASSUME NEW r \in Requests, DissolveDocs(r) PROVE OneDissolves'
    BY <1>0, <1>12 DEF DissolveDocs, Live, Goto
  <1>13. ASSUME NEW r \in Requests, DissolveMembers(r) PROVE OneDissolves'
    BY <1>0, <1>13 DEF DissolveMembers, Goto
  <1>14. ASSUME NEW r \in Requests, DissolveSeek(r) PROVE OneDissolves'
    BY <1>0, <1>14 DEF DissolveSeek, Filed, OfKind, Goto
  <1>15. ASSUME NEW r \in Requests, DissolveTickets(r) PROVE OneDissolves'
    BY <1>0, <1>15 DEF DissolveTickets, Goto
  <1>16. ASSUME NEW r \in Requests, DissolveCommit(r) PROVE OneDissolves'
    BY <1>0, <1>e, <1>16
       DEF DissolveCommit, End, Goto, Ended
  <1>17. ASSUME NEW r \in Requests, UploadMember(r) PROVE OneDissolves'
    BY <1>0, <1>e, <1>17
       DEF UploadMember, Rejected, End, Goto, Ended
  <1>18. ASSUME NEW r \in Requests, UploadCommit(r) PROVE OneDissolves'
    BY <1>0, <1>e, <1>18
       DEF UploadCommit, End, Goto, Ended
  <1>19. ASSUME NEW r \in Requests, RequestFails(r) PROVE OneDissolves'
    BY <1>0, <1>e, <1>19
       DEF RequestFails, Rejected, End, Goto, Ended
  <1>20. ASSUME NEW u \in Users, Remove(u) PROVE OneDissolves'
    BY <1>0, <1>20 DEF Remove
  <1>21. ASSUME NEW d \in Docs, DeleteDoc(d) PROVE OneDissolves'
    BY <1>0, <1>21 DEF DeleteDoc
  <1>22. CASE UNCHANGED vars
    BY <1>0, <1>22
  <1> QED BY <1>1, <1>2, <1>3, <1>4, <1>5, <1>6, <1>7, <1>8, <1>9, <1>10, <1>11,
    <1>12, <1>13, <1>14, <1>15, <1>16, <1>17, <1>18, <1>19, <1>20, <1>21, <1>22
    DEF Next, Start, Continue

\* Nothing a dissolution knows of escapes it.
LEMMA KnowsStep == IInv /\ [Next]_vars => DissolvingKnows'
  <1> SUFFICES ASSUME IInv /\ [Next]_vars PROVE DissolvingKnows'
    OBVIOUS
  <1> USE DEF vars, groupVars, requestVars, TypeOK, DissolvingKnows, Dissolving
  <1>0. TypeOK /\ DissolvingKnows /\ OneDissolves
    BY DEF IInv
  <1>e. \A r \in Requests : Finish(r) => Ended(r) /\ EndTypes
    BY Ending DEF IInv
  <1>d. \A r \in Requests :
          pc[r] \in {"deciding", "flushed"} /\ Decided(r) => DecidedOnly(r)
    BY Deciding DEF IInv
  <1>1. ASSUME NEW r \in Requests, NEW u \in Users, NEW k \in Kinds, Ask(r, u, k)
       PROVE DissolvingKnows'
    BY <1>0, <1>1 DEF Ask, Begin, Goto
  <1>2. ASSUME NEW r \in Requests, NEW t \in Tickets, NEW decision \in Decisions,
              Decide(r, t, decision)
       PROVE DissolvingKnows'
    BY <1>0, <1>2 DEF Decide, Begin, Goto
  <1>3. ASSUME NEW r \in Requests, NEW s \in GroupStatuses, Admin(r, s)
       PROVE DissolvingKnows'
    BY <1>0, <1>3 DEF Admin, Begin, Goto
  <1>4. ASSUME NEW r \in Requests, NEW u \in Users, Upload(r, u)
       PROVE DissolvingKnows'
    BY <1>0, <1>4 DEF Upload, Begin, Goto
  <1>5. ASSUME NEW r \in Requests, AskPending(r) PROVE DissolvingKnows'
    BY <1>0, <1>e, <1>5
       DEF AskPending, Rejected, End, Goto, Ended
  <1>6. ASSUME NEW r \in Requests, AskCommit(r) PROVE DissolvingKnows'
    BY <1>0, <1>e, <1>6
       DEF AskCommit, End, Goto, Ended
  <1>7. ASSUME NEW r \in Requests, AcceptFlush(r) PROVE DissolvingKnows'
    BY <1>0, <1>e, <1>7
       DEF AcceptFlush, Rejected, End, Goto, Ended
  <1>8. ASSUME NEW r \in Requests, AcceptCommit(r) PROVE DissolvingKnows'
    BY <1>0, <1>e, <1>d, <1>8
       DEF AcceptCommit, End, Goto, Ended, DecidedOnly
  <1>9. ASSUME NEW r \in Requests, CloseCommit(r) PROVE DissolvingKnows'
    BY <1>0, <1>e, <1>d, <1>9
       DEF CloseCommit, End, Goto, Ended, DecidedOnly
  <1>10. ASSUME NEW r \in Requests, SetStatus(r) PROVE DissolvingKnows'
    BY <1>0, <1>e, <1>10
       DEF SetStatus, End, Goto, Ended
  <1>11. ASSUME NEW r \in Requests, DissolveMark(r) PROVE DissolvingKnows'
    BY <1>0, <1>11 DEF DissolveMark, Live, Goto
  <1>12. ASSUME NEW r \in Requests, DissolveDocs(r) PROVE DissolvingKnows'
    BY <1>0, <1>12 DEF DissolveDocs, Live, Goto
  <1>13. ASSUME NEW r \in Requests, DissolveMembers(r) PROVE DissolvingKnows'
    BY <1>0, <1>13 DEF DissolveMembers, Goto
  <1>14. ASSUME NEW r \in Requests, DissolveSeek(r) PROVE DissolvingKnows'
    BY <1>0, <1>14 DEF DissolveSeek, Filed, OfKind, Goto
  <1>15. ASSUME NEW r \in Requests, DissolveTickets(r) PROVE DissolvingKnows'
    BY <1>0, <1>15 DEF DissolveTickets, Goto
  <1>16. ASSUME NEW r \in Requests, DissolveCommit(r) PROVE DissolvingKnows'
    <2>1. \A q \in Requests \ {r} : ~Dissolving(q)
      BY <1>0, <1>16 DEF DissolveCommit, OneDissolves, Dissolving
    <2>2. Ended(r)
      BY <1>16, <1>e DEF DissolveCommit, End
    <2> QED BY <2>1, <2>2 DEF Ended, Dissolving
  <1>17. ASSUME NEW r \in Requests, UploadMember(r) PROVE DissolvingKnows'
    BY <1>0, <1>e, <1>17
       DEF UploadMember, Rejected, End, Goto, Ended
  <1>18. ASSUME NEW r \in Requests, UploadCommit(r) PROVE DissolvingKnows'
    BY <1>0, <1>e, <1>18
       DEF UploadCommit, End, Goto, Ended
  <1>19. ASSUME NEW r \in Requests, RequestFails(r) PROVE DissolvingKnows'
    BY <1>0, <1>e, <1>19
       DEF RequestFails, Rejected, End, Goto, Ended
  <1>20. ASSUME NEW u \in Users, Remove(u) PROVE DissolvingKnows'
    <2>1. \A q \in Requests : /\ known'[q].docs = known[q].docs
                              /\ known'[q].members = known[q].members \ {u}
      <3> SUFFICES ASSUME NEW q \in Requests
                   PROVE  /\ known'[q].docs = known[q].docs
                          /\ known'[q].members = known[q].members \ {u}
        OBVIOUS
      <3>1. known'[q] = [known[q] EXCEPT !.members = known[q].members \ {u}]
        BY <1>20 DEF Remove
      <3>2. known[q] \in Knowledge
        BY <1>0 DEF Knowledge
      <3> QED BY <3>1, <3>2 DEF Knowledge
    <2>2. /\ pc' = pc /\ doc' = doc /\ docs' = docs /\ gone' = gone
          /\ members' = members \ {u}
      BY <1>20 DEF Remove
    <2> QED BY <1>0, <2>1, <2>2
  <1>21. ASSUME NEW d \in Docs, DeleteDoc(d) PROVE DissolvingKnows'
    BY <1>0, <1>21 DEF DeleteDoc
  <1>22. CASE UNCHANGED vars
    BY <1>0, <1>22
  <1> QED BY <1>1, <1>2, <1>3, <1>4, <1>5, <1>6, <1>7, <1>8, <1>9, <1>10, <1>11,
    <1>12, <1>13, <1>14, <1>15, <1>16, <1>17, <1>18, <1>19, <1>20, <1>21, <1>22
    DEF Next, Start, Continue

\* A step leaves the tickets with a row theirs and of their kind ...
Kept ==
  \A t \in Tickets : ticket[t].status \notin {"none", "gone"}
     => ticket'[t].status \notin {"none", "gone"} /\ ticket'[t].kind = ticket[t].kind

\* ... and what a dissolution knows, looks for and has deleted as it was.
Undisturbed(q) ==
  /\ pc'[q] = pc[q] /\ known'[q].tickets = known[q].tickets
  /\ closing'[q] = closing[q] /\ closed'[q] = closed[q]

LEMMA ClearsOn ==
  ASSUME TypeOK, DissolvingClears, Kept, TypeOK',
         \A q \in Requests : Undisturbed(q) \/ ~Dissolving(q)'
  PROVE  DissolvingClears'
  <1> SUFFICES ASSUME NEW q \in Requests, Dissolving(q)'
               PROVE  /\ known'[q].tickets \subseteq Filed'
                      /\ pc'[q] = "uninviting"
                           => OfKind("invitation", known[q].tickets)' \subseteq closing'[q]
                      /\ pc'[q] \in {"uninvited", "unasking", "cleared"}
                           => OfKind("invitation", known[q].tickets)' \subseteq closed'[q]
                      /\ pc'[q] = "unasking"
                           => OfKind("request", known[q].tickets)' \subseteq closing'[q]
                      /\ pc'[q] = "cleared"
                           => OfKind("request", known[q].tickets)' \subseteq closed'[q]
    BY DEF DissolvingClears, Dissolving
  <1>1. Undisturbed(q) /\ Dissolving(q)
    BY DEF Undisturbed, Dissolving
  <1>2. known[q].tickets \subseteq Filed
    BY <1>1 DEF DissolvingClears
  <1>3. known'[q].tickets \subseteq Filed'
    BY <1>1, <1>2 DEF Undisturbed, Filed, Kept
  <1>4. \A k : OfKind(k, known[q].tickets)' = OfKind(k, known[q].tickets)
    BY <1>1, <1>2 DEF Undisturbed, OfKind, Filed, Kept
  <1> QED BY <1>1, <1>3, <1>4 DEF Undisturbed, DissolvingClears

\* No ticket a dissolution knows escapes its DELETEs.
LEMMA ClearsStep == IInv /\ [Next]_vars => DissolvingClears'
  <1> SUFFICES ASSUME IInv /\ [Next]_vars PROVE DissolvingClears'
    OBVIOUS
  <1>0. TypeOK /\ RequestsFit /\ DissolvingClears /\ OneDissolves /\ TypeOK'
    BY TypeStep DEF IInv
  <1>e. \A r \in Requests : Finish(r) => Ended(r) /\ EndTypes
    BY Ending DEF IInv
  <1>d. \A r \in Requests :
          pc[r] \in {"deciding", "flushed"} /\ Decided(r) => DecidedOnly(r)
    BY Deciding DEF IInv
  <1>k. ticket' = ticket => Kept
    BY DEF Kept
  <1>f. \A r \in Requests :
          Finish(r) => \A q \in Requests : Undisturbed(q) \/ ~Dissolving(q)'
    BY <1>e DEF Ended, Undisturbed, Dissolving
  <1>s. \A r \in Requests, step \in Steps :
          pc[r] # step /\ Goto(r, step) /\ UNCHANGED <<closing, closed, known>>
            /\ step \notin {"marked", "emptied", "expelled", "uninviting", "uninvited",
                            "unasking", "cleared"}
          => \A q \in Requests : Undisturbed(q) \/ ~Dissolving(q)'
    BY <1>0 DEF Goto, Undisturbed, Dissolving, TypeOK
  <1> USE <1>0, ClearsOn
  <1>1. ASSUME NEW r \in Requests, NEW u \in Users, NEW k \in Kinds, Ask(r, u, k)
       PROVE DissolvingClears'
    <2>1. /\ ticket' = ticket /\ pc[r] # "asking" /\ Goto(r, "asking")
          /\ UNCHANGED <<closing, closed, known>>
      BY <1>1 DEF Ask, Begin, groupVars
    <2> QED BY <1>k, <1>s, <2>1 DEF Steps
  <1>2. ASSUME NEW r \in Requests, NEW t \in Tickets, NEW decision \in Decisions,
              Decide(r, t, decision)
       PROVE DissolvingClears'
    <2>1. /\ ticket' = ticket /\ pc[r] # "deciding" /\ Goto(r, "deciding")
          /\ UNCHANGED <<closing, closed, known>>
      BY <1>2 DEF Decide, Begin, groupVars
    <2> QED BY <1>k, <1>s, <2>1 DEF Steps
  <1>3. ASSUME NEW r \in Requests, NEW s \in GroupStatuses, Admin(r, s)
       PROVE DissolvingClears'
    <2>1. /\ ticket' = ticket /\ pc[r] # "admin" /\ Goto(r, "admin")
          /\ UNCHANGED <<closing, closed, known>>
      BY <1>3 DEF Admin, Begin, groupVars
    <2> QED BY <1>k, <1>s, <2>1 DEF Steps
  <1>4. ASSUME NEW r \in Requests, NEW u \in Users, Upload(r, u)
       PROVE DissolvingClears'
    <2>1. /\ ticket' = ticket /\ pc[r] # "uploading" /\ Goto(r, "uploading")
          /\ UNCHANGED <<closing, closed, known>>
      BY <1>4 DEF Upload, Begin, groupVars
    <2> QED BY <1>k, <1>s, <2>1 DEF Steps
  <1>5. ASSUME NEW r \in Requests, AskPending(r)
       PROVE DissolvingClears'
    <2>1. /\ ticket' = ticket
          /\ \/ Finish(r)
             \/ pc[r] # "asked" /\ Goto(r, "asked") /\ UNCHANGED <<closing, closed, known>>
      BY <1>5 DEF AskPending, Rejected, End, groupVars
    <2> QED BY <1>k, <1>f, <1>s, <2>1 DEF Steps
  <1>6. ASSUME NEW r \in Requests, AskCommit(r)
       PROVE DissolvingClears'
    <2>1. Finish(r)
      BY <1>6 DEF AskCommit
    <2>2. Kept
      BY <1>6 DEF AskCommit, Kept, TypeOK
    <2> QED BY <1>f, <2>1, <2>2
  <1>7. ASSUME NEW r \in Requests, AcceptFlush(r)
       PROVE DissolvingClears'
    <2>1. /\ ticket' = ticket
          /\ \/ Finish(r)
             \/ pc[r] # "flushed" /\ Goto(r, "flushed") /\ UNCHANGED <<closing, closed, known>>
      BY <1>7 DEF AcceptFlush, Rejected, End, groupVars
    <2> QED BY <1>k, <1>f, <1>s, <2>1 DEF Steps
  <1>8. ASSUME NEW r \in Requests, AcceptCommit(r)
       PROVE DissolvingClears'
    <2>1. /\ pc[r] \in {"deciding", "flushed"} /\ Finish(r)
          /\ Decided(r) \/ ticket' = ticket
      BY <1>8 DEF AcceptCommit, End
    <2>2. Kept
      BY <1>d, <1>k, <2>1 DEF DecidedOnly, Kept, Decisions
    <2> QED BY <1>f, <2>1, <2>2
  <1>9. ASSUME NEW r \in Requests, CloseCommit(r)
       PROVE DissolvingClears'
    <2>1. /\ pc[r] \in {"deciding", "flushed"} /\ Finish(r)
          /\ Decided(r) \/ ticket' = ticket
      BY <1>9 DEF CloseCommit, End
    <2>2. Kept
      BY <1>d, <1>k, <2>1 DEF DecidedOnly, Kept, Decisions
    <2> QED BY <1>f, <2>1, <2>2
  <1>10. ASSUME NEW r \in Requests, SetStatus(r)
       PROVE DissolvingClears'
    <2>1. ticket' = ticket /\ Finish(r)
      BY <1>10 DEF SetStatus, End
    <2> QED BY <1>k, <1>f, <2>1
  <1>11. ASSUME NEW r \in Requests, DissolveMark(r)
       PROVE DissolvingClears'
    <2>1. /\ ticket' = ticket /\ pc' = [pc EXCEPT ![r] = "marked"]
          /\ known' = [known EXCEPT ![r] = [docs |-> Live, members |-> members,
                                          tickets |-> Filed]]
          /\ closing' = closing /\ closed' = closed
      BY <1>11 DEF DissolveMark, Goto, groupVars
    <2>2. pc'[r] = "marked" /\ known'[r].tickets = Filed /\ Filed' = Filed
      BY <2>1 DEF TypeOK, Filed
    <2>3. \A q \in Requests \ {r} : Undisturbed(q)
      BY <2>1 DEF TypeOK, Undisturbed
    <2>4. \A k, S : OfKind(k, S)' = OfKind(k, S')
      BY <2>1 DEF OfKind
    <2> QED BY <2>1, <2>2, <2>3 DEF DissolvingClears, Dissolving, Undisturbed, OfKind
  <1>12. ASSUME NEW r \in Requests, DissolveDocs(r)
       PROVE DissolvingClears'
    BY <1>12 DEF DissolveDocs, Goto, groupVars, TypeOK, DissolvingClears, Dissolving, Filed, OfKind
  <1>13. ASSUME NEW r \in Requests, DissolveMembers(r)
       PROVE DissolvingClears'
    BY <1>13 DEF DissolveMembers, Goto, groupVars, TypeOK, DissolvingClears, Dissolving, Filed, OfKind
  <1>14. ASSUME NEW r \in Requests, DissolveSeek(r)
       PROVE DissolvingClears'
    <2>1. ticket' = ticket /\ known' = known /\ closed' = closed /\ Dissolving(r)
      BY <1>14 DEF DissolveSeek, groupVars, Dissolving
    <2>2. known[r].tickets \subseteq Filed
      BY <2>1 DEF DissolvingClears
    <2>3. \A k : OfKind(k, known[r].tickets) \subseteq OfKind(k, Filed)
      BY <2>2 DEF OfKind
    <2>4. Filed' = Filed /\ \A k : OfKind(k, known[r].tickets)' = OfKind(k, known[r].tickets)
      BY <2>1 DEF Filed, OfKind
    <2>5. \A q \in Requests \ {r} : Undisturbed(q) /\ Dissolving(q)' = Dissolving(q)
      BY <1>14, <2>1 DEF DissolveSeek, Goto, TypeOK, Undisturbed, Dissolving
    <2>6. \A q \in Requests \ {r} : ~Dissolving(q)'
      BY <2>1, <2>5 DEF OneDissolves
    <2>7. \/ /\ pc[r] = "expelled" /\ pc'[r] = "uninviting"
             /\ closing'[r] = OfKind("invitation", Filed)
          \/ /\ pc[r] = "uninvited" /\ pc'[r] = "unasking"
             /\ closing'[r] = OfKind("request", Filed)
      BY <1>14 DEF DissolveSeek, Goto, TypeOK
    <2> QED BY <2>1, <2>2, <2>3, <2>4, <2>6, <2>7 DEF DissolvingClears, Dissolving
  <1>15. ASSUME NEW r \in Requests, DissolveTickets(r)
       PROVE DissolvingClears'
    <2>1. ticket' = ticket /\ known' = known
      BY <1>15 DEF DissolveTickets, groupVars
    <2>2. closed'[r] = closed[r] \cup closing[r]
      BY <1>15 DEF DissolveTickets, TypeOK
    <2>3. \A q \in Requests \ {r} : closed'[q] = closed[q] /\ closing'[q] = closing[q]
      BY <1>15 DEF DissolveTickets, TypeOK
    <2> QED BY <1>15, <2>1, <2>2, <2>3
            DEF DissolveTickets, Goto, TypeOK, DissolvingClears, Dissolving, Filed, OfKind
  <1>16. ASSUME NEW r \in Requests, DissolveCommit(r)
       PROVE DissolvingClears'
    <2>1. \A q \in Requests \ {r} : ~Dissolving(q)
      BY <1>16 DEF DissolveCommit, OneDissolves, Dissolving
    <2>2. Ended(r)
      BY <1>16, <1>e DEF DissolveCommit, End
    <2> QED BY <2>1, <2>2 DEF Ended, Dissolving, DissolvingClears
  <1>17. ASSUME NEW r \in Requests, UploadMember(r)
       PROVE DissolvingClears'
    <2>1. /\ ticket' = ticket
          /\ \/ Finish(r)
             \/ pc[r] # "allowed" /\ Goto(r, "allowed") /\ UNCHANGED <<closing, closed, known>>
      BY <1>17 DEF UploadMember, Rejected, End, groupVars
    <2> QED BY <1>k, <1>f, <1>s, <2>1 DEF Steps
  <1>18. ASSUME NEW r \in Requests, UploadCommit(r)
       PROVE DissolvingClears'
    <2>1. ticket' = ticket /\ Finish(r)
      BY <1>18 DEF UploadCommit, End
    <2> QED BY <1>k, <1>f, <2>1
  <1>19. ASSUME NEW r \in Requests, RequestFails(r)
       PROVE DissolvingClears'
    <2>1. ticket' = ticket /\ Finish(r)
      BY <1>19 DEF RequestFails, Rejected, groupVars, End
    <2> QED BY <1>k, <1>f, <2>1
  <1>20. ASSUME NEW u \in Users, Remove(u)
       PROVE DissolvingClears'
    <2>1. /\ ticket' = ticket /\ pc' = pc /\ closing' = closing /\ closed' = closed
          /\ known' = [q \in Requests |-> [known[q] EXCEPT !.members = @ \ {u}]]
      BY <1>20 DEF Remove
    <2>2. \A q \in Requests : Undisturbed(q)
      BY <2>1 DEF Undisturbed, TypeOK
    <2> QED BY <1>k, <2>1, <2>2
  <1>21. ASSUME NEW d \in Docs, DeleteDoc(d)
       PROVE DissolvingClears'
    <2>1. ticket' = ticket /\ \A q \in Requests : Undisturbed(q)
      BY <1>21 DEF DeleteDoc, requestVars, Undisturbed
    <2> QED BY <1>k, <2>1
  <1>22. CASE UNCHANGED vars
    <2>1. ticket' = ticket /\ \A q \in Requests : Undisturbed(q)
      BY <1>22 DEF vars, groupVars, requestVars, Undisturbed
    <2> QED BY <1>k, <2>1
  <1> QED BY <1>1, <1>2, <1>3, <1>4, <1>5, <1>6, <1>7, <1>8, <1>9, <1>10, <1>11,
    <1>12, <1>13, <1>14, <1>15, <1>16, <1>17, <1>18, <1>19, <1>20, <1>21, <1>22
    DEF Next, Start, Continue

\* The decisions on a ticket, made and to come, stay bounded.
LEMMA BoundStep == IInv /\ [Next]_vars => DecisionsBounded'
  <1> SUFFICES ASSUME IInv /\ [Next]_vars
               PROVE  \A t \in Tickets :
                        decisions'[t] + Cardinality(Deciders(t)') <= Cardinality(Requests)
    BY DEF DecisionsBounded, Deciders
  <1> DEFINE Bounded ==
        \A m \in Tickets :
          decisions[m] + Cardinality(Deciders(m)) <= Cardinality(Requests)
  <1> USE DEF vars, groupVars, requestVars
  <1>g. GroupAssumption
    BY GroupAssumption
  <1>t. TypeOK /\ RequestsFit /\ OpenIsUndecided
    BY DEF IInv
  <1>0. /\ IsFiniteSet(Requests) /\ Cardinality(Requests) \in Nat
        /\ \A t \in Tickets :
             /\ decisions[t] \in Nat /\ IsFiniteSet(Deciders(t))
             /\ Cardinality(Deciders(t)) \in Nat
             /\ decisions[t] + Cardinality(Deciders(t)) <= Cardinality(Requests)
    <2>1. IsFiniteSet(Requests) /\ DecisionsBounded /\ TypeOK
      BY GroupAssumption DEF IInv, GroupAssumption
    <2>2. \A t \in Tickets : Deciders(t) \subseteq Requests
      BY DEF Deciders
    <2> QED BY <2>1, <2>2, FewerElements, FS_CardinalityType
            DEF DecisionsBounded, Deciders, TypeOK
  <1>a. \A t \in Tickets : Deciders(t)' \subseteq Deciders(t)
          => /\ Cardinality(Deciders(t)') <= Cardinality(Deciders(t))
             /\ Cardinality(Deciders(t)') \in Nat
    BY <1>0, FewerElements
  <1>e. \A r \in Requests : Finish(r) => Ended(r) /\ EndTypes
    BY Ending DEF IInv
  <1>d. \A r \in Requests :
          pc[r] \in {"deciding", "flushed"} /\ Decided(r) => DecidedOnly(r)
    BY Deciding DEF IInv
  <1>1. ASSUME NEW r \in Requests, NEW u \in Users, NEW k \in Kinds, Ask(r, u, k)
       PROVE Bounded'
    <2>1. decisions' = decisions /\ \A t \in Tickets : Deciders(t)' \subseteq Deciders(t)
      BY <1>g, <1>t, <1>0, <1>a, <1>e, <1>d, <1>1
         DEF Deciders, Ask, Begin, Goto, Ended, DecidedOnly, TypeOK
    <2> QED BY <1>0, <1>a, <2>1
  <1>2. ASSUME NEW r \in Requests, NEW t \in Tickets, NEW decision \in Decisions,
              Decide(r, t, decision)
       PROVE Bounded'
    <2>1. decisions' = decisions /\ decisions[t] = 0
      BY <1>g, <1>t, <1>0, <1>a, <1>e, <1>d, <1>2
         DEF Decide, Begin, Goto, OpenIsUndecided, groupVars
    <2>2. \A m \in Tickets : m # t => Deciders(m)' \subseteq Deciders(m)
      BY <1>g, <1>t, <1>0, <1>a, <1>e, <1>d, <1>2
         DEF Deciders, Decide, Begin, Goto, Ended, DecidedOnly, TypeOK
    <2>3. Deciders(t)' \subseteq Requests
      BY DEF Deciders
    <2>4. Cardinality(Deciders(t)') <= Cardinality(Requests) /\ Cardinality(Deciders(t)') \in Nat
      BY <1>0, <2>3, FewerElements
    <2> QED BY <1>0, <1>a, <2>1, <2>2, <2>4
  <1>3. ASSUME NEW r \in Requests, NEW s \in GroupStatuses, Admin(r, s)
       PROVE Bounded'
    <2>1. decisions' = decisions /\ \A t \in Tickets : Deciders(t)' \subseteq Deciders(t)
      BY <1>g, <1>t, <1>0, <1>a, <1>e, <1>d, <1>3
         DEF Deciders, Admin, Begin, Goto, Ended, DecidedOnly, TypeOK
    <2> QED BY <1>0, <1>a, <2>1
  <1>4. ASSUME NEW r \in Requests, NEW u \in Users, Upload(r, u)
       PROVE Bounded'
    <2>1. decisions' = decisions /\ \A t \in Tickets : Deciders(t)' \subseteq Deciders(t)
      BY <1>g, <1>t, <1>0, <1>a, <1>e, <1>d, <1>4
         DEF Deciders, Upload, Begin, Goto, Ended, DecidedOnly, TypeOK
    <2> QED BY <1>0, <1>a, <2>1
  <1>5. ASSUME NEW r \in Requests, AskPending(r) PROVE Bounded'
    <2>1. decisions' = decisions /\ \A t \in Tickets : Deciders(t)' \subseteq Deciders(t)
      BY <1>g, <1>t, <1>0, <1>a, <1>e, <1>d, <1>5
         DEF Deciders, AskPending, Rejected, End, Goto, Ended, DecidedOnly, TypeOK
    <2> QED BY <1>0, <1>a, <2>1
  <1>6. ASSUME NEW r \in Requests, AskCommit(r) PROVE Bounded'
    <2>1. decisions' = decisions /\ \A t \in Tickets : Deciders(t)' \subseteq Deciders(t)
      BY <1>g, <1>t, <1>0, <1>a, <1>e, <1>d, <1>6
         DEF Deciders, AskCommit, End, Goto, Ended, DecidedOnly, TypeOK
    <2> QED BY <1>0, <1>a, <2>1
  <1>7. ASSUME NEW r \in Requests, AcceptFlush(r) PROVE Bounded'
    <2>1. decisions' = decisions /\ \A t \in Tickets : Deciders(t)' \subseteq Deciders(t)
      BY <1>g, <1>t, <1>0, <1>a, <1>e, <1>d, <1>7
         DEF Deciders, AcceptFlush, Rejected, End, Goto, Ended, DecidedOnly, TypeOK
    <2> QED BY <1>0, <1>a, <2>1
  <1>8. ASSUME NEW r \in Requests, AcceptCommit(r) PROVE Bounded'
    <2>a. PICK t \in Tickets : t = about[r]
      BY <1>g, <1>t, <1>0, <1>a, <1>e, <1>d, <1>8 DEF RequestsFit, AcceptCommit
    <2>0. t \in Tickets /\ r \in Deciders(t)
      BY <1>g, <1>t, <1>0, <1>a, <1>e, <1>d, <1>8, <2>a DEF Deciders, AcceptCommit
    <2>1. \A m \in Tickets : Deciders(m)' \subseteq Deciders(m)
      BY <1>g, <1>t, <1>0, <1>a, <1>e, <1>d, <1>8
         DEF Deciders, AcceptCommit, End, Goto, Ended, DecidedOnly, TypeOK
    <2>2. Deciders(t)' \subseteq Deciders(t) \ {r}
      <3>1. Ended(r)
        BY <1>g, <1>t, <1>0, <1>a, <1>e, <1>d, <1>8 DEF AcceptCommit, End, Goto
      <3> QED BY <2>1, <3>1 DEF Deciders, Ended
    <2>3. \A m \in Tickets : m # t => decisions'[m] = decisions[m]
      BY <1>g, <1>t, <1>0, <1>a, <1>e, <1>d, <1>8, <2>0, <2>a
         DEF AcceptCommit, End, Goto, DecidedOnly
    <2>4. decisions'[t] \in {decisions[t], decisions[t] + 1}
      BY <1>g, <1>t, <1>0, <1>a, <1>e, <1>d, <1>8, <2>0, <2>a
         DEF AcceptCommit, End, Goto, DecidedOnly
    <2>5. Cardinality(Deciders(t) \ {r}) = Cardinality(Deciders(t)) - 1
      BY <1>0, <2>0, OneLess
    <2>6. IsFiniteSet(Deciders(t) \ {r})
      BY <1>0, <2>0, FewerElements
    <2>7. Cardinality(Deciders(t)') <= Cardinality(Deciders(t)) - 1
      BY <2>2, <2>5, <2>6, FewerElements
    <2>8. \A m \in Tickets : /\ decisions[m] \in Nat /\ Cardinality(Deciders(m)) \in Nat
                             /\ Cardinality(Deciders(m)') \in Nat
                             /\ decisions'[t] \in Nat
      <3>1. decisions'[t] \in Nat
        BY <1>0, <2>0, <2>4
      <3> QED BY <1>0, <1>a, <2>1, <3>1
    <2>9. decisions'[t] + Cardinality(Deciders(t)') <= Cardinality(Requests)
      BY <1>0, <2>0, <2>4, <2>7, <2>8, OneDecided
    <2>10. ASSUME NEW m \in Tickets, m # t
           PROVE  decisions'[m] + Cardinality(Deciders(m)') <= Cardinality(Requests)
      <3>1. decisions'[m] = decisions[m] /\ Cardinality(Deciders(m)') <= Cardinality(Deciders(m))
        BY <1>a, <2>1, <2>3, <2>10
      <3> QED BY <1>0, <2>8, <3>1
    <2> QED BY <2>9, <2>10
  <1>9. ASSUME NEW r \in Requests, CloseCommit(r) PROVE Bounded'
    <2>a. PICK t \in Tickets : t = about[r]
      BY <1>g, <1>t, <1>0, <1>a, <1>e, <1>d, <1>9 DEF RequestsFit, CloseCommit
    <2>0. t \in Tickets /\ r \in Deciders(t)
      BY <1>g, <1>t, <1>0, <1>a, <1>e, <1>d, <1>9, <2>a DEF Deciders, CloseCommit
    <2>1. \A m \in Tickets : Deciders(m)' \subseteq Deciders(m)
      BY <1>g, <1>t, <1>0, <1>a, <1>e, <1>d, <1>9
         DEF Deciders, CloseCommit, End, Goto, Ended, DecidedOnly, TypeOK
    <2>2. Deciders(t)' \subseteq Deciders(t) \ {r}
      <3>1. Ended(r)
        BY <1>g, <1>t, <1>0, <1>a, <1>e, <1>d, <1>9 DEF CloseCommit, End, Goto
      <3> QED BY <2>1, <3>1 DEF Deciders, Ended
    <2>3. \A m \in Tickets : m # t => decisions'[m] = decisions[m]
      BY <1>g, <1>t, <1>0, <1>a, <1>e, <1>d, <1>9, <2>0, <2>a
         DEF CloseCommit, End, Goto, DecidedOnly
    <2>4. decisions'[t] \in {decisions[t], decisions[t] + 1}
      BY <1>g, <1>t, <1>0, <1>a, <1>e, <1>d, <1>9, <2>0, <2>a
         DEF CloseCommit, End, Goto, DecidedOnly
    <2>5. Cardinality(Deciders(t) \ {r}) = Cardinality(Deciders(t)) - 1
      BY <1>0, <2>0, OneLess
    <2>6. IsFiniteSet(Deciders(t) \ {r})
      BY <1>0, <2>0, FewerElements
    <2>7. Cardinality(Deciders(t)') <= Cardinality(Deciders(t)) - 1
      BY <2>2, <2>5, <2>6, FewerElements
    <2>8. \A m \in Tickets : /\ decisions[m] \in Nat /\ Cardinality(Deciders(m)) \in Nat
                             /\ Cardinality(Deciders(m)') \in Nat
                             /\ decisions'[t] \in Nat
      <3>1. decisions'[t] \in Nat
        BY <1>0, <2>0, <2>4
      <3> QED BY <1>0, <1>a, <2>1, <3>1
    <2>9. decisions'[t] + Cardinality(Deciders(t)') <= Cardinality(Requests)
      BY <1>0, <2>0, <2>4, <2>7, <2>8, OneDecided
    <2>10. ASSUME NEW m \in Tickets, m # t
           PROVE  decisions'[m] + Cardinality(Deciders(m)') <= Cardinality(Requests)
      <3>1. decisions'[m] = decisions[m] /\ Cardinality(Deciders(m)') <= Cardinality(Deciders(m))
        BY <1>a, <2>1, <2>3, <2>10
      <3> QED BY <1>0, <2>8, <3>1
    <2> QED BY <2>9, <2>10
  <1>10. ASSUME NEW r \in Requests, SetStatus(r) PROVE Bounded'
    <2>1. decisions' = decisions /\ \A t \in Tickets : Deciders(t)' \subseteq Deciders(t)
      BY <1>g, <1>t, <1>0, <1>a, <1>e, <1>d, <1>10
         DEF Deciders, SetStatus, End, Goto, Ended, DecidedOnly, TypeOK
    <2> QED BY <1>0, <1>a, <2>1
  <1>11. ASSUME NEW r \in Requests, DissolveMark(r) PROVE Bounded'
    <2>1. decisions' = decisions /\ \A t \in Tickets : Deciders(t)' \subseteq Deciders(t)
      BY <1>g, <1>t, <1>0, <1>a, <1>e, <1>d, <1>11
         DEF Deciders, DissolveMark, Goto, Ended, DecidedOnly, TypeOK
    <2> QED BY <1>0, <1>a, <2>1
  <1>12. ASSUME NEW r \in Requests, DissolveDocs(r) PROVE Bounded'
    <2>1. decisions' = decisions /\ \A t \in Tickets : Deciders(t)' \subseteq Deciders(t)
      BY <1>g, <1>t, <1>0, <1>a, <1>e, <1>d, <1>12
         DEF Deciders, DissolveDocs, Live, Goto, Ended, DecidedOnly, TypeOK
    <2> QED BY <1>0, <1>a, <2>1
  <1>13. ASSUME NEW r \in Requests, DissolveMembers(r) PROVE Bounded'
    <2>1. decisions' = decisions /\ \A t \in Tickets : Deciders(t)' \subseteq Deciders(t)
      BY <1>g, <1>t, <1>0, <1>a, <1>e, <1>d, <1>13
         DEF Deciders, DissolveMembers, Goto, Ended, DecidedOnly, TypeOK
    <2> QED BY <1>0, <1>a, <2>1
  <1>14. ASSUME NEW r \in Requests, DissolveSeek(r) PROVE Bounded'
    <2>1. decisions' = decisions /\ \A t \in Tickets : Deciders(t)' \subseteq Deciders(t)
      BY <1>g, <1>t, <1>0, <1>a, <1>e, <1>d, <1>14
         DEF Deciders, DissolveSeek, Goto, Ended, DecidedOnly, TypeOK
    <2> QED BY <1>0, <1>a, <2>1
  <1>15. ASSUME NEW r \in Requests, DissolveTickets(r) PROVE Bounded'
    <2>1. decisions' = decisions /\ \A t \in Tickets : Deciders(t)' \subseteq Deciders(t)
      BY <1>g, <1>t, <1>0, <1>a, <1>e, <1>d, <1>15
         DEF Deciders, DissolveTickets, Goto, Ended, DecidedOnly, TypeOK
    <2> QED BY <1>0, <1>a, <2>1
  <1>16. ASSUME NEW r \in Requests, DissolveCommit(r) PROVE Bounded'
    <2>1. decisions' = decisions /\ \A t \in Tickets : Deciders(t)' \subseteq Deciders(t)
      BY <1>g, <1>t, <1>0, <1>a, <1>e, <1>d, <1>16
         DEF Deciders, DissolveCommit, End, Goto, Ended, DecidedOnly, TypeOK
    <2> QED BY <1>0, <1>a, <2>1
  <1>17. ASSUME NEW r \in Requests, UploadMember(r) PROVE Bounded'
    <2>1. decisions' = decisions /\ \A t \in Tickets : Deciders(t)' \subseteq Deciders(t)
      BY <1>g, <1>t, <1>0, <1>a, <1>e, <1>d, <1>17
         DEF Deciders, UploadMember, Rejected, End, Goto, Ended, DecidedOnly, TypeOK
    <2> QED BY <1>0, <1>a, <2>1
  <1>18. ASSUME NEW r \in Requests, UploadCommit(r) PROVE Bounded'
    <2>1. decisions' = decisions /\ \A t \in Tickets : Deciders(t)' \subseteq Deciders(t)
      BY <1>g, <1>t, <1>0, <1>a, <1>e, <1>d, <1>18
         DEF Deciders, UploadCommit, End, Goto, Ended, DecidedOnly, TypeOK
    <2> QED BY <1>0, <1>a, <2>1
  <1>19. ASSUME NEW r \in Requests, RequestFails(r) PROVE Bounded'
    <2>1. decisions' = decisions /\ \A t \in Tickets : Deciders(t)' \subseteq Deciders(t)
      BY <1>g, <1>t, <1>0, <1>a, <1>e, <1>d, <1>19
         DEF Deciders, RequestFails, Rejected, End, Goto, Ended, DecidedOnly, TypeOK
    <2> QED BY <1>0, <1>a, <2>1
  <1>20. ASSUME NEW u \in Users, Remove(u) PROVE Bounded'
    <2>1. decisions' = decisions /\ \A t \in Tickets : Deciders(t)' \subseteq Deciders(t)
      BY <1>g, <1>t, <1>0, <1>a, <1>e, <1>d, <1>20
         DEF Deciders, Remove, Ended, DecidedOnly, TypeOK
    <2> QED BY <1>0, <1>a, <2>1
  <1>21. ASSUME NEW d \in Docs, DeleteDoc(d) PROVE Bounded'
    <2>1. decisions' = decisions /\ \A t \in Tickets : Deciders(t)' \subseteq Deciders(t)
      BY <1>g, <1>t, <1>0, <1>a, <1>e, <1>d, <1>21
         DEF Deciders, DeleteDoc, Ended, DecidedOnly, TypeOK
    <2> QED BY <1>0, <1>a, <2>1
  <1>22. ASSUME UNCHANGED vars PROVE Bounded'
    <2>1. decisions' = decisions /\ \A t \in Tickets : Deciders(t)' = Deciders(t)
      BY <1>g, <1>t, <1>0, <1>a, <1>22 DEF Deciders
    <2> QED BY <1>0, <2>1
  <1> QED BY <1>1, <1>2, <1>3, <1>4, <1>5, <1>6, <1>7, <1>8, <1>9, <1>10, <1>11,
    <1>12, <1>13, <1>14, <1>15, <1>16, <1>17, <1>18, <1>19, <1>20, <1>21, <1>22
    DEF Next, Start, Continue

\* Every step preserves the invariant.
LEMMA NextIInv == IInv /\ [Next]_vars => IInv'
  BY TypeStep, FitStep, AskedStep, PendingStep, UndecidedStep, OwnerStep, OneStep,
     KnowsStep, ClearsStep, BoundStep DEF IInv

\* Every reachable state satisfies it.
LEMMA Invariance == Spec => []IInv
  BY InitIInv, NextIInv, PTL DEF Spec

\* Status, members, tickets and documents keep their types.
THEOREM TypeCorrect == Spec => []TypeOK
  <1>1. IInv => TypeOK
    BY DEF IInv
  <1> QED BY Invariance, <1>1, PTL

\* submit_request and create_invitation make a second PENDING ticket for a user only
\* if one of them had looked before the other was committed.
THEOREM PendingNeedsOverlap == Spec => []PendingOverlapped
  <1>1. IInv => PendingOverlapped
    BY DEF IInv
  <1> QED BY Invariance, <1>1, PTL

\* respond_invitation, cancel_invitation and process_request decide a ticket again only
\* while requests that found it PENDING overlap.
THEOREM DecisionsStayBounded == Spec => []DecisionsBounded
  <1>1. IInv => DecisionsBounded
    BY DEF IInv
  <1> QED BY Invariance, <1>1, PTL

\* No removal, failed dissolution or decision takes the owner's membership.
THEOREM OwnerIsNeverRemoved == Spec => []OwnerStays
  <1>1. IInv => OwnerStays
    BY DEF IInv
  <1> QED BY Invariance, <1>1, PTL

\* admin_dissolve_group leaves nothing of what was there when it marked the group: no
\* live document, member or ticket, whatever is committed between its statements and
\* however long its DELETEs wait. Tickets filed after a DELETE has started can survive.
THEOREM DissolutionIsComplete == Spec => DissolveIsComplete
  <1>1. IInv /\ [Next]_vars
          => [\A r \in Requests :
                pc[r] = "cleared" /\ pc'[r] = "idle" /\ status' = "DELETED"
                  /\ status # "DELETED"
                => /\ \A d \in known[r].docs : doc'[d] = "deleted"
                   /\ members' \cap known[r].members = {}
                   /\ \A t \in known[r].tickets : ticket'[t].status = "gone"]_vars
    <2> SUFFICES ASSUME IInv, Next, NEW r \in Requests, pc[r] = "cleared",
                        status' = "DELETED", status # "DELETED"
                 PROVE  /\ \A d \in known[r].docs : doc'[d] = "deleted"
                        /\ members' \cap known[r].members = {}
                        /\ \A t \in known[r].tickets : ticket'[t].status = "gone"
      OBVIOUS
    <2>1. PICK q \in Requests : SetStatus(q) \/ DissolveCommit(q)
      BY
         DEF Next, Start, Continue, Ask, Decide, Admin, Upload, Begin, groupVars,
             Rejected,
             AskPending, AskCommit, AcceptFlush, AcceptCommit, CloseCommit, DissolveMark,
             DissolveDocs, DissolveMembers, DissolveSeek, DissolveTickets, UploadMember,
             UploadCommit, RequestFails, Remove, DeleteDoc
    <2>2. DissolveCommit(q)
      BY <2>1 DEF SetStatus, GroupLocked, Dissolving
    <2>3. q = r
      BY <2>2 DEF IInv, OneDissolves, Dissolving, DissolveCommit
    <2>4. TypeOK /\ DissolvingKnows /\ DissolvingClears /\ Dissolving(r)
      BY DEF IInv, Dissolving
    <2>5. known[r].docs \subseteq Docs /\ known[r].tickets \subseteq Tickets
      BY <2>4 DEF TypeOK
    <2>6. \A d \in known[r].docs : doc'[d] = "deleted"
      BY <2>2, <2>3, <2>4, <2>5 DEF DissolveCommit, DissolvingKnows
    <2>7. members' \cap known[r].members = {}
      BY <2>2, <2>3, <2>4 DEF DissolveCommit, DissolvingKnows
    <2>8. ASSUME NEW t \in known[r].tickets PROVE ticket'[t].status = "gone"
      <3>1. t \in Tickets /\ ticket[t].kind \in Kinds
        BY <2>4, <2>5 DEF TypeOK
      <3>2. t \in closed[r]
        BY <2>4, <3>1 DEF DissolvingClears, OfKind, Kinds
      <3>3. [ticket[t] EXCEPT !.status = "gone"].status = "gone"
        BY <2>4, <3>1 DEF TypeOK
      <3> QED BY <2>2, <2>3, <3>1, <3>2, <3>3 DEF DissolveCommit
    <2> QED BY <2>6, <2>7, <2>8
  <1> QED BY Invariance, <1>1, PTL DEF Spec, DissolveIsComplete

=============================================================================
