-------------------------- MODULE GroupMembership --------------------------
(***************************************************************************)
(* One group: its status, members, invitations, join requests and          *)
(* documents, under concurrent requests of its owner, of users and of      *)
(* administrators. A request is one PostgreSQL transaction at READ         *)
(* COMMITTED; row locks held across statements are part of the model.      *)
(* Sources: app/group/service.py, app/group/router.py.                     *)
(* An invitation and a join request are both a "ticket"; APPROVED and      *)
(* REJECTED, the words join requests use, are ACCEPTED and REFUSED here.   *)
(***************************************************************************)
EXTENDS Naturals, FiniteSets

CONSTANTS
  Requests, (* requests that can be in progress at once            *)
  Users,    (* users without the ADMIN role                        *)
  Owner,    (* groups.owner_user_id                                *)
  Tickets,  (* bound: invitations and join requests ever created   *)
  Docs,     (* bound: documents ever uploaded to the group         *)
  NoTicket  (* no ticket                                           *)

ASSUME GroupAssumption ==
  /\ IsFiniteSet(Requests)
  /\ IsFiniteSet(Tickets)
  /\ Owner \in Users
  /\ NoTicket \notin Tickets

VARIABLES
  status,    \* groups.status
  members,   \* users with a row in group_memberships
  ticket,    \* group_invitations and group_join_requests
  doc,       \* documents of the group: not uploaded, live or soft-deleted
  decisions, \* history: how often a ticket has been decided
  dissolved, \* history: a dissolution has been committed
  twins,     \* history: pairs of tickets, the second not there when the first was checked
  pc,        \* where each request is
  user,      \* the user it is about
  about,     \* the ticket it is about
  what,      \* the kind it creates, the decision or the status it writes
  sawMember, \* whether it found a membership when it accepted
  docs,      \* documents a dissolution has soft-deleted, uncommitted
  gone,      \* members a dissolution has deleted, uncommitted
  closing,   \* tickets a dissolution's DELETE has found and waits for
  closed,    \* tickets a dissolution has deleted, uncommitted
  late,      \* history: tickets created since the request looked for one
  known      \* history: what has been there since a dissolution marked the group

groupVars == <<status, members, ticket, doc, decisions, dissolved, twins>>
requestVars == <<pc, user, about, what, sawMember, docs, gone, closing, closed, late, known>>
vars == <<groupVars, requestVars>>

Kinds == {"invitation", "request"}
Decisions == {"ACCEPTED", "REFUSED", "CANCELLED"}
GroupStatuses == {"ACTIVE", "DISABLED", "DELETED"}
Steps == {"idle", "asking", "asked", "deciding", "flushed", "admin", "marked",
          "emptied", "expelled", "uninviting", "uninvited", "unasking", "cleared",
          "uploading", "allowed"}

TypeOK ==
  /\ status \in GroupStatuses
  /\ members \subseteq Users
  /\ ticket \in [Tickets -> [kind : Kinds, user : Users,
                             status : Decisions \cup {"none", "PENDING", "gone"}]]
  /\ doc \in [Docs -> {"none", "live", "deleted"}]
  /\ decisions \in [Tickets -> Nat]
  /\ dissolved \in BOOLEAN
  /\ twins \subseteq SUBSET Tickets
  /\ pc \in [Requests -> Steps]
  /\ user \in [Requests -> Users]
  /\ about \in [Requests -> Tickets \cup {NoTicket}]
  /\ what \in [Requests -> Kinds \cup Decisions \cup GroupStatuses \cup {"none"}]
  /\ sawMember \in [Requests -> BOOLEAN]
  /\ docs \in [Requests -> SUBSET Docs]
  /\ gone \in [Requests -> SUBSET Users]
  /\ closing \in [Requests -> SUBSET Tickets]
  /\ closed \in [Requests -> SUBSET Tickets]
  /\ late \in [Requests -> SUBSET Tickets]
  /\ known \in [Requests -> [docs : SUBSET Docs, members : SUBSET Users,
                             tickets : SUBSET Tickets]]

\* What a request without a dissolution knows.
Nothing == [docs |-> {}, members |-> {}, tickets |-> {}]

\* create_group: the owner is the first member.
Init ==
  /\ status = "ACTIVE"
  /\ members = {Owner}
  /\ ticket = [t \in Tickets |->
                 [kind |-> "request", user |-> Owner, status |-> "none"]]
  /\ doc = [d \in Docs |-> "none"]
  /\ decisions = [t \in Tickets |-> 0]
  /\ dissolved = FALSE
  /\ twins = {}
  /\ pc = [r \in Requests |-> "idle"]
  /\ user = [r \in Requests |-> Owner]
  /\ about = [r \in Requests |-> NoTicket]
  /\ what = [r \in Requests |-> "none"]
  /\ sawMember = [r \in Requests |-> FALSE]
  /\ docs = [r \in Requests |-> {}]
  /\ gone = [r \in Requests |-> {}]
  /\ closing = [r \in Requests |-> {}]
  /\ closed = [r \in Requests |-> {}]
  /\ late = [r \in Requests |-> {}]
  /\ known = [r \in Requests |-> Nothing]

-----------------------------------------------------------------------------

Live == {d \in Docs : doc[d] = "live"}

Pending(k, u) ==
  {t \in Tickets : ticket[t].kind = k /\ ticket[t].user = u
                     /\ ticket[t].status = "PENDING"}

\* Tickets with a row.
Filed == {t \in Tickets : ticket[t].status \notin {"none", "gone"}}
OfKind(k, S) == {t \in S : ticket[t].kind = k}

\* Row locks: tickets an acceptance has updated, the group and the rows of a
\* dissolution in progress.
TicketLocked(t) ==
  \E q \in Requests : (pc[q] = "flushed" /\ about[q] = t) \/ t \in closed[q]
Dissolving(q) == pc[q] \in {"marked", "emptied", "expelled", "uninviting",
                           "uninvited", "unasking", "cleared"}
GroupLocked == \E q \in Requests : Dissolving(q)
MemberLocked(u) == \E q \in Requests : u \in gone[q]
DocLocked(d) == \E q \in Requests : d \in docs[q]

Goto(r, step) == pc' = [pc EXCEPT ![r] = step]

\* The request begins with a read that finds what it needs.
Begin(r, step, u, t, w) ==
  /\ pc[r] = "idle"
  /\ Goto(r, step)
  /\ user' = [user EXCEPT ![r] = u]
  /\ about' = [about EXCEPT ![r] = t]
  /\ what' = [what EXCEPT ![r] = w]
  /\ UNCHANGED <<groupVars, sawMember, docs, gone, closing, closed, late, known>>

Finish(r) ==
  /\ Goto(r, "idle")
  /\ user' = [user EXCEPT ![r] = Owner]
  /\ about' = [about EXCEPT ![r] = NoTicket]
  /\ what' = [what EXCEPT ![r] = "none"]
  /\ sawMember' = [sawMember EXCEPT ![r] = FALSE]
  /\ docs' = [docs EXCEPT ![r] = {}]
  /\ gone' = [gone EXCEPT ![r] = {}]
  /\ closing' = [closing EXCEPT ![r] = {}]
  /\ closed' = [closed EXCEPT ![r] = {}]
  /\ known' = [known EXCEPT ![r] = Nothing]

\* The request ends, by commit or rollback.
End(r) == Finish(r) /\ late' = [late EXCEPT ![r] = {}]

\* The request ends and has changed nothing.
Rejected(r) == End(r) /\ UNCHANGED groupVars

-----------------------------------------------------------------------------
(* create_invitation by the owner, submit_request by the user. Neither     *)
(* looks at the status of the group.                                       *)

Ask(r, u, k) == u \notin members /\ Begin(r, "asking", u, NoTicket, k)

\* Faulty variant: no look for a row that is already PENDING.
AskPendingUnchecked(r) ==
  /\ pc[r] = "asking"
  /\ Goto(r, "asked")
  /\ UNCHANGED <<groupVars, user, about, what, sawMember, docs, gone, closing,
                 closed, late, known>>

\* One PENDING row is an error message, two raise MultipleResultsFound.
AskPending(r) ==
  /\ pc[r] = "asking"
  /\ \/ /\ Pending(what[r], user[r]) = {}
        /\ Goto(r, "asked")
        /\ UNCHANGED <<groupVars, user, about, what, sawMember, docs, gone,
                       closing, closed, late, known>>
     \/ /\ Pending(what[r], user[r]) # {}
        /\ Rejected(r)

\* The row is inserted, and seen by those that look from now on.
AskCommit(r) ==
  /\ pc[r] = "asked"
  /\ \E t \in Tickets :
       /\ ticket[t].status = "none"
       /\ ticket' = [ticket EXCEPT ![t] = [kind |-> what[r], user |-> user[r],
                                           status |-> "PENDING"]]
       /\ twins' = twins \cup {{t, m} : m \in late[r]}
       /\ late' = [q \in Requests |->
                     IF q = r THEN {}
                     ELSE IF pc[q] = "asked" /\ what[q] = what[r] /\ user[q] = user[r]
                     THEN late[q] \cup {t} ELSE late[q]]
  /\ Finish(r)
  /\ UNCHANGED <<status, members, doc, decisions, dissolved>>

-----------------------------------------------------------------------------
(* respond_invitation, cancel_invitation, process_request.                 *)

\* Only invitations can be cancelled.
DecisionsOn(k) == IF k = "invitation" THEN Decisions ELSE Decisions \ {"CANCELLED"}

\* Faulty variant: a ticket that has been decided is decided again.
DecideAgain(r, t, decision) ==
  /\ ticket[t].status \notin {"none", "gone"}
  /\ decision \in DecisionsOn(ticket[t].kind)
  /\ Begin(r, "deciding", ticket[t].user, t, decision)

\* The row is read and is PENDING.
Decide(r, t, decision) ==
  /\ ticket[t].status = "PENDING"
  /\ decision \in DecisionsOn(ticket[t].kind)
  /\ Begin(r, "deciding", ticket[t].user, t, decision)

\* The query for a membership flushes the UPDATE by id first: it waits for the
\* row, and finds it deleted (StaleDataError) or locks it.
AcceptFlush(r) ==
  /\ pc[r] = "deciding" /\ what[r] = "ACCEPTED"
  /\ ~TicketLocked(about[r])
  /\ \/ /\ ticket[about[r]].status # "gone"
        /\ Goto(r, "flushed")
        /\ sawMember' = [sawMember EXCEPT ![r] = user[r] \in members]
        /\ UNCHANGED <<groupVars, user, about, what, docs, gone, closing, closed,
                       late, known>>
     \/ /\ ticket[about[r]].status = "gone"
        /\ Rejected(r)

\* The decision is committed, whatever the row holds by now.
Decided(r) ==
  /\ ticket' = [ticket EXCEPT ![about[r]].status = what[r]]
  /\ decisions' = [decisions EXCEPT ![about[r]] = @ + 1]

\* The membership is inserted unless there was one. The insert waits for a row
\* with the same key that is being deleted, and fails on one that is there.
AcceptCommit(r) ==
  /\ pc[r] = "flushed"
  /\ \/ /\ sawMember[r]
        /\ Decided(r)
        /\ UNCHANGED members
     \/ /\ ~sawMember[r] /\ ~MemberLocked(user[r])
        /\ IF user[r] \in members
           THEN UNCHANGED <<members, ticket, decisions>>
           ELSE Decided(r) /\ members' = members \cup {user[r]}
  /\ End(r)
  /\ UNCHANGED <<status, doc, dissolved, twins>>

\* REFUSED, REJECTED or CANCELLED: one UPDATE by id.
CloseCommit(r) ==
  /\ pc[r] = "deciding" /\ what[r] # "ACCEPTED"
  /\ ~TicketLocked(about[r])
  /\ IF ticket[about[r]].status = "gone"
     THEN UNCHANGED <<ticket, decisions>>
     ELSE Decided(r)
  /\ End(r)
  /\ UNCHANGED <<status, members, doc, dissolved, twins>>

-----------------------------------------------------------------------------
(* leave_group, remove_member, admin_remove_member: one DELETE.            *)

\* Faulty variant: the owner is removed like any member.
RemoveAnybody(u) ==
  /\ u \in members /\ ~MemberLocked(u)
  /\ members' = members \ {u}
  /\ known' = [q \in Requests |-> [known[q] EXCEPT !.members = @ \ {u}]]
  /\ UNCHANGED <<status, ticket, doc, decisions, dissolved, twins, pc, user, about,
                 what,
                 sawMember, docs, gone, closing, closed, late>>

Remove(u) ==
  /\ u # Owner
  /\ u \in members /\ ~MemberLocked(u)
  /\ members' = members \ {u}
  /\ known' = [q \in Requests |-> [known[q] EXCEPT !.members = @ \ {u}]]
  /\ UNCHANGED <<status, ticket, doc, decisions, dissolved, twins, pc, user, about,
                 what,
                 sawMember, docs, gone, closing, closed, late>>

-----------------------------------------------------------------------------
(* admin_ban_group, admin_unban_group, admin_dissolve_group.               *)

\* The group is read and is not DELETED.
Admin(r, s) == status # "DELETED" /\ Begin(r, "admin", Owner, NoTicket, s)

\* DISABLED or ACTIVE, by id, whatever the status is by now.
SetStatus(r) ==
  /\ pc[r] = "admin" /\ what[r] # "DELETED"
  /\ ~GroupLocked
  /\ status' = what[r]
  /\ End(r)
  /\ UNCHANGED <<members, ticket, doc, decisions, dissolved, twins>>

\* The group is marked DELETED, uncommitted.
DissolveMark(r) ==
  /\ pc[r] = "admin" /\ what[r] = "DELETED"
  /\ ~GroupLocked
  /\ known' = [known EXCEPT ![r] = [docs |-> Live, members |-> members,
                                  tickets |-> Filed]]
  /\ Goto(r, "marked")
  /\ UNCHANGED <<groupVars, user, about, what, sawMember, docs, gone, closing,
                 closed, late>>

\* Its live documents are selected, and soft-deleted with their chunks.
DissolveDocs(r) ==
  /\ pc[r] = "marked"
  /\ docs' = [docs EXCEPT ![r] = Live]
  /\ Goto(r, "emptied")
  /\ UNCHANGED <<groupVars, user, about, what, sawMember, gone, closing, closed,
                 late, known>>

\* Faulty variant: the owner's membership survives.
DissolveMembersButOwner(r) ==
  /\ pc[r] = "emptied"
  /\ gone' = [gone EXCEPT ![r] = members \ {Owner}]
  /\ Goto(r, "expelled")
  /\ UNCHANGED <<groupVars, user, about, what, sawMember, docs, closing, closed,
                 late, known>>

\* The memberships that are committed by now are deleted.
DissolveMembers(r) ==
  /\ pc[r] = "emptied"
  /\ gone' = [gone EXCEPT ![r] = members]
  /\ Goto(r, "expelled")
  /\ UNCHANGED <<groupVars, user, about, what, sawMember, docs, closing, closed,
                 late, known>>

\* Invitations, then join requests: a DELETE finds the rows that are committed
\* when it starts ...
DissolveSeek(r) ==
  /\ \/ pc[r] = "expelled" /\ Goto(r, "uninviting")
        /\ closing' = [closing EXCEPT ![r] = OfKind("invitation", Filed)]
     \/ pc[r] = "uninvited" /\ Goto(r, "unasking")
        /\ closing' = [closing EXCEPT ![r] = OfKind("request", Filed)]
  /\ UNCHANGED <<groupVars, user, about, what, sawMember, docs, gone, closed, late,
                 known>>

\* ... and deletes them, having waited for those an acceptance holds. (Which ones
\* it locks before the last wait depends on the order of the scan.)
DissolveTickets(r) ==
  /\ \/ pc[r] = "uninviting" /\ Goto(r, "uninvited")
     \/ pc[r] = "unasking" /\ Goto(r, "cleared")
  /\ \A t \in closing[r] : ~TicketLocked(t)
  /\ closed' = [closed EXCEPT ![r] = @ \cup closing[r]]
  /\ closing' = [closing EXCEPT ![r] = {}]
  /\ UNCHANGED <<groupVars, user, about, what, sawMember, docs, gone, late, known>>

\* get_db commits; what others have committed since a DELETE started survives.
DissolveCommit(r) ==
  /\ pc[r] = "cleared"
  /\ status' = "DELETED"
  /\ members' = members \ gone[r]
  /\ doc' = [d \in Docs |-> IF d \in docs[r] THEN "deleted" ELSE doc[d]]
  /\ ticket' = [t \in Tickets |->
                  IF t \in closed[r] THEN [ticket[t] EXCEPT !.status = "gone"]
                  ELSE ticket[t]]
  /\ dissolved' = TRUE
  /\ End(r)
  /\ UNCHANGED <<decisions, twins>>

-----------------------------------------------------------------------------
(* An upload to the group, and the deletion of a document of it.           *)

\* require_group_access: two queries, and the document is committed later.
Upload(r, u) == status = "ACTIVE" /\ Begin(r, "uploading", u, NoTicket, "none")

UploadMember(r) ==
  /\ pc[r] = "uploading"
  /\ \/ /\ user[r] \in members
        /\ Goto(r, "allowed")
        /\ UNCHANGED <<groupVars, user, about, what, sawMember, docs, gone,
                       closing, closed, late, known>>
     \/ /\ user[r] \notin members
        /\ Rejected(r)

UploadCommit(r) ==
  /\ pc[r] = "allowed"
  /\ \E d \in Docs : doc[d] = "none" /\ doc' = [doc EXCEPT ![d] = "live"]
  /\ End(r)
  /\ UNCHANGED <<status, members, ticket, decisions, dissolved, twins>>

DeleteDoc(d) ==
  /\ doc[d] = "live" /\ ~DocLocked(d)
  /\ doc' = [doc EXCEPT ![d] = "deleted"]
  /\ UNCHANGED <<status, members, ticket, decisions, dissolved, twins, requestVars>>

-----------------------------------------------------------------------------

\* An exception: get_db rolls back. One of them is PostgreSQL's answer to an
\* acceptance that waits for a membership a dissolution has deleted, while the
\* dissolution waits for the acceptance's ticket.
RequestFails(r) == pc[r] # "idle" /\ Rejected(r)

\* The bounds have room for what the request inserts.
Room ==
  /\ Cardinality({r \in Requests : pc[r] \in {"asking", "asked"}})
       < Cardinality({t \in Tickets : ticket[t].status = "none"})
DocRoom ==
  /\ Cardinality({r \in Requests : pc[r] \in {"uploading", "allowed"}})
       < Cardinality({d \in Docs : doc[d] = "none"})

Start(r) ==
  \/ \E u \in Users, k \in Kinds : Room /\ Ask(r, u, k)
  \/ \E t \in Tickets, decision \in Decisions : Decide(r, t, decision)
  \/ \E s \in GroupStatuses : Admin(r, s)
  \/ \E u \in Users : DocRoom /\ Upload(r, u)

Continue(r) ==
  \/ AskPending(r) \/ AskCommit(r)
  \/ AcceptFlush(r) \/ AcceptCommit(r) \/ CloseCommit(r)
  \/ SetStatus(r) \/ DissolveMark(r) \/ DissolveDocs(r) \/ DissolveMembers(r)
  \/ DissolveSeek(r) \/ DissolveTickets(r) \/ DissolveCommit(r)
  \/ UploadMember(r) \/ UploadCommit(r)

Next ==
  \/ \E r \in Requests : Start(r) \/ Continue(r) \/ RequestFails(r)
  \/ \E u \in Users : Remove(u)
  \/ \E d \in Docs : DeleteDoc(d)

Spec == Init /\ [][Next]_vars

-----------------------------------------------------------------------------

\* A user has two PENDING invitations, or two PENDING join requests, and with them
\* MultipleResultsFound for each later one, only if the request that created one
\* of them had looked before the other was committed.
PendingOverlapped ==
  \A k \in Kinds, u \in Users : \A t, m \in Pending(k, u) : t = m \/ {t, m} \in twins

\* A ticket is decided again only by a request that found it PENDING before the
\* first decision was committed: never more often than requests overlap.
DecisionsBounded ==
  \A t \in Tickets :
    decisions[t]
      + Cardinality({r \in Requests : pc[r] \in {"deciding", "flushed"} /\ about[r] = t})
        <= Cardinality(Requests)

\* The owner is a member of the group until it has been dissolved once, however
\* removals, dissolutions that fail and decisions interleave.
OwnerStays == Owner \in members \/ dissolved

\* A dissolution leaves nothing of what was there when it marked the group: no
\* live document, member (unless removed and admitted again since) or ticket,
\* whatever decisions, uploads and removals are committed between its statements
\* and whichever rows its DELETEs have to wait for.
DissolveIsComplete ==
  [][\A r \in Requests :
       pc[r] = "cleared" /\ pc'[r] = "idle" /\ status' = "DELETED" /\ status # "DELETED"
         => /\ \A d \in known[r].docs : doc'[d] = "deleted"
            /\ members' \cap known[r].members = {}
            /\ \A t \in known[r].tickets : ticket'[t].status = "gone"]_vars

=============================================================================
