--------------------------- MODULE ModelSettings ---------------------------
(***************************************************************************)
(* The model configurations of one administrator and one type (chat,       *)
(* embedding or mineru): added, activated and deleted by overlapping       *)
(* requests, and resolved by questions, ingestion and the assistant.       *)
(* A request is one PostgreSQL transaction at READ COMMITTED. An UPDATE    *)
(* of several rows works on the rows that are committed when it begins,    *)
(* locks them one by one, and skips those that are gone by then.           *)
(* Sources: app/models_config/service.py, resolver.py, models.py.          *)
(***************************************************************************)
EXTENDS Naturals, FiniteSets

CONSTANTS
  Requests, (* requests that can be in progress at once  *)
  Models,   (* bound: configurations ever added          *)
  Env       (* the configuration of the .env file        *)

ASSUME SettingsAssumption == Env \notin Models

VARIABLES
  row,    \* model_configs: not there, is_active or not, deleted
  pc,     \* where each request is
  target, \* the configuration it is about
  scope,  \* rows its UPDATE has still to visit
  locked, \* rows it has deactivated, uncommitted
  late,   \* history: configurations added since its UPDATE began
  missed  \* history: pairs of an activated configuration and one its UPDATE missed

requestVars == <<pc, target, scope, locked, late>>
vars == <<row, requestVars, missed>>

TypeOK ==
  /\ row \in [Models -> {"none", "inactive", "active", "deleted"}]
  /\ pc \in [Requests -> {"idle", "activating", "sweeping", "deleting"}]
  /\ target \in [Requests -> Models \cup {Env}]
  /\ scope \in [Requests -> SUBSET Models]
  /\ locked \in [Requests -> SUBSET Models]
  /\ late \in [Requests -> SUBSET Models]
  /\ missed \subseteq SUBSET Models

Init ==
  /\ row = [m \in Models |-> "none"]
  /\ pc = [r \in Requests |-> "idle"]
  /\ target = [r \in Requests |-> Env]
  /\ scope = [r \in Requests |-> {}]
  /\ locked = [r \in Requests |-> {}]
  /\ late = [r \in Requests |-> {}]
  /\ missed = {}

-----------------------------------------------------------------------------

Stored == {m \in Models : row[m] \in {"inactive", "active"}}
Active == {m \in Models : row[m] = "active"}

\* get_active_model and its callers: no row, or scalar_one_or_none raising on
\* several, both lead to the defaults of .env.
Config ==
  IF \E m \in Models : Active = {m} THEN CHOOSE m \in Models : Active = {m} ELSE Env

\* Faulty variant: rows another request has updated do not block.
LockedByNone(r, m) == FALSE

LockedByOther(r, m) == \E q \in Requests \ {r} : m \in locked[q]

Goto(r, step) == pc' = [pc EXCEPT ![r] = step]

\* The request ends, by commit or rollback.
End(r) ==
  /\ Goto(r, "idle")
  /\ target' = [target EXCEPT ![r] = Env]
  /\ scope' = [scope EXCEPT ![r] = {}]
  /\ locked' = [locked EXCEPT ![r] = {}]
  /\ late' = [late EXCEPT ![r] = {}]

\* add_model.
Add(m) ==
  /\ row[m] = "none"
  /\ row' = [row EXCEPT ![m] = "inactive"]
  /\ late' = [r \in Requests |-> IF pc[r] = "sweeping" THEN late[r] \cup {m} ELSE {}]
  /\ UNCHANGED <<pc, target, scope, locked, missed>>

\* activate_model: _get_model finds the row.
ActivateRead(r, m) ==
  /\ pc[r] = "idle" /\ m \in Stored
  /\ Goto(r, "activating")
  /\ target' = [target EXCEPT ![r] = m]
  /\ UNCHANGED <<row, scope, locked, late, missed>>

\* Faulty variant: only the rows that are active are deactivated.
ActivateSweepActive(r) ==
  /\ pc[r] = "activating"
  /\ scope' = [scope EXCEPT ![r] = Active]
  /\ Goto(r, "sweeping")
  /\ UNCHANGED <<row, target, locked, late, missed>>

\* The UPDATE of all rows of the type begins.
ActivateSweep(r) ==
  /\ pc[r] = "activating"
  /\ scope' = [scope EXCEPT ![r] = Stored]
  /\ Goto(r, "sweeping")
  /\ UNCHANGED <<row, target, locked, late, missed>>

\* It deactivates one row, waiting for whoever has updated it, or skips it.
ActivateRow(r, m) ==
  /\ pc[r] = "sweeping" /\ m \in scope[r]
  /\ ~LockedByOther(r, m)
  /\ scope' = [scope EXCEPT ![r] = @ \ {m}]
  /\ locked' = [locked EXCEPT ![r] = IF m \in Stored THEN @ \cup {m} ELSE @]
  /\ UNCHANGED <<row, pc, target, late, missed>>

\* Faulty variant: a row deleted in between goes unnoticed.
ActivateCommitBlind(r) ==
  /\ pc[r] = "sweeping" /\ scope[r] = {}
  /\ row' = [m \in Models |->
               IF m = target[r] /\ m \in Stored THEN "active"
               ELSE IF m \in locked[r] THEN "inactive" ELSE row[m]]
  /\ missed' = missed \cup {{target[r], m} : m \in late[r]}
  /\ End(r)

\* The row itself is activated by id and all is committed; if it has been
\* deleted, the UPDATE matches nothing (StaleDataError) and all is undone.
ActivateCommit(r) ==
  /\ pc[r] = "sweeping" /\ scope[r] = {}
  /\ IF target[r] \in Stored
     THEN row' = [m \in Models |->
                    IF m = target[r] THEN "active"
                    ELSE IF m \in locked[r] THEN "inactive" ELSE row[m]]
     ELSE UNCHANGED row
  /\ missed' = missed \cup {{target[r], m} : m \in late[r]}
  /\ End(r)

\* delete_model.
DeleteRead(r, m) ==
  /\ pc[r] = "idle" /\ m \in Stored
  /\ Goto(r, "deleting")
  /\ target' = [target EXCEPT ![r] = m]
  /\ UNCHANGED <<row, scope, locked, late, missed>>

DeleteCommit(r) ==
  /\ pc[r] = "deleting"
  /\ ~LockedByOther(r, target[r])
  /\ row' = [row EXCEPT ![target[r]] = "deleted"]
  /\ End(r)
  /\ UNCHANGED missed

\* An exception, PostgreSQL's answer to a deadlock of two UPDATEs included.
RequestFails(r) == pc[r] # "idle" /\ End(r) /\ UNCHANGED <<row, missed>>

Next ==
  \/ \E m \in Models : Add(m)
  \/ \E r \in Requests :
       \/ \E m \in Models : ActivateRead(r, m) \/ ActivateRow(r, m) \/ DeleteRead(r, m)
       \/ ActivateSweep(r) \/ ActivateCommit(r) \/ DeleteCommit(r) \/ RequestFails(r)

Spec == Init /\ [][Next]_vars

-----------------------------------------------------------------------------

\* What the locks of UPDATE give: no row is deactivated by two requests at once or
\* deleted under one, and an activation visits every row but those added since its
\* UPDATE began, the row it activates included unless that has been deleted.
SettingsInvariant ==
  /\ TypeOK
  /\ \A r \in Requests :
       /\ pc[r] # "idle" => target[r] \in Models /\ row[target[r]] # "none"
       /\ IF pc[r] = "sweeping" THEN Stored \subseteq scope[r] \cup locked[r] \cup late[r]
          ELSE scope[r] = {} /\ locked[r] = {} /\ late[r] = {}
       /\ target[r] \in Stored /\ pc[r] = "sweeping"
            => target[r] \in scope[r] \cup locked[r]
       /\ locked[r] \subseteq Stored
       /\ \A q \in Requests : q = r \/ locked[q] \cap locked[r] = {}

\* However activations overlap with each other, with additions and deletions,
\* two configurations are active, and get_active_model raises, only if one was
\* added while the UPDATE of the other's activation was waiting.
AtMostOneActive == \A m, n \in Active : m = n \/ {m, n} \in missed

\* A configuration in use gives way to the defaults only if it is deleted, or with
\* such a pair: never because an activation loses to another, fails, or activates a
\* configuration that is being deleted.
ConfigStays ==
  [][Config # Env /\ Config' = Env
       => row'[Config] = "deleted" \/ \E m, n \in Active' : m # n /\ {m, n} \in missed']_vars

=============================================================================
