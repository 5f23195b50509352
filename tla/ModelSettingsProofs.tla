------------------------- MODULE ModelSettingsProofs -------------------------
(***************************************************************************)
(* Theorems about ModelSettings, for any number of requests and            *)
(* configurations.                                                         *)
(***************************************************************************)
EXTENDS ModelSettings, TLAPS

\* The parts of SettingsInvariant, by name.
TargetsExist ==
  \A r \in Requests : pc[r] # "idle" => target[r] \in Models /\ row[target[r]] # "none"
SweepsCover ==
  \A r \in Requests :
    IF pc[r] = "sweeping" THEN Stored \subseteq scope[r] \cup locked[r] \cup late[r]
    ELSE scope[r] = {} /\ locked[r] = {} /\ late[r] = {}
TargetIsSwept ==
  \A r \in Requests : target[r] \in Stored /\ pc[r] = "sweeping"
                        => target[r] \in scope[r] \cup locked[r]
LockedAreStored == \A r \in Requests : locked[r] \subseteq Stored
LocksExclude == \A r, q \in Requests : q = r \/ locked[q] \cap locked[r] = {}

\* The invariant that every theorem below rests on.
IInv ==
  /\ TypeOK
  /\ TargetsExist /\ SweepsCover /\ TargetIsSwept
  /\ LockedAreStored /\ LocksExclude
  /\ AtMostOneActive

\* The initial state satisfies the invariant.
LEMMA InitIInv == Init => IInv
  <1> SUFFICES ASSUME Init PROVE IInv
    OBVIOUS
  <1> USE DEF Init
  <1>1. TypeOK
    BY DEF TypeOK
  <1>2. TargetsExist /\ SweepsCover /\ TargetIsSwept
    BY DEF TargetsExist, SweepsCover, TargetIsSwept, Stored
  <1>3. LockedAreStored /\ LocksExclude
    BY DEF LockedAreStored, LocksExclude
  <1>4. AtMostOneActive
    BY DEF AtMostOneActive, Active
  <1> QED BY <1>1, <1>2, <1>3, <1>4 DEF IInv

\* Every step preserves the types.
LEMMA TypeStep == IInv /\ [Next]_vars => TypeOK'
  <1> SUFFICES ASSUME IInv /\ [Next]_vars PROVE TypeOK'
    OBVIOUS
  <1> USE DEF vars, requestVars, TypeOK, TargetsExist, Stored
  <1>0. TypeOK
    BY DEF IInv
  <1>a. TargetsExist
    BY DEF IInv
  <1>1. ASSUME NEW m \in Models, Add(m) PROVE TypeOK'
    BY <1>0, <1>a, <1>1 DEF Add
  <1>2. ASSUME NEW r \in Requests, NEW m \in Models, ActivateRead(r, m) PROVE TypeOK'
    BY <1>0, <1>a, <1>2 DEF ActivateRead, Goto
  <1>3. ASSUME NEW r \in Requests, NEW m \in Models, ActivateRow(r, m) PROVE TypeOK'
    BY <1>0, <1>a, <1>3 DEF ActivateRow, LockedByOther
  <1>4. ASSUME NEW r \in Requests, NEW m \in Models, DeleteRead(r, m) PROVE TypeOK'
    BY <1>0, <1>a, <1>4 DEF DeleteRead, Goto
  <1>5. ASSUME NEW r \in Requests, ActivateSweep(r) PROVE TypeOK'
    BY <1>0, <1>a, <1>5 DEF ActivateSweep, Goto
  <1>6. ASSUME NEW r \in Requests, ActivateCommit(r) PROVE TypeOK'
    <2>1. \A m \in late[r] : {target[r], m} \in SUBSET Models
      BY <1>0, <1>a, <1>6 DEF ActivateCommit
    <2>2. missed' \subseteq SUBSET Models
      BY <1>0, <1>6, <2>1 DEF ActivateCommit
    <2> QED BY <1>0, <1>6, <2>2 DEF ActivateCommit, End, Goto
  <1>7. ASSUME NEW r \in Requests, DeleteCommit(r) PROVE TypeOK'
    BY <1>0, <1>a, <1>7 DEF DeleteCommit, LockedByOther, End, Goto
  <1>8. ASSUME NEW r \in Requests, RequestFails(r) PROVE TypeOK'
    BY <1>0, <1>a, <1>8 DEF RequestFails, End, Goto
  <1>9. CASE UNCHANGED vars
    BY <1>0, <1>a, <1>9
  <1> QED BY <1>1, <1>2, <1>3, <1>4, <1>5, <1>6, <1>7, <1>8, <1>9 DEF Next

\* The row a request is about has been added.
LEMMA TargetsStep == IInv /\ [Next]_vars => TargetsExist'
  <1> SUFFICES ASSUME IInv /\ [Next]_vars PROVE TargetsExist'
    OBVIOUS
  <1> USE DEF vars, requestVars, TypeOK, TargetsExist, Stored
  <1>0. TypeOK /\ TargetsExist
    BY DEF IInv
  <1>1. ASSUME NEW m \in Models, Add(m) PROVE TargetsExist'
    BY <1>0, <1>1 DEF Add
  <1>2. ASSUME NEW r \in Requests, NEW m \in Models, ActivateRead(r, m) PROVE TargetsExist'
    BY <1>0, <1>2 DEF ActivateRead, Goto
  <1>3. ASSUME NEW r \in Requests, NEW m \in Models, ActivateRow(r, m) PROVE TargetsExist'
    BY <1>0, <1>3 DEF ActivateRow, LockedByOther
  <1>4. ASSUME NEW r \in Requests, NEW m \in Models, DeleteRead(r, m) PROVE TargetsExist'
    BY <1>0, <1>4 DEF DeleteRead, Goto
  <1>5. ASSUME NEW r \in Requests, ActivateSweep(r) PROVE TargetsExist'
    BY <1>0, <1>5 DEF ActivateSweep, Goto
  <1>6. ASSUME NEW r \in Requests, ActivateCommit(r) PROVE TargetsExist'
    BY <1>0, <1>6 DEF ActivateCommit, End, Goto
  <1>7. ASSUME NEW r \in Requests, DeleteCommit(r) PROVE TargetsExist'
    BY <1>0, <1>7 DEF DeleteCommit, LockedByOther, End, Goto
  <1>8. ASSUME NEW r \in Requests, RequestFails(r) PROVE TargetsExist'
    BY <1>0, <1>8 DEF RequestFails, End, Goto
  <1>9. CASE UNCHANGED vars
    BY <1>0, <1>9
  <1> QED BY <1>1, <1>2, <1>3, <1>4, <1>5, <1>6, <1>7, <1>8, <1>9 DEF Next

\* An UPDATE in progress covers every stored row but those added since it began.
LEMMA CoverStep == IInv /\ [Next]_vars => SweepsCover'
  <1> SUFFICES ASSUME IInv /\ [Next]_vars PROVE SweepsCover'
    OBVIOUS
  <1> USE DEF vars, requestVars, TypeOK, SweepsCover, Stored
  <1>0. TypeOK /\ SweepsCover /\ LockedAreStored
    BY DEF IInv
  <1>1. ASSUME NEW m \in Models, Add(m) PROVE SweepsCover'
    BY <1>0, <1>1 DEF Add
  <1>2. ASSUME NEW r \in Requests, NEW m \in Models, ActivateRead(r, m) PROVE SweepsCover'
    BY <1>0, <1>2 DEF ActivateRead, Goto
  <1>3. ASSUME NEW r \in Requests, NEW m \in Models, ActivateRow(r, m) PROVE SweepsCover'
    BY <1>0, <1>3 DEF ActivateRow, LockedByOther
  <1>4. ASSUME NEW r \in Requests, NEW m \in Models, DeleteRead(r, m) PROVE SweepsCover'
    BY <1>0, <1>4 DEF DeleteRead, Goto
  <1>5. ASSUME NEW r \in Requests, ActivateSweep(r) PROVE SweepsCover'
    BY <1>0, <1>5 DEF ActivateSweep, Goto
  <1>6. ASSUME NEW r \in Requests, ActivateCommit(r) PROVE SweepsCover'
    <2>1. Stored' \subseteq Stored
      BY <1>0, <1>6 DEF ActivateCommit, LockedAreStored
    <2>2. \A q \in Requests : q # r => pc'[q] = pc[q] /\ scope'[q] = scope[q]
            /\ locked'[q] = locked[q] /\ late'[q] = late[q] /\ target'[q] = target[q]
      BY <1>0, <1>6 DEF ActivateCommit, End, Goto
    <2>3. pc'[r] = "idle" /\ scope'[r] = {} /\ locked'[r] = {} /\ late'[r] = {}
      BY <1>0, <1>6 DEF ActivateCommit, End, Goto
    <2> HIDE DEF Stored, TypeOK
    <2> QED BY <1>0, <2>1, <2>2, <2>3
  <1>7. ASSUME NEW r \in Requests, DeleteCommit(r) PROVE SweepsCover'
    BY <1>0, <1>7 DEF DeleteCommit, LockedByOther, End, Goto
  <1>8. ASSUME NEW r \in Requests, RequestFails(r) PROVE SweepsCover'
    BY <1>0, <1>8 DEF RequestFails, End, Goto
  <1>9. CASE UNCHANGED vars
    BY <1>0, <1>9
  <1> QED BY <1>1, <1>2, <1>3, <1>4, <1>5, <1>6, <1>7, <1>8, <1>9 DEF Next

\* The row to be activated is among those the UPDATE visits.
LEMMA SweptStep == IInv /\ [Next]_vars => TargetIsSwept'
  <1> SUFFICES ASSUME IInv /\ [Next]_vars PROVE TargetIsSwept'
    OBVIOUS
  <1> USE DEF vars, requestVars, TypeOK, TargetsExist, TargetIsSwept, Stored
  <1>0. TypeOK /\ TargetsExist /\ TargetIsSwept /\ LockedAreStored
    BY DEF IInv
  <1>1. ASSUME NEW m \in Models, Add(m) PROVE TargetIsSwept'
    BY <1>0, <1>1 DEF Add
  <1>2. ASSUME NEW r \in Requests, NEW m \in Models, ActivateRead(r, m) PROVE TargetIsSwept'
    BY <1>0, <1>2 DEF ActivateRead, Goto
  <1>3. ASSUME NEW r \in Requests, NEW m \in Models, ActivateRow(r, m) PROVE TargetIsSwept'
    BY <1>0, <1>3 DEF ActivateRow, LockedByOther
  <1>4. ASSUME NEW r \in Requests, NEW m \in Models, DeleteRead(r, m) PROVE TargetIsSwept'
    BY <1>0, <1>4 DEF DeleteRead, Goto
  <1>5. ASSUME NEW r \in Requests, ActivateSweep(r) PROVE TargetIsSwept'
    BY <1>0, <1>5 DEF ActivateSweep, Goto
  <1>6. ASSUME NEW r \in Requests, ActivateCommit(r) PROVE TargetIsSwept'
    <2>1. Stored' \subseteq Stored
      BY <1>0, <1>6 DEF ActivateCommit, LockedAreStored
    <2>2. \A q \in Requests : q # r => pc'[q] = pc[q] /\ scope'[q] = scope[q]
            /\ locked'[q] = locked[q] /\ late'[q] = late[q] /\ target'[q] = target[q]
      BY <1>0, <1>6 DEF ActivateCommit, End, Goto
    <2>3. pc'[r] = "idle" /\ scope'[r] = {} /\ locked'[r] = {} /\ late'[r] = {}
      BY <1>0, <1>6 DEF ActivateCommit, End, Goto
    <2> HIDE DEF Stored, TypeOK
    <2> QED BY <1>0, <2>1, <2>2, <2>3
  <1>7. ASSUME NEW r \in Requests, DeleteCommit(r) PROVE TargetIsSwept'
    BY <1>0, <1>7 DEF DeleteCommit, LockedByOther, End, Goto
  <1>8. ASSUME NEW r \in Requests, RequestFails(r) PROVE TargetIsSwept'
    BY <1>0, <1>8 DEF RequestFails, End, Goto
  <1>9. CASE UNCHANGED vars
    BY <1>0, <1>9
  <1> QED BY <1>1, <1>2, <1>3, <1>4, <1>5, <1>6, <1>7, <1>8, <1>9 DEF Next

\* A row that an UPDATE has locked is not deleted.
LEMMA LockedStep == IInv /\ [Next]_vars => LockedAreStored'
  <1> SUFFICES ASSUME IInv /\ [Next]_vars PROVE LockedAreStored'
    OBVIOUS
  <1> USE DEF vars, requestVars, TypeOK, LockedAreStored, SweepsCover, Stored
  <1>0. TypeOK /\ LockedAreStored /\ SweepsCover
    BY DEF IInv
  <1>1. ASSUME NEW m \in Models, Add(m) PROVE LockedAreStored'
    BY <1>0, <1>1 DEF Add
  <1>2. ASSUME NEW r \in Requests, NEW m \in Models, ActivateRead(r, m) PROVE LockedAreStored'
    BY <1>0, <1>2 DEF ActivateRead, Goto
  <1>3. ASSUME NEW r \in Requests, NEW m \in Models, ActivateRow(r, m) PROVE LockedAreStored'
    BY <1>0, <1>3 DEF ActivateRow, LockedByOther
  <1>4. ASSUME NEW r \in Requests, NEW m \in Models, DeleteRead(r, m) PROVE LockedAreStored'
    BY <1>0, <1>4 DEF DeleteRead, Goto
  <1>5. ASSUME NEW r \in Requests, ActivateSweep(r) PROVE LockedAreStored'
    BY <1>0, <1>5 DEF ActivateSweep, Goto
  <1>6. ASSUME NEW r \in Requests, ActivateCommit(r) PROVE LockedAreStored'
    BY <1>0, <1>6 DEF ActivateCommit, End, Goto
  <1>7. ASSUME NEW r \in Requests, DeleteCommit(r) PROVE LockedAreStored'
    BY <1>0, <1>7 DEF DeleteCommit, LockedByOther, End, Goto
  <1>8. ASSUME NEW r \in Requests, RequestFails(r) PROVE LockedAreStored'
    BY <1>0, <1>8 DEF RequestFails, End, Goto
  <1>9. CASE UNCHANGED vars
    BY <1>0, <1>9
  <1> QED BY <1>1, <1>2, <1>3, <1>4, <1>5, <1>6, <1>7, <1>8, <1>9 DEF Next

\* No two UPDATEs lock the same row.
LEMMA LocksStep == IInv /\ [Next]_vars => LocksExclude'
  <1> SUFFICES ASSUME IInv /\ [Next]_vars PROVE LocksExclude'
    OBVIOUS
  <1> USE DEF vars, requestVars, TypeOK, LocksExclude
  <1>0. TypeOK /\ LocksExclude
    BY DEF IInv
  <1>1. ASSUME NEW m \in Models, Add(m) PROVE LocksExclude'
    BY <1>0, <1>1 DEF Add
  <1>2. ASSUME NEW r \in Requests, NEW m \in Models, ActivateRead(r, m) PROVE LocksExclude'
    BY <1>0, <1>2 DEF ActivateRead, Goto
  <1>3. ASSUME NEW r \in Requests, NEW m \in Models, ActivateRow(r, m) PROVE LocksExclude'
    BY <1>0, <1>3 DEF ActivateRow, LockedByOther
  <1>4. ASSUME NEW r \in Requests, NEW m \in Models, DeleteRead(r, m) PROVE LocksExclude'
    BY <1>0, <1>4 DEF DeleteRead, Goto
  <1>5. ASSUME NEW r \in Requests, ActivateSweep(r) PROVE LocksExclude'
    BY <1>0, <1>5 DEF ActivateSweep, Goto
  <1>6. ASSUME NEW r \in Requests, ActivateCommit(r) PROVE LocksExclude'
    BY <1>0, <1>6 DEF ActivateCommit, End, Goto
  <1>7. ASSUME NEW r \in Requests, DeleteCommit(r) PROVE LocksExclude'
    BY <1>0, <1>7 DEF DeleteCommit, LockedByOther, End, Goto
  <1>8. ASSUME NEW r \in Requests, RequestFails(r) PROVE LocksExclude'
    BY <1>0, <1>8 DEF RequestFails, End, Goto
  <1>9. CASE UNCHANGED vars
    BY <1>0, <1>9
  <1> QED BY <1>1, <1>2, <1>3, <1>4, <1>5, <1>6, <1>7, <1>8, <1>9 DEF Next

\* Two active rows are a pair of which an UPDATE missed one.
LEMMA ActiveStep == IInv /\ [Next]_vars => AtMostOneActive'
  <1> SUFFICES ASSUME IInv /\ [Next]_vars PROVE AtMostOneActive'
    OBVIOUS
  <1> USE DEF vars, requestVars, TypeOK, AtMostOneActive, Active
  <1>0. TypeOK /\ AtMostOneActive
    BY DEF IInv
  <1>a. SweepsCover /\ TargetsExist
    BY DEF IInv
  <1>1. ASSUME NEW m \in Models, Add(m) PROVE AtMostOneActive'
    BY <1>0, <1>a, <1>1 DEF Add
  <1>2. ASSUME NEW r \in Requests, NEW m \in Models, ActivateRead(r, m) PROVE AtMostOneActive'
    BY <1>0, <1>a, <1>2 DEF ActivateRead, Goto
  <1>3. ASSUME NEW r \in Requests, NEW m \in Models, ActivateRow(r, m) PROVE AtMostOneActive'
    BY <1>0, <1>a, <1>3 DEF ActivateRow, LockedByOther
  <1>4. ASSUME NEW r \in Requests, NEW m \in Models, DeleteRead(r, m) PROVE AtMostOneActive'
    BY <1>0, <1>a, <1>4 DEF DeleteRead, Goto
  <1>5. ASSUME NEW r \in Requests, ActivateSweep(r) PROVE AtMostOneActive'
    BY <1>0, <1>a, <1>5 DEF ActivateSweep, Goto
  <1>6. ASSUME NEW r \in Requests, ActivateCommit(r) PROVE AtMostOneActive'
    <2>1. CASE target[r] \notin Stored
      BY <1>0, <1>6, <2>1 DEF ActivateCommit
    <2>2. CASE target[r] \in Stored
      <3> SUFFICES ASSUME NEW m \in Models, NEW n \in Models,
                          row'[m] = "active", row'[n] = "active", m # n
                   PROVE {m, n} \in missed'
        OBVIOUS
      <3>1. \A k \in Models : row'[k] = "active" /\ k # target[r]
              => row[k] = "active" /\ k \in late[r]
        BY <1>0, <1>a, <1>6, <2>2 DEF ActivateCommit, SweepsCover, Stored
      <3>2. CASE m # target[r] /\ n # target[r]
        BY <1>0, <1>6, <3>1, <3>2 DEF ActivateCommit
      <3>3. CASE m = target[r]
        BY <1>6, <3>1, <3>3 DEF ActivateCommit
      <3>4. CASE n = target[r]
        <4>1. {m, n} = {target[r], m}
          BY <3>4
        <4> QED BY <1>6, <3>1, <3>4, <4>1 DEF ActivateCommit
      <3> QED BY <3>2, <3>3, <3>4
    <2> QED BY <2>1, <2>2
  <1>7. ASSUME NEW r \in Requests, DeleteCommit(r) PROVE AtMostOneActive'
    BY <1>0, <1>a, <1>7 DEF DeleteCommit, LockedByOther, End, Goto
  <1>8. ASSUME NEW r \in Requests, RequestFails(r) PROVE AtMostOneActive'
    BY <1>0, <1>a, <1>8 DEF RequestFails, End, Goto
  <1>9. CASE UNCHANGED vars
    BY <1>0, <1>a, <1>9
  <1> QED BY <1>1, <1>2, <1>3, <1>4, <1>5, <1>6, <1>7, <1>8, <1>9 DEF Next

\* Every step preserves the invariant.
LEMMA NextIInv == IInv /\ [Next]_vars => IInv'
  BY TypeStep, TargetsStep, CoverStep, SweptStep, LockedStep, LocksStep, ActiveStep
     DEF IInv

\* Every reachable state satisfies it.
LEMMA Invariance == Spec => []IInv
  BY InitIInv, NextIInv, PTL DEF Spec

\* The locks of the UPDATE in activate_model: no row is deactivated by two requests
\* at once or deleted under one, and no stored row is passed over.
THEOREM SweepsAreComplete == Spec => []SettingsInvariant
  <1>1. IInv => SettingsInvariant
    BY DEF IInv, SettingsInvariant, TargetsExist, SweepsCover, TargetIsSwept,
           LockedAreStored, LocksExclude
  <1> QED BY Invariance, <1>1, PTL

\* get_active_model finds two active rows only if one of them was added while the
\* UPDATE of the other's activation was under way.
THEOREM OneIsActive == Spec => []AtMostOneActive
  <1>1. IInv => AtMostOneActive
    BY DEF IInv
  <1> QED BY Invariance, <1>1, PTL

\* Config is the active row if there is exactly one, and .env's otherwise.
LEMMA ConfigMeaning ==
  ASSUME SettingsAssumption
  PROVE  /\ Config # Env => Config \in Models /\ Active = {Config}
         /\ Config = Env => \A m \in Models : Active # {m}
  <1>1. CASE \E m \in Models : Active = {m}
    <2>1. Config \in Models /\ Active = {Config}
      BY <1>1 DEF Config
    <2> QED BY <2>1 DEF SettingsAssumption
  <1>2. CASE ~ \E m \in Models : Active = {m}
    BY <1>2 DEF Config
  <1> QED BY <1>1, <1>2

\* A configuration in use gives way to the defaults of .env only when it is deleted
\* or, by an addition that overlaps an activation, no longer the only one.
THEOREM DefaultsOnlyByDeletion == Spec => ConfigStays
  <1> DEFINE Stays ==
        Config # Env /\ Config' = Env
          => \/ row'[Config] = "deleted"
             \/ \E m, n \in Active' : m # n /\ {m, n} \in missed'
  <1>1. IInv /\ IInv' /\ [Next]_vars => [Stays]_vars
    <2> SUFFICES ASSUME IInv, IInv', Next, Config # Env, Config' = Env
                 PROVE  \/ row'[Config] = "deleted"
                        \/ \E m, n \in Active' : m # n /\ {m, n} \in missed'
      OBVIOUS
    <2> DEFINE c == Config
    <2>1. c \in Models /\ Active = {c}
      BY ConfigMeaning, SettingsAssumption
    <2>2. \A m \in Models : Active' # {m}
      <3>1. (Config = Env => \A m \in Models : Active # {m})'
        BY ConfigMeaning, SettingsAssumption, PTL
      <3> QED BY <3>1
    <2> HIDE DEF c
    <2>3. CASE Active' = {}
      <3>0. TypeOK /\ row[c] = "active" /\ row'[c] # "active"
        BY <2>1, <2>3 DEF IInv, Active
      <3>1. ASSUME NEW r \in Requests, ActivateCommit(r) PROVE FALSE
        <4>1. CASE target[r] \in Stored
          <5>1. target[r] \in Active'
            BY <3>0, <3>1, <4>1 DEF ActivateCommit, Active, Stored, TypeOK
          <5> QED BY <2>3, <5>1
        <4>2. CASE target[r] \notin Stored
          BY <3>0, <3>1, <4>2 DEF ActivateCommit
        <4> QED BY <4>1, <4>2
      <3>2. ASSUME NEW r \in Requests, DeleteCommit(r) PROVE row'[c] = "deleted"
        BY <2>1, <3>0, <3>2 DEF DeleteCommit, TypeOK
      <3>3. ASSUME NEW m \in Models, Add(m) PROVE FALSE
        BY <2>1, <3>0, <3>3 DEF Add, TypeOK
      <3>4. ASSUME NEW r \in Requests, UNCHANGED row PROVE FALSE
        BY <3>0, <3>4
      <3>5. row'[c] = "deleted"
        BY <3>1, <3>2, <3>3, <3>4 DEF Next, ActivateRead, ActivateRow, DeleteRead,
           ActivateSweep, RequestFails
      <3> QED BY <3>5 DEF c
    <2>4. CASE Active' # {}
      <3>1. PICK m \in Models : m \in Active'
        BY <2>4 DEF Active
      <3>2. PICK n \in Models : n \in Active' /\ n # m
        BY <2>2, <3>1 DEF Active
      <3>3. {m, n} \in missed'
        BY <3>1, <3>2 DEF IInv, AtMostOneActive
      <3> QED BY <3>1, <3>2, <3>3
    <2> QED BY <2>3, <2>4
  <1> QED BY Invariance, <1>1, PTL DEF Spec, ConfigStays

=============================================================================
