------------------------- MODULE PolicySequenceProofs -------------------------
(***************************************************************************)
(* What is proved of PolicySequence, for any rows: a serving process has   *)
(* every acknowledged row, the file counts all that must not be forgotten, *)
(* and only a torn call or a restored copy makes a start refused.          *)
(*                                                                         *)
(* The argument: the copy is a past of the database (Follows), so any row  *)
(* acknowledged since it was taken makes the file pass the copy's count.   *)
(***************************************************************************)
EXTENDS PolicySequence, FiniteSetTheorems, TLAPS

(* A missing file or base is told apart from every count.                  *)
LEMMA MissingIsNoCount == Missing \notin Nat /\ Missing < 0 /\ Missing \in Int
  BY DEF Missing

(* Every set of rows is finite, and so every count is a number.            *)
LEMMA RowsFinite ==
    ASSUME NEW S \in SUBSET (Rows \cup Retired)
    PROVE  IsFiniteSet(S) /\ Cardinality(S) \in Nat
  <1>1. IsFiniteSet(Rows \cup Retired)
    BY RowAssumption, FS_Union, Zenon
  <1>2. IsFiniteSet(S)
    BY <1>1, FS_Subset, Zenon
  <1> QED
    BY <1>2, FS_CardinalityType, Zenon

(* More rows, a larger count; one more row, a larger count by one.         *)
LEMMA CountGrows ==
    ASSUME NEW S \in SUBSET (Rows \cup Retired), NEW T \in SUBSET S
    PROVE  /\ Cardinality(T) <= Cardinality(S)
           /\ S # T => Cardinality(T) < Cardinality(S)
  <1>1. /\ IsFiniteSet(S) /\ Cardinality(S) \in Nat
        /\ IsFiniteSet(T) /\ Cardinality(T) \in Nat
    BY RowsFinite, Zenon
  <1>2. Cardinality(T) <= Cardinality(S) /\ (Cardinality(S) = Cardinality(T) => S = T)
    BY <1>1, FS_Subset, Zenon
  <1> QED
    BY <1>1, <1>2

(* Exactly by one.                                                         *)
LEMMA CountAdds ==
    ASSUME NEW S \in SUBSET (Rows \cup Retired), NEW r \in Rows, r \notin S
    PROVE  Cardinality(S \cup {r}) = Cardinality(S) + 1
  BY RowsFinite, FS_AddElement, Zenon

(* The sequence of a database is a natural number.                         *)
LEMMA SequenceType ==
    ASSUME NEW d \in Databases
    PROVE  /\ d.rows \in SUBSET (Rows \cup Retired)
           /\ Cardinality(d.rows) \in Nat
           /\ currentEconomicSequence(d) \in Nat
           /\ d.base # Missing => /\ d.base \in Nat
                                  /\ currentEconomicSequence(d) = d.base + Cardinality(d.rows)
           /\ d.base = Missing => currentEconomicSequence(d) = Cardinality(d.rows)
  <1>1. d.rows \in SUBSET (Rows \cup Retired) /\ d.base \in Nat \cup {Missing}
    BY Zenon DEF Databases
  <1>2. Cardinality(d.rows) \in Nat
    BY <1>1, RowsFinite, Zenon
  <1> QED
    BY <1>1, <1>2 DEF currentEconomicSequence, economicOutflowCount

(* A database is never behind its past, and ahead of any past that misses  *)
(* one of its rows.                                                        *)
LEMMA SequenceGrows ==
    ASSUME NEW d \in Databases, NEW c \in Databases, Follows(d, c)
    PROVE  /\ currentEconomicSequence(c) <= currentEconomicSequence(d)
           /\ \A r \in Rows : r \in d.rows \ c.rows =>
                 currentEconomicSequence(c) < currentEconomicSequence(d)
  <1>0. /\ d.rows \in SUBSET (Rows \cup Retired) /\ c.rows \in SUBSET (Rows \cup Retired)
        /\ Cardinality(d.rows) \in Nat /\ Cardinality(c.rows) \in Nat
        /\ currentEconomicSequence(d) \in Nat /\ currentEconomicSequence(c) \in Nat
    BY SequenceType, Zenon
  <1>1. CASE d = c
    BY <1>0, <1>1
  <1>2. CASE c.base # Missing /\ d.base = c.base /\ c.rows \subseteq d.rows
    <2>1. /\ Cardinality(c.rows) <= Cardinality(d.rows)
          /\ d.rows # c.rows => Cardinality(c.rows) < Cardinality(d.rows)
      BY <1>0, <1>2, CountGrows, Zenon
    <2>2. /\ currentEconomicSequence(d) = d.base + Cardinality(d.rows) /\ d.base \in Nat
          /\ currentEconomicSequence(c) = d.base + Cardinality(c.rows)
      BY <1>2, SequenceType, Zenon
    <2> QED
      BY <1>0, <2>1, <2>2
  <1>3. CASE /\ c.base = Missing
             /\ d.base = Cardinality(c.rows) - Cardinality(c.rows \ Retired)
             /\ c.rows \ Retired \subseteq d.rows
    <2> DEFINE kept == c.rows \ Retired
    <2>1. /\ Cardinality(kept) \in Nat
          /\ Cardinality(kept) <= Cardinality(d.rows)
          /\ d.rows # kept => Cardinality(kept) < Cardinality(d.rows)
      BY <1>0, <1>3, CountGrows, RowsFinite, Zenon
    <2>2. Cardinality(kept) <= Cardinality(c.rows)
      BY <1>0, CountGrows, Zenon
    <2>3. d.base \in Nat /\ d.base # Missing
      BY <1>0, <1>3, <2>1, <2>2 DEF Missing
    <2>4. /\ currentEconomicSequence(d) = d.base + Cardinality(d.rows)
          /\ currentEconomicSequence(c) = d.base + Cardinality(kept)
      <3>1. /\ currentEconomicSequence(d) = d.base + Cardinality(d.rows)
            /\ currentEconomicSequence(c) = Cardinality(c.rows)
        BY <1>3, <2>3, SequenceType, Zenon
      <3>2. d.base = Cardinality(c.rows) - Cardinality(kept)
        BY <1>3, Zenon
      <3> HIDE DEF kept
      <3> QED
        BY <1>0, <2>1, <3>1, <3>2
    <2>5. ASSUME NEW r \in Rows, r \in d.rows \ c.rows PROVE d.rows # kept
      BY <2>5, Zenon
    <2> HIDE DEF kept
    <2> QED
      BY <1>0, <2>1, <2>3, <2>4, <2>5
  <1> QED
    BY <1>1, <1>2, <1>3, Zenon DEF Follows

(* An accepted observation moves the file forward, to the count of the     *)
(* database with the rows not yet committed.                               *)
LEMMA ObserveEffect ==
    ASSUME TypeOK, NEW pending \in SUBSET Rows, observeEconomicOutflows(pending)
    PROVE  /\ file' \in Nat /\ file <= file'
           /\ file' = (IF db.base = Missing THEN 0 ELSE db.base)
                        + Cardinality(db.rows \cup pending)
           /\ pending = {} => file' = currentEconomicSequence(db)
  <1> DEFINE d == [db EXCEPT !.rows = @ \cup pending]
  <1>1. db \in Databases /\ d \in Databases
    BY Zenon DEF TypeOK, Databases
  <1>2. d.base = db.base /\ d.rows = db.rows \cup pending
    BY <1>1, Zenon DEF Databases
  <1>3. currentEconomicSequence(d) \in Nat
    BY <1>1, SequenceType, Zenon
  <1>4. file' = currentEconomicSequence(d) /\ Accepts(currentEconomicSequence(d))
    BY Zenon DEF observeEconomicOutflows, Observe
  <1>5. file <= file'
    BY <1>3, <1>4 DEF Accepts, Missing, TypeOK
  <1>6. pending = {} => db.rows \cup pending = db.rows
    BY Zenon
  <1> QED
    BY <1>2, <1>3, <1>4, <1>5, <1>6, Zenon DEF currentEconomicSequence, economicOutflowCount
-----------------------------------------------------------------------------
(* The ways a step changes the committed database, the copy and the        *)
(* acknowledged rows.                                                      *)

DbMove ==
    \/ db' = db
    \/ /\ process = "down" /\ db.base = Missing
       /\ db'.version = 12 /\ db'.rows = db.rows \ Retired
       /\ db'.base = Cardinality(db.rows) - Cardinality(db.rows \ Retired)
    \/ /\ process = "serving" /\ row \in Rows \ db.rows
       /\ db'.version = db.version /\ db'.base = db.base /\ db'.rows = db.rows \cup {row}
    \/ /\ process = "serving"
       /\ db'.version = db.version /\ db'.base = db.base /\ db'.rows = db.rows
    \/ process = "down" /\ db' = backup

BackupMove == backup' = backup \/ (backup' = db' /\ db' = db)

AckMove ==
    \/ acked' = acked
    \/ /\ process = "serving" /\ file' = currentEconomicSequence(db')
       /\ \E x \in Rows \cap db'.rows : acked' = acked \cup {x}

(* What is known of the database and the call at any time.                 *)
LEMMA InvFacts ==
    ASSUME SequenceInv
    PROVE  /\ TypeOK /\ db \in Databases /\ backup \in Databases
           /\ file \in Nat \cup {Missing} /\ currentEconomicSequence(db) \in Nat
           /\ step # Idle => process = "serving" /\ row \in Rows
           /\ process # "down" => db.base # Missing /\ db.base \in Nat
  BY SequenceType, Zenon DEF SequenceInv, TypeOK, CallInv

(* Opening a database that has no base yet: the count is carried over.     *)
LEMMA InitializeEffect ==
    ASSUME SequenceInv, initializeIntegrityState
    PROVE  /\ db' \in Databases /\ DbMove
           /\ db'.version = 12 /\ db'.base # Missing
           /\ currentEconomicSequence(db') = currentEconomicSequence(db)
  <1>0. db \in Databases /\ process = "down"
    BY InvFacts, Zenon DEF initializeIntegrityState
  <1> DEFINE kept == db.rows \ Retired
  <1>1. /\ Cardinality(kept) \in Nat /\ Cardinality(db.rows) \in Nat
        /\ Cardinality(kept) <= Cardinality(db.rows)
        /\ kept \in SUBSET (Rows \cup Retired)
    BY <1>0, SequenceType, CountGrows, RowsFinite, Zenon
  <1>2. CASE db.version = 11 /\ db' = retireSchemaEleven
    <2>1. db.base = Missing
      BY <1>2, Zenon DEF SequenceInv
    <2>2. /\ db'.version = 12 /\ db'.rows = kept
          /\ db'.base = Cardinality(db.rows) - Cardinality(kept)
          /\ db'.advanced = db.advanced
      BY <1>2, Zenon DEF retireSchemaEleven, economicOutflowCount
    <2>3. db' = [version |-> db'.version, base |-> db'.base, rows |-> db'.rows,
                 advanced |-> db'.advanced]
      BY <1>2, Zenon DEF retireSchemaEleven
    <2>4. Cardinality(db.rows) - Cardinality(kept) \in Nat
      <3> HIDE DEF kept
      <3> QED BY <1>1
    <2>5. db' \in Databases
      BY <1>0, <1>1, <2>2, <2>3, <2>4, Zenon DEF Databases
    <2>6. currentEconomicSequence(db') = db'.base + Cardinality(db'.rows) /\ db'.base # Missing
      BY MissingIsNoCount, <2>2, <2>4, <2>5, SequenceType, Zenon
    <2>7. currentEconomicSequence(db) = Cardinality(db.rows)
      BY <1>0, <2>1, SequenceType, Zenon
    <2>8. currentEconomicSequence(db') = currentEconomicSequence(db)
      <3> HIDE DEF kept
      <3> QED BY <1>1, <2>2, <2>6, <2>7
    <2> QED
      BY <1>0, <2>1, <2>2, <2>5, <2>6, <2>8, Zenon DEF DbMove
  <1>3. CASE db.version = 12 /\ db.base # Missing /\ UNCHANGED db
    BY <1>0, <1>3, Zenon DEF DbMove
  <1>4. CASE /\ db.version = 12 /\ db.base = Missing /\ economicOutflowCount(db.rows) = 0
             /\ db' = [db EXCEPT !.base = 0]
    <2>1. db.rows = {}
      BY <1>0, <1>4, SequenceType, RowsFinite, FS_EmptySet, Zenon DEF economicOutflowCount
    <2>2. /\ db' \in Databases /\ db'.version = 12 /\ db'.base = 0 /\ db'.rows = db.rows
      BY <1>0, <1>4, Zenon DEF Databases
    <2>3. Cardinality(db.rows) = 0 /\ kept = db.rows
      BY <1>4, <2>1, Zenon DEF economicOutflowCount
    <2>4. currentEconomicSequence(db') = 0
      <3>1. db'.base # Missing
        BY <2>2, MissingIsNoCount
      <3>2. currentEconomicSequence(db') = db'.base + Cardinality(db'.rows)
        BY <2>2, <3>1, SequenceType, Zenon
      <3> QED
        BY <2>2, <2>3, <3>2
    <2>5. currentEconomicSequence(db) = 0
      BY <1>0, <1>4, <2>3, SequenceType, Zenon
    <2>6. db'.base = Cardinality(db.rows) - Cardinality(kept) /\ db'.rows = kept
      BY <2>2, <2>3
    <2>7. DbMove
      BY <1>0, <1>4, <2>2, <2>6, Zenon DEF DbMove
    <2> QED
      BY <2>2, <2>4, <2>5, <2>7, MissingIsNoCount
  <1> QED
    BY <1>2, <1>3, <1>4, Zenon DEF initializeIntegrityState

(* Committing a row adds it to the database.                               *)
LEMMA InsertEffect ==
    ASSUME SequenceInv, row \in Rows, row \notin db.rows, process = "serving",
           db' = [db EXCEPT !.rows = @ \cup {row}]
    PROVE  /\ db' \in Databases /\ DbMove
           /\ db'.version = db.version /\ db'.base = db.base /\ db'.rows = db.rows \cup {row}
           /\ currentEconomicSequence(db') = currentEconomicSequence(db) + 1
  <1>0. db \in Databases /\ db.base # Missing
    BY InvFacts, Zenon
  <1>1. /\ db' \in Databases /\ db'.rows = db.rows \cup {row}
        /\ db'.version = db.version /\ db'.base = db.base
    BY <1>0, Zenon DEF Databases
  <1>2. /\ Cardinality(db'.rows) = Cardinality(db.rows) + 1 /\ Cardinality(db.rows) \in Nat
    BY <1>0, <1>1, SequenceType, CountAdds, Zenon
  <1>3. /\ currentEconomicSequence(db') = db.base + Cardinality(db'.rows)
        /\ currentEconomicSequence(db) = db.base + Cardinality(db.rows) /\ db.base \in Nat
    BY <1>0, <1>1, SequenceType, Zenon
  <1> QED
    BY <1>1, <1>2, <1>3 DEF DbMove

(* Changing the state of a payment leaves the rows as they are.            *)
LEMMA TransitionEffect ==
    ASSUME SequenceInv, NEW r \in Reservations, TransitionVtxoOperation(r)
    PROVE  /\ db' \in Databases /\ DbMove
           /\ db'.version = db.version /\ db'.base = db.base /\ db'.rows = db.rows
           /\ currentEconomicSequence(db') = currentEconomicSequence(db)
  <1>1. /\ db \in Databases /\ process = "serving"
        /\ db' = [db EXCEPT !.advanced = @ \cup {r}]
    BY InvFacts, Zenon DEF TransitionVtxoOperation
  <1>2. /\ db' \in Databases
        /\ db'.version = db.version /\ db'.base = db.base /\ db'.rows = db.rows
    BY <1>1, Zenon DEF Databases
  <1> QED
    BY <1>1, <1>2, Zenon DEF DbMove, currentEconomicSequence

(* Next, action by action.                                                 *)
LEMMA NextActions ==
    ASSUME [Next]_vars
    PROVE  \/ initializeIntegrityState \/ AttachMonotonic \/ RefuseStart
           \/ \E r \in Rows : Begin(r)
           \/ ObserveInserted \/ Commit \/ Rollback
           \/ CommitRecovery \/ FinishRecovery
           \/ \E r \in Recoveries : ReplayRecovery(r)
           \/ ListSpendingDelegations
           \/ \E r \in Reservations : TransitionVtxoOperation(r)
           \/ Crash \/ Backup \/ Restore
           \/ UNCHANGED vars
  BY Zenon DEF Next

(* The commit of an observed row, field by field.                          *)
LEMMA CommitEffect ==
    ASSUME SequenceInv, Commit
    PROVE  /\ db' \in Databases /\ DbMove
           /\ row \in Rows \ db.rows /\ row \notin Recoveries /\ process = "serving"
           /\ db'.version = db.version /\ db'.base = db.base /\ db'.rows = db.rows \cup {row}
           /\ file' = currentEconomicSequence(db')
           /\ acked' = acked \cup {row}
  <1>1. /\ row \in Rows \ db.rows /\ row \notin Recoveries /\ process = "serving"
        /\ file = currentEconomicSequence(db) + 1
    <2>1. step = "observed" /\ "observed" # Idle
      BY Zenon DEF Commit, Idle
    <2> QED
      BY <2>1, InvFacts, Zenon DEF SequenceInv, CallInv
  <1>2. /\ db' = [db EXCEPT !.rows = @ \cup {row}] /\ file' = file /\ acked' = acked \cup {row}
    BY Zenon DEF Commit
  <1> QED
    BY <1>1, <1>2, InsertEffect, Zenon

(* The commit of a recovery, which has not been observed yet.              *)
LEMMA CommitRecoveryEffect ==
    ASSUME SequenceInv, CommitRecovery
    PROVE  /\ db' \in Databases /\ DbMove
           /\ row \in Recoveries \ db.rows /\ row \in Rows /\ process = "serving"
           /\ db'.version = db.version /\ db'.base = db.base /\ db'.rows = db.rows \cup {row}
           /\ currentEconomicSequence(db') = currentEconomicSequence(db) + 1
           /\ file' = file /\ acked' = acked
  <1>1. row \in Rows \ db.rows /\ row \in Recoveries /\ process = "serving"
    <2>1. step = "inserted" /\ "inserted" # Idle /\ row \in Recoveries
      BY Zenon DEF CommitRecovery, Idle
    <2> QED
      BY <2>1, InvFacts, Zenon DEF SequenceInv, CallInv
  <1>2. db' = [db EXCEPT !.rows = @ \cup {row}] /\ file' = file /\ acked' = acked
    BY Zenon DEF CommitRecovery, history
  <1> QED
    BY <1>1, <1>2, InsertEffect, Zenon

(* Every step changes the database, the copy and the acknowledged rows in  *)
(* one of the ways above, and the file never goes back.                    *)
LEMMA MoveStep ==
    ASSUME SequenceInv, [Next]_vars
    PROVE  /\ db' \in Databases /\ backup' \in Databases /\ file' \in Nat \cup {Missing}
           /\ DbMove /\ BackupMove /\ AckMove /\ file <= file'
  <1> DEFINE Good == /\ db' \in Databases /\ backup' \in Databases
                     /\ file' \in Nat \cup {Missing}
                     /\ DbMove /\ BackupMove /\ AckMove /\ file <= file'
  <1>0. /\ TypeOK /\ db \in Databases /\ backup \in Databases /\ file \in Nat \cup {Missing}
        /\ file <= file
    BY InvFacts, MissingIsNoCount
  <1>1. CASE initializeIntegrityState
    BY <1>0, <1>1, InitializeEffect, Zenon
       DEF initializeIntegrityState, history, BackupMove, AckMove
  <1>2. ASSUME observeEconomicOutflows({}), UNCHANGED <<db, backup, acked>>
        PROVE  Good
    BY <1>0, <1>2, ObserveEffect, Zenon DEF DbMove, BackupMove, AckMove
  <1>3. CASE AttachMonotonic \/ ListSpendingDelegations
    BY <1>2, <1>3, Zenon DEF AttachMonotonic, ListSpendingDelegations, history
  <1>4. CASE RefuseStart \/ Rollback \/ Crash \/ UNCHANGED vars
    BY <1>0, <1>4, Zenon
       DEF RefuseStart, Rollback, Crash, vars, history, DbMove, BackupMove, AckMove
  <1>5. ASSUME NEW r \in Rows, Begin(r)
        PROVE  Good
    <2>1. CASE UNCHANGED file
      BY <1>0, <1>5, <2>1, Zenon DEF Begin, history, DbMove, BackupMove, AckMove
    <2>2. CASE observeEconomicOutflows({})
      BY <1>2, <1>5, <2>2, Zenon DEF Begin, history
    <2> QED
      BY <1>5, <2>1, <2>2, Zenon DEF Begin
  <1>6. CASE ObserveInserted
    <2>1. {row} \in SUBSET Rows
      BY <1>6, InvFacts, Zenon DEF ObserveInserted, Idle
    <2> QED
      BY <1>0, <1>6, <2>1, ObserveEffect, Zenon
         DEF ObserveInserted, history, DbMove, BackupMove, AckMove
  <1>7. CASE Commit
    <2>1. AckMove
      BY <1>7, CommitEffect, Zenon DEF AckMove
    <2> QED
      BY <1>0, <1>7, <2>1, CommitEffect, Zenon DEF Commit, BackupMove
  <1>8. CASE CommitRecovery
    BY <1>0, <1>8, CommitRecoveryEffect, Zenon DEF CommitRecovery, history, BackupMove, AckMove
  <1>9. CASE FinishRecovery
    <2>1. CASE UNCHANGED <<file, acked>>
      BY <1>0, <1>9, <2>1, Zenon DEF FinishRecovery, DbMove, BackupMove, AckMove
    <2>2. CASE observeEconomicOutflows({}) /\ acked' = acked \cup {row}
      <3>1. row \in Rows \cap db.rows /\ process = "serving" /\ db' = db
        BY <1>9, InvFacts, Zenon DEF FinishRecovery, SequenceInv, CallInv, Idle
      <3>2. file' = currentEconomicSequence(db) /\ file' \in Nat /\ file <= file'
        BY <1>0, <2>2, ObserveEffect, Zenon
      <3> QED
        BY <1>0, <1>9, <2>2, <3>1, <3>2, Zenon DEF FinishRecovery, DbMove, BackupMove, AckMove
    <2> QED
      BY <1>9, <2>1, <2>2, Zenon DEF FinishRecovery
  <1>10. ASSUME NEW r \in Recoveries, ReplayRecovery(r)
         PROVE  Good
    <2>1. r \in Rows \cap db.rows /\ process = "serving" /\ db' = db
      BY <1>10, Zenon DEF ReplayRecovery, Rows
    <2>2. file' = currentEconomicSequence(db) /\ file' \in Nat /\ file <= file'
      BY <1>0, <1>10, ObserveEffect, Zenon DEF ReplayRecovery
    <2> QED
      BY <1>0, <1>10, <2>1, <2>2, Zenon DEF ReplayRecovery, DbMove, BackupMove, AckMove
  <1>11. ASSUME NEW r \in Reservations, TransitionVtxoOperation(r)
         PROVE  Good
    BY <1>0, <1>11, TransitionEffect, Zenon DEF TransitionVtxoOperation, BackupMove, AckMove
  <1>12. CASE Backup \/ Restore
    BY <1>0, <1>12, Zenon DEF Backup, Restore, history, DbMove, BackupMove, AckMove
  <1> QED
    BY <1>1, <1>3, <1>4, <1>5, <1>6, <1>7, <1>8, <1>9, <1>10, <1>11, <1>12, NextActions, Zenon

(* The copy stays a past of the database.                                  *)
LEMMA FollowsStep ==
    ASSUME SequenceInv, [Next]_vars
    PROVE  Follows(db, backup)' /\ Follows(db', backup)
  <1>0. /\ Follows(db, backup) /\ DbMove /\ BackupMove
        /\ db \in Databases /\ backup \in Databases
        /\ process # "down" => db.base # Missing
    BY InvFacts, MoveStep, Zenon DEF SequenceInv
  <1>1. Follows(db', backup)
    <2>1. CASE db' = db \/ db' = backup
      BY <1>0, <2>1, Zenon DEF Follows
    <2>2. CASE /\ db.base = Missing
               /\ db'.version = 12 /\ db'.rows = db.rows \ Retired
               /\ db'.base = Cardinality(db.rows) - Cardinality(db.rows \ Retired)
      <3>1. db = backup
        <4>1. /\ Cardinality(backup.rows) \in Nat /\ Cardinality(backup.rows \ Retired) \in Nat
              /\ Cardinality(backup.rows \ Retired) <= Cardinality(backup.rows)
          BY <1>0, SequenceType, CountGrows, RowsFinite, Zenon
        <4>2. Cardinality(backup.rows) - Cardinality(backup.rows \ Retired) # Missing
          BY <4>1, MissingIsNoCount
        <4> QED
          BY <1>0, <2>2, <4>2, Zenon DEF Follows
      <3> QED
        BY <2>2, <3>1, Zenon DEF Follows
    <2>3. CASE /\ process = "serving" /\ db'.base = db.base
               /\ db.rows \subseteq db'.rows
      BY <1>0, <2>3, Zenon DEF Follows
    <2> QED
      BY <1>0, <2>1, <2>2, <2>3, Zenon DEF DbMove
  <1>2. Follows(db', db')
    BY Zenon DEF Follows
  <1>3. Follows(db', backup')
    BY <1>0, <1>1, <1>2, Zenon DEF BackupMove
  <1> QED
    BY <1>1, <1>3, Zenon DEF Follows

(* A process that serves only adds rows.                                   *)
LEMMA ServingKeepsRows ==
    ASSUME SequenceInv, [Next]_vars, process = "serving"
    PROVE  db.rows \subseteq db'.rows /\ acked' \subseteq db'.rows
  <1>1. acked \subseteq db.rows
    BY Zenon DEF SequenceInv, AcknowledgedSurvive
  <1>2. db.rows \subseteq db'.rows
    BY MoveStep, Zenon DEF DbMove
  <1> QED
    BY <1>1, <1>2, MoveStep, Zenon DEF AckMove

(* The database that misses an acknowledged row stays behind the file.     *)
LEMMA DatabaseBehindStep ==
    ASSUME SequenceInv, [Next]_vars
    PROVE  acked' \subseteq db'.rows \/ currentEconomicSequence(db') < file'
  <1>0. /\ DbMove /\ AckMove /\ file <= file' /\ file \in Nat \cup {Missing}
        /\ file' \in Nat \cup {Missing} /\ db \in Databases /\ db' \in Databases
        /\ backup \in Databases
        /\ BehindIfMissing(db) /\ BehindIfMissing(backup) /\ acked \subseteq Rows
    BY InvFacts, MoveStep, Zenon DEF SequenceInv, TypeOK
  <1>1. /\ file \in Int /\ file' \in Int
        /\ currentEconomicSequence(db) \in Nat /\ currentEconomicSequence(db') \in Nat
        /\ currentEconomicSequence(backup) \in Nat
    BY <1>0, SequenceType, MissingIsNoCount
  <1>2. CASE process = "serving"
    BY <1>2, ServingKeepsRows, Zenon
  <1>3. CASE acked' = acked /\ (db' = db \/ db' = backup)
    BY <1>0, <1>1, <1>3 DEF BehindIfMissing
  <1>4. CASE /\ process = "down" /\ db.base = Missing /\ acked' = acked
             /\ db'.rows = db.rows \ Retired
             /\ db'.base = Cardinality(db.rows) - Cardinality(db.rows \ Retired)
    <2>1. acked \subseteq db.rows => acked \subseteq db'.rows
      BY <1>0, <1>4, RowAssumption, Zenon
    <2>2. currentEconomicSequence(db') = currentEconomicSequence(db)
      <3>1. /\ Cardinality(db.rows) \in Nat /\ Cardinality(db.rows \ Retired) \in Nat
            /\ Cardinality(db.rows \ Retired) <= Cardinality(db.rows)
        BY <1>0, SequenceType, CountGrows, RowsFinite, Zenon
      <3>2. db'.base # Missing
        BY <1>4, <3>1, MissingIsNoCount
      <3>3. /\ currentEconomicSequence(db') = db'.base + Cardinality(db'.rows)
            /\ currentEconomicSequence(db) = Cardinality(db.rows)
        BY <1>0, <1>4, <3>2, SequenceType, Zenon
      <3> QED
        BY <1>4, <3>1, <3>3
    <2> QED
      BY <1>0, <1>1, <1>4, <2>1, <2>2 DEF BehindIfMissing
  <1> QED
    BY <1>0, <1>2, <1>3, <1>4, Zenon DEF DbMove, AckMove

(* So does the copy.                                                       *)
LEMMA CopyBehindStep ==
    ASSUME SequenceInv, [Next]_vars
    PROVE  acked' \subseteq backup'.rows \/ currentEconomicSequence(backup') < file'
  <1>0. /\ BackupMove /\ AckMove /\ file <= file' /\ file \in Nat \cup {Missing}
        /\ file' \in Nat \cup {Missing} /\ db' \in Databases
        /\ backup \in Databases /\ BehindIfMissing(backup)
    BY InvFacts, MoveStep, Zenon DEF SequenceInv
  <1>1. /\ file \in Int /\ file' \in Int /\ currentEconomicSequence(backup) \in Nat
    BY <1>0, SequenceType, MissingIsNoCount
  <1>2. CASE backup' = db'
    BY <1>2, DatabaseBehindStep, Zenon
  <1>3. CASE backup' = backup /\ acked' = acked
    BY <1>0, <1>1, <1>3 DEF BehindIfMissing
  <1>4. ASSUME backup' = backup, file' = currentEconomicSequence(db'),
               NEW x \in Rows \cap db'.rows, acked' = acked \cup {x}
        PROVE  acked' \subseteq backup'.rows \/ currentEconomicSequence(backup') < file'
    <2>1. CASE x \in backup.rows
      BY <1>0, <1>1, <1>4, <2>1 DEF BehindIfMissing
    <2>2. CASE x \notin backup.rows
      BY <1>0, <1>4, <2>2, FollowsStep, SequenceGrows, Zenon
    <2> QED
      BY <2>1, <2>2, Zenon
  <1> QED
    BY <1>0, <1>2, <1>3, <1>4, Zenon DEF BackupMove, AckMove

(* A process that starts to serve has observed a database that is not      *)
(* behind the file, so no acknowledged row is missing.                     *)
LEMMA SurviveStep ==
    ASSUME SequenceInv, [Next]_vars
    PROVE  AcknowledgedSurvive'
  <1> SUFFICES ASSUME process' = "serving"
               PROVE  acked' \subseteq db'.rows
    BY Zenon DEF AcknowledgedSurvive
  <1>1. CASE process = "serving"
    BY <1>1, ServingKeepsRows, Zenon
  <1>2. CASE AttachMonotonic
    <2>1. file' = currentEconomicSequence(db') /\ currentEconomicSequence(db') \in Nat
      <3>1. TypeOK /\ db' = db /\ observeEconomicOutflows({})
        BY <1>2, InvFacts, Zenon DEF AttachMonotonic
      <3> QED
        BY <3>1, ObserveEffect, InvFacts, Zenon
    <2> QED
      BY <2>1, DatabaseBehindStep
  <1>3. process # "serving" => AttachMonotonic
    <2>1. CASE UNCHANGED process \/ process = "serving" \/ process' # "serving"
      BY <2>1, Zenon
    <2> QED
      BY <2>1, NextActions, Zenon
         DEF initializeIntegrityState, RefuseStart, Begin, ObserveInserted, Commit, Rollback,
             CommitRecovery, FinishRecovery, ReplayRecovery, ListSpendingDelegations,
             TransitionVtxoOperation, Crash, Backup, Restore, vars
  <1> QED
    BY <1>1, <1>2, <1>3, Zenon

(* A serving process counts every row but the unacknowledged recoveries.   *)
LEMMA CoversStep ==
    ASSUME SequenceInv, [Next]_vars
    PROVE  SequenceCoversReservations'
  <1> DEFINE covered == db.rows \ (Recoveries \ acked)
  <1> SUFFICES ASSUME process' = "serving"
               PROVE  db'.base + Cardinality(covered') <= file'
    BY Zenon DEF SequenceCoversReservations
  <1>0. /\ TypeOK /\ db \in Databases /\ db' \in Databases /\ file <= file'
        /\ file \in Int /\ file' \in Int
    BY InvFacts, MoveStep, MissingIsNoCount
  <1>1. ASSUME file' = currentEconomicSequence(db'), db'.base # Missing
        PROVE  db'.base + Cardinality(covered') <= file'
    <2>1. /\ file' = db'.base + Cardinality(db'.rows) /\ db'.base \in Nat
          /\ Cardinality(db'.rows) \in Nat /\ db'.rows \in SUBSET (Rows \cup Retired)
      BY <1>0, <1>1, SequenceType, Zenon
    <2>2. Cardinality(covered') <= Cardinality(db'.rows) /\ Cardinality(covered') \in Nat
      BY <2>1, CountGrows, RowsFinite, Zenon
    <2> QED
      BY <2>1, <2>2
  <1>2. ASSUME observeEconomicOutflows({}), UNCHANGED db, process # "down"
        PROVE  db'.base + Cardinality(covered') <= file'
    BY <1>0, <1>1, <1>2, ObserveEffect, InvFacts, Zenon
  <1>3. ASSUME process = "serving", db'.base = db.base, covered' = covered
        PROVE  db'.base + Cardinality(covered') <= file'
    <2>1. db.base + Cardinality(covered) <= file /\ db.base \in Nat
      BY <1>3, InvFacts, Zenon DEF SequenceInv, SequenceCoversReservations
    <2>2. Cardinality(covered) \in Nat
      BY <1>0, SequenceType, RowsFinite, Zenon
    <2> HIDE DEF covered
    <2> QED
      BY <1>0, <1>3, <2>1, <2>2
  <1>4. CASE AttachMonotonic \/ ListSpendingDelegations
    BY <1>2, <1>4, Zenon DEF AttachMonotonic, ListSpendingDelegations
  <1>5. CASE ObserveInserted \/ Rollback \/ Backup \/ UNCHANGED vars
    <2>1. process = "serving" /\ db' = db /\ acked' = acked
      BY <1>5, Zenon DEF ObserveInserted, Rollback, Backup, history, vars
    <2> QED
      BY <1>3, <2>1, Zenon
  <1>6. ASSUME NEW r \in Rows, Begin(r)
        PROVE  db'.base + Cardinality(covered') <= file'
    BY <1>3, <1>6, Zenon DEF Begin, history
  <1>7. CASE Commit
    BY <1>1, <1>7, CommitEffect, InvFacts, Zenon
  <1>8. CASE CommitRecovery
    <2>1. row \notin acked
      BY <1>8, CommitRecoveryEffect, Zenon DEF SequenceInv, AcknowledgedSurvive
    <2>2. covered' = covered
      BY <1>8, <2>1, CommitRecoveryEffect, Zenon
    <2> QED
      BY <1>3, <1>8, <2>2, CommitRecoveryEffect, Zenon
  <1>9. CASE FinishRecovery
    <2>1. process # "down" /\ process = "serving" /\ db' = db
      BY <1>9, InvFacts, Zenon DEF FinishRecovery, Idle
    <2>2. CASE observeEconomicOutflows({})
      BY <1>2, <2>1, <2>2, Zenon
    <2>3. CASE acked' = acked
      BY <1>3, <2>1, <2>3, Zenon
    <2> QED
      BY <1>9, <2>2, <2>3, Zenon DEF FinishRecovery
  <1>10. ASSUME NEW r \in Recoveries, ReplayRecovery(r)
         PROVE  db'.base + Cardinality(covered') <= file'
    BY <1>2, <1>10, Zenon DEF ReplayRecovery
  <1>11. ASSUME NEW r \in Reservations, TransitionVtxoOperation(r)
         PROVE  db'.base + Cardinality(covered') <= file'
    BY <1>3, <1>11, TransitionEffect, Zenon DEF TransitionVtxoOperation
  <1>12. ~initializeIntegrityState /\ ~RefuseStart /\ ~Crash /\ ~Restore
    BY Zenon DEF initializeIntegrityState, RefuseStart, Crash, Restore
  <1> QED
    BY <1>4, <1>5, <1>6, <1>7, <1>8, <1>9, <1>10, <1>11, <1>12, NextActions, Zenon

(* Only a call cut off after its observation, or a restored copy, leaves   *)
(* the file ahead of the database.                                         *)
LEMMA RefusedStep ==
    ASSUME SequenceInv, [Next]_vars
    PROVE  RefusedOnlyWhenTorn'
  <1> SUFFICES ASSUME file' > currentEconomicSequence(db')
               PROVE  torn' \/ restored' \/ step' = "observed"
    BY Zenon DEF RefusedOnlyWhenTorn
  <1>0. /\ TypeOK /\ RefusedOnlyWhenTorn /\ currentEconomicSequence(db) \in Nat
        /\ file' \in Int /\ currentEconomicSequence(db') \in Nat
    BY InvFacts, MoveStep, SequenceType, MissingIsNoCount DEF SequenceInv
  <1>1. ASSUME observeEconomicOutflows({}), UNCHANGED db
        PROVE  FALSE
    BY <1>0, <1>1, ObserveEffect
  <1>2. ASSUME file' = file, currentEconomicSequence(db') = currentEconomicSequence(db),
               torn' = torn, restored' = restored, step = "observed" => step' = "observed"
        PROVE  torn' \/ restored' \/ step' = "observed"
    BY <1>0, <1>2, Zenon DEF RefusedOnlyWhenTorn
  <1>3. CASE initializeIntegrityState
    BY <1>2, <1>3, InitializeEffect, Zenon DEF initializeIntegrityState, history, callVars
  <1>4. CASE AttachMonotonic \/ ListSpendingDelegations
    BY <1>1, <1>4, Zenon DEF AttachMonotonic, ListSpendingDelegations
  <1>5. CASE RefuseStart \/ Backup \/ UNCHANGED vars
    BY <1>2, <1>5, Zenon DEF RefuseStart, Backup, history, callVars, vars
  <1>6. ASSUME NEW r \in Rows, Begin(r)
        PROVE  torn' \/ restored' \/ step' = "observed"
    <2>1. step # "observed"
      BY <1>0, <1>6, Zenon DEF TypeOK, Begin, Idle
    <2> QED
      BY <1>1, <1>2, <1>6, <2>1, Zenon DEF Begin, history
  <1>7. CASE ObserveInserted
    BY <1>7, Zenon DEF ObserveInserted
  <1>8. CASE Commit
    BY <1>0, <1>8, CommitEffect
  <1>9. CASE Rollback \/ Crash
    <2>1. torn' = (torn \/ step = "observed") /\ restored' = restored
      BY <1>9, Zenon DEF Rollback, Crash
    <2>2. file' = file /\ db' = db
      BY <1>9, Zenon DEF Rollback, Crash
    <2> QED
      BY <1>0, <2>1, <2>2, Zenon DEF RefusedOnlyWhenTorn
  <1>10. CASE CommitRecovery
    <2>1. /\ file' = file /\ torn' = torn /\ restored' = restored /\ step # "observed"
          /\ currentEconomicSequence(db') = currentEconomicSequence(db) + 1
      BY <1>10, CommitRecoveryEffect, Zenon DEF CommitRecovery, history
    <2>2. file > currentEconomicSequence(db)
      BY <1>0, <2>1
    <2> QED
      BY <1>0, <2>1, <2>2, Zenon DEF RefusedOnlyWhenTorn
  <1>11. CASE FinishRecovery
    BY <1>1, <1>2, <1>11, Zenon DEF FinishRecovery
  <1>12. ASSUME NEW r \in Recoveries, ReplayRecovery(r)
         PROVE  FALSE
    BY <1>1, <1>12, Zenon DEF ReplayRecovery
  <1>13. ASSUME NEW r \in Reservations, TransitionVtxoOperation(r)
         PROVE  torn' \/ restored' \/ step' = "observed"
    BY <1>2, <1>13, TransitionEffect, Zenon DEF TransitionVtxoOperation, callVars
  <1>14. CASE Restore
    BY <1>14, Zenon DEF Restore
  <1> QED
    BY <1>3, <1>4, <1>5, <1>6, <1>7, <1>8, <1>9, <1>10, <1>11, <1>12, <1>13, <1>14, NextActions, Zenon

(* The mutex keeps the facts a call relies on between its steps.           *)
LEMMA CallStep ==
    ASSUME SequenceInv, [Next]_vars
    PROVE  CallInv'
  <1>0. /\ TypeOK /\ CallInv /\ db \in Databases /\ db' \in Databases
        /\ (row = Idle) <=> (step = Idle)
        /\ currentEconomicSequence(db) \in Nat
    BY InvFacts, MoveStep, Zenon DEF SequenceInv, TypeOK
  <1>1. ASSUME step' = Idle
        PROVE  CallInv'
    BY <1>1, Zenon DEF CallInv, Idle
  <1>2. ASSUME row = Idle, UNCHANGED <<row, step>>
        PROVE  CallInv'
    BY <1>0, <1>1, <1>2, Zenon
  <1>3. CASE initializeIntegrityState \/ RefuseStart \/ AttachMonotonic \/ Restore
    <2>1. process # "serving" /\ UNCHANGED step
      BY <1>3, Zenon
         DEF initializeIntegrityState, RefuseStart, AttachMonotonic, Restore, callVars
    <2> QED
      BY <1>0, <1>1, <2>1, Zenon DEF CallInv
  <1>4. ASSUME NEW r \in Rows, Begin(r)
        PROVE  CallInv'
    BY <1>4, Zenon DEF Begin, CallInv, Idle
  <1>5. CASE ObserveInserted
    <2>1. /\ step = "inserted" /\ row \in Rows /\ process = "serving"
          /\ row \notin db.rows /\ row \notin Recoveries
      BY <1>5, InvFacts, Zenon DEF ObserveInserted, Idle, SequenceInv, CallInv
    <2>2. /\ UNCHANGED <<db, row, process>> /\ step' = "observed"
      BY <1>5, Zenon DEF ObserveInserted
    <2>3. file' = currentEconomicSequence(db) + 1
      <3>1. file' = db.base + Cardinality(db.rows \cup {row}) /\ db.base # Missing
        BY <1>0, <1>5, <2>1, ObserveEffect, InvFacts, Zenon DEF ObserveInserted
      <3>2. Cardinality(db.rows \cup {row}) = Cardinality(db.rows) + 1
        BY <1>0, <2>1, SequenceType, CountAdds, Zenon
      <3>3. /\ currentEconomicSequence(db) = db.base + Cardinality(db.rows)
            /\ db.base \in Nat /\ Cardinality(db.rows) \in Nat
        BY <1>0, <3>1, SequenceType, Zenon
      <3> QED
        BY <3>1, <3>2, <3>3
    <2> QED
      BY <2>1, <2>2, <2>3, Zenon DEF CallInv, Idle
  <1>6. CASE Commit \/ Rollback \/ FinishRecovery \/ Crash
    BY <1>1, <1>6, Zenon DEF Commit, Rollback, FinishRecovery, Crash
  <1>7. CASE CommitRecovery
    BY <1>7, CommitRecoveryEffect, Zenon DEF CommitRecovery, CallInv, Idle
  <1>8. CASE ListSpendingDelegations
    BY <1>2, <1>8, Zenon DEF ListSpendingDelegations, callVars
  <1>9. ASSUME NEW r \in Recoveries, ReplayRecovery(r)
        PROVE  CallInv'
    BY <1>2, <1>9, Zenon DEF ReplayRecovery, callVars
  <1>10. ASSUME NEW r \in Reservations, TransitionVtxoOperation(r)
         PROVE  CallInv'
    BY <1>2, <1>10, Zenon DEF TransitionVtxoOperation, callVars
  <1>11. CASE Backup \/ UNCHANGED vars
    BY <1>0, <1>11, Zenon DEF Backup, vars, callVars, CallInv, currentEconomicSequence
  <1> QED
    BY <1>3, <1>4, <1>5, <1>6, <1>7, <1>8, <1>9, <1>10, <1>11, NextActions, Zenon

(* The variables keep their types.                                         *)
LEMMA TypeStep ==
    ASSUME SequenceInv, [Next]_vars
    PROVE  TypeOK'
  <1>1. db' \in Databases /\ backup' \in Databases /\ file' \in Nat \cup {Missing}
    BY MoveStep, Zenon
  <1>2. process' \in {"down", "keyed", "serving"}
    BY NextActions, Zenon
       DEF SequenceInv, TypeOK, initializeIntegrityState, AttachMonotonic, RefuseStart, Begin,
           ObserveInserted, Commit, Rollback, CommitRecovery, FinishRecovery, ReplayRecovery,
           ListSpendingDelegations, TransitionVtxoOperation, Crash, Backup, Restore, vars
  <1>3. /\ row' \in Rows \cup {Idle}
        /\ (row' = Idle) <=> (step' = Idle)
        /\ step' \in {Idle, "inserted", "observed", "committed"}
    BY NextActions, RowAssumption, Zenon
       DEF SequenceInv, TypeOK, initializeIntegrityState, AttachMonotonic, RefuseStart, Begin,
           ObserveInserted, Commit, Rollback, CommitRecovery, FinishRecovery, ReplayRecovery,
           ListSpendingDelegations, TransitionVtxoOperation, Crash, Backup, Restore, vars,
           callVars, Idle
  <1>4. acked' \subseteq Rows
    BY MoveStep, Zenon DEF AckMove, SequenceInv, TypeOK
  <1>5. ackedAdvanced' \subseteq Reservations
    BY NextActions, Zenon
       DEF SequenceInv, TypeOK, initializeIntegrityState, AttachMonotonic, RefuseStart, Begin,
           ObserveInserted, Commit, Rollback, CommitRecovery, FinishRecovery, ReplayRecovery,
           ListSpendingDelegations, TransitionVtxoOperation, Crash, Backup, Restore, vars,
           history
  <1>6. torn' \in BOOLEAN
    <2>1. torn \in BOOLEAN
      BY Zenon DEF SequenceInv, TypeOK
    <2>2. CASE Rollback \/ Crash
      BY <2>2, Zenon DEF Rollback, Crash
    <2> QED
      BY <2>1, <2>2, NextActions, Zenon
         DEF initializeIntegrityState, AttachMonotonic, RefuseStart, Begin, ObserveInserted,
             Commit, CommitRecovery, FinishRecovery, ReplayRecovery, ListSpendingDelegations,
             TransitionVtxoOperation, Backup, Restore, vars, history
  <1>7. restored' \in BOOLEAN
    <2>1. restored \in BOOLEAN
      BY Zenon DEF SequenceInv, TypeOK
    <2>2. CASE Restore
      BY <2>2, Zenon DEF Restore
    <2> QED
      BY <2>1, <2>2, NextActions, Zenon
         DEF initializeIntegrityState, AttachMonotonic, RefuseStart, Begin, ObserveInserted,
             Commit, Rollback, CommitRecovery, FinishRecovery, ReplayRecovery,
             ListSpendingDelegations, TransitionVtxoOperation, Crash, Backup, vars, history
  <1> QED
    BY <1>1, <1>2, <1>3, <1>4, <1>5, <1>6, <1>7, Zenon DEF TypeOK

(* An open database is of schema 12 and has a base; one of schema 11 has   *)
(* none.                                                                   *)
LEMMA VersionStep ==
    ASSUME SequenceInv, [Next]_vars
    PROVE  /\ \A d \in {db', backup'} : d.version = 11 => d.base = Missing
           /\ process' # "down" => db'.version = 12 /\ db'.base # Missing
  <1>0. /\ \A d \in {db, backup} : d.version = 11 => d.base = Missing
        /\ process # "down" => db.version = 12 /\ db.base # Missing
        /\ DbMove /\ BackupMove
    BY MoveStep, Zenon DEF SequenceInv
  <1>1. db'.version = 11 => db'.base = Missing
    BY <1>0 DEF DbMove
  <1>2. backup'.version = 11 => backup'.base = Missing
    BY <1>0, <1>1, Zenon DEF BackupMove
  <1>3. ASSUME process' # "down"
        PROVE  db'.version = 12 /\ db'.base # Missing
    <2>1. CASE initializeIntegrityState
      BY <2>1, InitializeEffect, Zenon
    <2>2. CASE ~initializeIntegrityState
      <3>1. process # "down"
        BY <1>3, <2>2, NextActions, InvFacts, Zenon
           DEF AttachMonotonic, RefuseStart, Begin, ObserveInserted, Commit, Rollback,
               CommitRecovery, FinishRecovery, ReplayRecovery, ListSpendingDelegations,
               TransitionVtxoOperation, Crash, Backup, Restore, vars
      <3> QED
        BY <1>0, <3>1, Zenon DEF DbMove
    <2> QED
      BY <2>1, <2>2, Zenon
  <1> QED
    BY <1>1, <1>2, <1>3, Zenon

(* A new deployment, and one that upgrades, start in the invariant.        *)
LEMMA InitInv == Init => SequenceInv
  <1> SUFFICES ASSUME Init PROVE SequenceInv
    BY Zenon
  <1>1. /\ db \in Databases /\ db.base = Missing
        /\ db.version = 11 \/ db.rows = {}
        /\ file = Missing \/ file = Cardinality(db.rows)
    <2>1. CASE /\ db = [version |-> 12, base |-> Missing, rows |-> {}, advanced |-> {}]
               /\ file = Missing
      BY <2>1, Zenon DEF Databases
    <2>2. ASSUME NEW held \in SUBSET Reservations,
                 db = [version |-> 11, base |-> Missing, rows |-> Retired \cup held,
                       advanced |-> {}],
                 file = Cardinality(db.rows)
          PROVE  db \in Databases /\ db.base = Missing /\ db.version = 11
      BY <2>2, Zenon DEF Databases, Rows
    <2> QED
      BY <2>1, <2>2, Zenon DEF Init
  <1>2. /\ currentEconomicSequence(db) = Cardinality(db.rows) /\ Cardinality(db.rows) \in Nat
    BY <1>1, SequenceType, Zenon
  <1>3. file \in Nat \cup {Missing} /\ ~(file > currentEconomicSequence(db))
    BY <1>1, <1>2, MissingIsNoCount
  <1>4. /\ backup = db /\ acked = db.rows \cap Rows /\ process = "down"
        /\ row = Idle /\ step = Idle /\ ackedAdvanced = {}
    BY Zenon DEF Init
  <1>5. torn \in BOOLEAN /\ restored \in BOOLEAN
    BY Zenon DEF Init
  <1>6. TypeOK
    BY <1>1, <1>3, <1>4, <1>5, Zenon DEF TypeOK
  <1>7. CallInv /\ AcknowledgedSurvive /\ SequenceCoversReservations
    BY <1>4, Zenon DEF CallInv, AcknowledgedSurvive, SequenceCoversReservations, Idle
  <1>8. RefusedOnlyWhenTorn
    BY <1>3, Zenon DEF RefusedOnlyWhenTorn
  <1>9. \A d \in {db, backup} : (d.version = 11 => d.base = Missing) /\ BehindIfMissing(d)
    BY <1>1, <1>4, Zenon DEF BehindIfMissing
  <1> QED
    BY <1>4, <1>6, <1>7, <1>8, <1>9, Zenon DEF SequenceInv, Follows

(* SequenceInv holds initially and every step keeps it.                    *)
LEMMA SequenceInvariant == Spec => []SequenceInv
  <1>1. SequenceInv /\ [Next]_vars => SequenceInv'
    <2> SUFFICES ASSUME SequenceInv, [Next]_vars PROVE SequenceInv'
      BY Zenon
    <2>1. \A d \in {db', backup'} : d.version = 11 => d.base = Missing
      BY VersionStep, Zenon
    <2>2. BehindIfMissing(db)' /\ BehindIfMissing(backup)'
      BY DatabaseBehindStep, CopyBehindStep, Zenon DEF BehindIfMissing
    <2>3. (\A d \in {db, backup} : (d.version = 11 => d.base = Missing) /\ BehindIfMissing(d))'
      BY <2>1, <2>2, Zenon
    <2>4. (process # "down" => db.version = 12 /\ db.base # Missing)'
      BY VersionStep, Zenon
    <2> QED
      BY <2>3, <2>4, TypeStep, FollowsStep, CallStep, SurviveStep, CoversStep, RefusedStep, Zenon
         DEF SequenceInv
  <1> QED
    BY <1>1, InitInv, PTL DEF Spec

(* The database, the file, the copy and the call in progress keep their    *)
(* types; in particular no retirement makes the base negative.             *)
THEOREM SequenceTypes == Spec => []TypeOK
  <1>1. SequenceInv => TypeOK
    BY Zenon DEF SequenceInv
  <1> QED
    BY <1>1, SequenceInvariant, PTL

(* Whatever crashes, fails or is restored, a process that serves has every *)
(* row whose call reported success (Monotonic.Observe at start).           *)
THEOREM AcknowledgedRowsSurvive == Spec => []AcknowledgedSurvive
  <1>1. SequenceInv => AcknowledgedSurvive
    BY Zenon DEF SequenceInv
  <1> QED
    BY <1>1, SequenceInvariant, PTL

(* The file is never behind what a serving database must not forget        *)
(* (observeEconomicOutflowsLocked before each COMMIT).                     *)
THEOREM FileCoversReservations == Spec => []SequenceCoversReservations
  <1>1. SequenceInv => SequenceCoversReservations
    BY Zenon DEF SequenceInv
  <1> QED
    BY <1>1, SequenceInvariant, PTL

(* A start is refused only after a torn call or a restored copy.           *)
THEOREM RefusedStartExplained == Spec => []RefusedOnlyWhenTorn
  <1>1. SequenceInv => RefusedOnlyWhenTorn
    BY Zenon DEF SequenceInv
  <1> QED
    BY <1>1, SequenceInvariant, PTL
=============================================================================
