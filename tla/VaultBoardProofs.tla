-------------------------- MODULE VaultBoardProofs --------------------------
(***************************************************************************)
(* What is proved of VaultBoard, for any number of requests, attempts,     *)
(* session keys, commitments and reorganizations, and for every lifetime,  *)
(* margin and quarantine: one open registration of the outpoint is live at *)
(* the Operator, nothing leaves twice, no second commitment is signed      *)
(* beside a possible first, and superseded attempts stay as they are.      *)
(***************************************************************************)
EXTENDS VaultBoard, SequenceTheorems, TLAPS

(* The ledger gains or changes the row of one attempt.                     *)
Writes(a, row) ==
    /\ a \in DOMAIN board /\ row \in Attempts
    /\ board' \in Seq(Attempts) /\ Len(board') = Len(board) /\ DOMAIN board' = DOMAIN board
    /\ board'[a] = row
    /\ \A b \in DOMAIN board \ {a} : board'[b] = board[b]

(* The attempts of the ledger are numbered from one and typed.             *)
LEMMA BoardFacts ==
    ASSUME BoardTypes
    PROVE  /\ Len(board) \in Nat /\ DOMAIN board = 1..Len(board) /\ DOMAIN board \subseteq Ids
           /\ MaxAttempts \in Nat
           /\ \A a \in DOMAIN board : board[a] \in Attempts
  <1>1. Len(board) \in Nat /\ DOMAIN board = 1..Len(board) /\ board \in [1..Len(board) -> Attempts]
    BY LenProperties, Zenon DEF BoardTypes
  <1> QED
    BY <1>1, HandlerAssumption DEF BoardTypes, Ids

(* Replacing the row of an attempt replaces that row only.                 *)
LEMMA WriteRow ==
    ASSUME BoardTypes, NEW a \in DOMAIN board, NEW row \in Attempts,
           board' = [board EXCEPT ![a] = row]
    PROVE  Writes(a, row)
  <1>1. board \in Seq(Attempts) /\ a \in 1..Len(board) /\ DOMAIN board = 1..Len(board)
    BY BoardFacts, Zenon DEF BoardTypes
  <1>2. /\ board' \in Seq(Attempts) /\ Len(board') = Len(board)
        /\ \A j \in 1..Len(board) : board'[j] = IF j = a THEN row ELSE board[j]
    BY <1>1, ExceptSeq, Zenon
  <1>3. DOMAIN board' = DOMAIN board
    BY <1>1, Zenon
  <1> QED
    BY <1>1, <1>2, <1>3, Zenon DEF Writes

(* Opening an attempt leaves the earlier ones alone.                       *)
LEMMA OpenRow ==
    ASSUME BoardTypes, NEW row \in Attempts, board' = Append(board, row)
    PROVE  /\ board' \in Seq(Attempts) /\ Len(board') = Len(board) + 1
           /\ DOMAIN board' = 1..Len(board')
           /\ board'[Len(board')] = row
           /\ \A b \in DOMAIN board : board'[b] = board[b]
  <1>1. board \in Seq(Attempts) /\ DOMAIN board = 1..Len(board) /\ Len(board) \in Nat
    BY BoardFacts, Zenon DEF BoardTypes
  <1>2. /\ board' \in Seq(Attempts) /\ Len(board') = Len(board) + 1
        /\ \A j \in 1..Len(board) : board'[j] = board[j]
        /\ board'[Len(board) + 1] = row
    BY <1>1, AppendProperties
  <1>3. DOMAIN board' = 1..Len(board')
    BY <1>2, LenProperties, Zenon
  <1> QED
    BY <1>1, <1>2, <1>3, Zenon

(* A fresh attempt is a row of the ledger.                                 *)
LEMMA NewAttemptType ==
    ASSUME NEW k \in Sessions, NEW e \in Nat
    PROVE  NewAttempt(k, e) \in Attempts
  BY Zenon DEF NewAttempt, Attempts, None
-----------------------------------------------------------------------------
(* What a step may do to the ledger and to the Operator, with the request  *)
(* that does it taken away.                                                *)

Waits ==
    /\ UNCHANGED <<board, intent, deletion, submission>>
    /\ now' \in Nat /\ now' >= now

Opens(k, e) ==
    /\ board # <<>> => CanRotate(Latest(board), now)
    /\ Len(board) < MaxAttempts
    /\ board' = Append(board, NewAttempt(k, e))
    /\ UNCHANGED <<now, intent, deletion, submission>>

RegisterLeaves(a) ==
    /\ a = Len(board) /\ ~board[a].dispatched /\ board[a].result = None
    /\ Writes(a, [board[a] EXCEPT !.dispatched = TRUE])
    /\ intent' = [intent EXCEPT ![a] = "sent"]
    /\ UNCHANGED <<now, deletion, submission>>

RegisterAnswered(a) ==
    /\ board[a].dispatched /\ board[a].result = None
    /\ Writes(a, [board[a] EXCEPT !.result = RegisterAnswer(a)])
    /\ UNCHANGED <<now, intent, deletion, submission>>

DeleteLeaves(a) ==
    /\ a = Len(board) /\ ~board[a].deleting /\ PhaseOrder(board[a], "delete")
    /\ Writes(a, [board[a] EXCEPT !.deleting = TRUE])
    /\ deletion' = [deletion EXCEPT ![a] = "sent"]
    /\ UNCHANGED <<now, intent, submission>>

DeleteAnswered(a) ==
    /\ board[a].deleting /\ ~board[a].released /\ deletion[a] = "done"
    /\ Writes(a, [board[a] EXCEPT !.released = TRUE])
    /\ UNCHANGED <<now, intent, deletion, submission>>

FinalLeaves(a, c) ==
    /\ a = Len(board) /\ board[a].final = None /\ PhaseOrder(board[a], "finalize")
    /\ Writes(a, [board[a] EXCEPT !.final = c])
    /\ submission' = [submission EXCEPT ![c] = "sent"]
    /\ UNCHANGED <<now, intent, deletion>>

FinalAnswered(a) ==
    /\ board[a].final # None /\ ~board[a].submitted /\ ~board[a].conflict
    /\ Writes(a, [board[a] EXCEPT !.submitted = TRUE])
    /\ UNCHANGED <<now, intent, deletion, submission>>

ConflictStored(a) ==
    /\ a = Len(board) /\ board[a].final # None /\ ~board[a].submitted
    /\ Writes(a, [board[a] EXCEPT !.conflict = TRUE])
    /\ UNCHANGED <<now, intent, deletion, submission>>

IntentMoves(a) ==
    /\ \/ intent[a] = "sent" /\ \E p \in {"queued", "rejected"} : intent' = [intent EXCEPT ![a] = p]
       \/ intent[a] = "queued" /\ intent' = [intent EXCEPT ![a] = "batched"]
    /\ UNCHANGED <<board, now, deletion, submission>>

IntentDeleted(a) ==
    /\ intent[a] = "queued" /\ deletion[a] = "sent"
    /\ intent' = [intent EXCEPT ![a] = "deleted"]
    /\ deletion' = [deletion EXCEPT ![a] = "done"]
    /\ UNCHANGED <<board, now, submission>>

CommitmentTaken(c) ==
    /\ submission[c] = "sent"
    /\ submission' = [submission EXCEPT ![c] = "accepted"]
    /\ UNCHANGED <<board, now, intent, deletion>>

Moves ==
    \/ Waits
    \/ \E k \in Sessions, e \in Nat : Opens(k, e)
    \/ \E a \in DOMAIN board :
        \/ RegisterLeaves(a) \/ RegisterAnswered(a) \/ DeleteLeaves(a) \/ DeleteAnswered(a)
        \/ \E c \in Commitments : FinalLeaves(a, c)
        \/ FinalAnswered(a) \/ ConflictStored(a)
    \/ \E a \in Ids : IntentMoves(a) \/ IntentDeleted(a)
    \/ \E c \in Commitments : CommitmentTaken(c)

(* A request that is in flight is typed and in order.                      *)
LEMMA PendingFacts ==
    ASSUME BoardInv, NEW r \in Requests, req[r] # Idle
    PROVE  req[r] \in Pending /\ RequestOrder(req[r]) /\ req \in [Requests -> {Idle} \cup Pending]
  BY Zenon DEF BoardInv, BoardTypes

(* A row with one field written is a row.                                  *)
LEMMA RowTypes ==
    ASSUME NEW at \in Attempts
    PROVE  /\ [at EXCEPT !.dispatched = TRUE] \in Attempts
           /\ \A p \in {"submitted", "rejected"} : [at EXCEPT !.result = p] \in Attempts
           /\ [at EXCEPT !.deleting = TRUE] \in Attempts
           /\ [at EXCEPT !.released = TRUE] \in Attempts
           /\ \A c \in Commitments : [at EXCEPT !.final = c] \in Attempts
           /\ [at EXCEPT !.submitted = TRUE] \in Attempts
           /\ [at EXCEPT !.conflict = TRUE] \in Attempts
  BY Zenon DEF Attempts

(* AppendVaultBoardConflict settles the final authorization of the latest  *)
(* attempt.                                                                *)
LEMMA AppendConflictMoves ==
    ASSUME BoardInv, NEW r \in Requests, AppendConflict(r)
    PROVE  \E a \in DOMAIN board : ConflictStored(a)
  <1>1. req[r] \in Pending /\ RequestOrder(req[r]) /\ req[r].step = "append"
    BY PendingFacts, Zenon DEF AppendConflict, At
  <1>2. PICK a : a = Len(req[r].snap)
    BY Zenon
  <1>3. /\ ConflictCreates(board, a, req[r].snap[a].final, req[r].prior)
        /\ board' = [board EXCEPT ![a].conflict = TRUE]
    BY <1>2, Zenon DEF AppendConflict
  <1>4. req[r].snap \in Seq(Attempts) /\ req[r].snap # <<>> /\ req[r].snap[a].final # None
    BY <1>1, <1>2, Zenon DEF Pending, RequestOrder, Latest
  <1>5. a \in Nat \ {0}
    BY <1>2, <1>4
  <1>6. a = Len(board) /\ a \in DOMAIN board /\ board[a].final # None /\ ~board[a].submitted
    BY <1>3, <1>4, <1>5, BoardFacts DEF ConflictCreates, BoardInv
  <1>7. board' = [board EXCEPT ![a] = [board[a] EXCEPT !.conflict = TRUE]]
    BY <1>3, Zenon
  <1>8. Writes(a, [board[a] EXCEPT !.conflict = TRUE])
    BY <1>6, <1>7, BoardFacts, RowTypes, WriteRow, Zenon DEF BoardInv
  <1> QED
    BY <1>6, <1>8, Zenon DEF AppendConflict, ConflictStored, worldVars, operatorVars

(* BeginVaultBoardAttempt finds the open attempt or opens the next one.    *)
LEMMA BeginMoves ==
    ASSUME BoardInv, NEW r \in Requests, Begin(r)
    PROVE  Waits \/ \E k \in Sessions, e \in Nat : Opens(k, e)
  <1>1. req[r] \in Pending /\ RequestOrder(req[r]) /\ req[r].step = "begin"
    BY PendingFacts, Zenon DEF Begin, At
  <1>2. req[r].session \in Sessions /\ req[r].expireAt \in Nat /\ now \in Nat
    BY <1>1, Zenon DEF Pending, RequestOrder, BoardInv, BoardTypes
  <1>3. UNCHANGED <<now, intent, deletion, submission>>
    BY Zenon DEF Begin, worldVars, operatorVars
  <1>4. CASE UNCHANGED board
    BY <1>2, <1>3, <1>4 DEF Waits
  <1>5. CASE /\ BeginCreates(board, req[r].session, req[r].expireAt, now, req[r].prior)
             /\ Len(board) < MaxAttempts
             /\ board' = Append(board, NewAttempt(req[r].session, req[r].expireAt))
    <2>1. Opens(req[r].session, req[r].expireAt)
      BY <1>3, <1>5, Zenon DEF Opens, BeginCreates
    <2> QED
      BY <1>2, <2>1, Zenon
  <1> QED
    BY <1>4, <1>5, Zenon DEF Begin

(* AppendVaultBoardDispatch sends the intent of the latest attempt.        *)
LEMMA DispatchRegisterMoves ==
    ASSUME BoardInv, NEW r \in Requests, DispatchRegister(r)
    PROVE  RegisterLeaves(req[r].id) /\ req[r].id \in DOMAIN board
  <1>1. req[r] \in Pending
    BY PendingFacts, Zenon DEF DispatchRegister, At
  <1>2. PICK a \in Ids : a = req[r].id
    BY <1>1, Zenon DEF Pending
  <1>3. a = Len(board) /\ a \in DOMAIN board /\ ~board[a].dispatched /\ board[a].result = None
    BY <1>2, BoardFacts DEF DispatchRegister, DispatchCreates, BoardInv, Ids
  <1>4. board' = [board EXCEPT ![a] = [board[a] EXCEPT !.dispatched = TRUE]]
    BY <1>2, Zenon DEF DispatchRegister
  <1>5. Writes(a, [board[a] EXCEPT !.dispatched = TRUE])
    BY <1>3, <1>4, BoardFacts, RowTypes, WriteRow, Zenon DEF BoardInv
  <1> QED
    BY <1>2, <1>3, <1>5, Zenon DEF DispatchRegister, RegisterLeaves, worldVars

(* The answer to registerIntent is recorded for the attempt that asked.    *)
LEMMA RecordRegisterMoves ==
    ASSUME BoardInv, NEW r \in Requests, RecordRegister(r)
    PROVE  \E a \in DOMAIN board : RegisterAnswered(a)
  <1>1. req[r] \in Pending /\ RequestOrder(req[r]) /\ req[r].step = "await"
    BY PendingFacts, Zenon DEF RecordRegister, At
  <1>2. PICK a \in DOMAIN board : a = req[r].id
    BY <1>1, Zenon DEF RequestOrder
  <1>3. board[a].dispatched /\ board[a].result = None
    BY <1>2, Zenon DEF RecordRegister, SubmissionCreates
  <1>4. board' = [board EXCEPT ![a] = [board[a] EXCEPT !.result = RegisterAnswer(a)]]
    BY <1>2, Zenon DEF RecordRegister
  <1>5. RegisterAnswer(a) \in {"submitted", "rejected"}
    BY Zenon DEF RegisterAnswer
  <1>6. Writes(a, [board[a] EXCEPT !.result = RegisterAnswer(a)])
    BY <1>4, <1>5, BoardFacts, RowTypes, WriteRow, Zenon DEF BoardInv
  <1> QED
    BY <1>3, <1>6, Zenon DEF RecordRegister, RegisterAnswered, worldVars, operatorVars

(* AppendVaultBoardAuthorizationAndDispatch sends the deletion of the      *)
(* latest attempt.                                                         *)
LEMMA DispatchDeleteMoves ==
    ASSUME BoardInv, NEW r \in Requests, DispatchDelete(r)
    PROVE  DeleteLeaves(req[r].id) /\ req[r].id \in DOMAIN board
  <1>1. req[r] \in Pending
    BY PendingFacts, Zenon DEF DispatchDelete, At
  <1>2. PICK a \in Ids : a = req[r].id
    BY <1>1 DEF Pending
  <1>3. a = Len(board) /\ a \in DOMAIN board /\ ~board[a].deleting /\ PhaseOrder(board[a], "delete")
    BY <1>2, BoardFacts DEF DispatchDelete, AuthorizeCreates, BoardInv, Ids
  <1>4. board' = [board EXCEPT ![a] = [board[a] EXCEPT !.deleting = TRUE]]
    BY <1>2, Zenon DEF DispatchDelete
  <1>5. Writes(a, [board[a] EXCEPT !.deleting = TRUE])
    BY <1>3, <1>4, BoardFacts, RowTypes, WriteRow, Zenon DEF BoardInv
  <1> QED
    BY <1>2, <1>3, <1>5, Zenon DEF DispatchDelete, DeleteLeaves, worldVars

(* An acknowledged deletion is recorded for the attempt that asked.        *)
LEMMA RecordDeleteMoves ==
    ASSUME BoardInv, NEW r \in Requests, RecordDelete(r)
    PROVE  \E a \in DOMAIN board : DeleteAnswered(a)
  <1>1. req[r] \in Pending /\ RequestOrder(req[r]) /\ req[r].step = "await"
    BY PendingFacts, Zenon DEF RecordDelete, At
  <1>2. PICK a \in DOMAIN board : a = req[r].id
    BY <1>1 DEF RequestOrder
  <1>3. board[a].deleting /\ ~board[a].released /\ deletion[a] = "done"
    BY <1>2, Zenon DEF RecordDelete, SubmissionCreates
  <1>4. board' = [board EXCEPT ![a] = [board[a] EXCEPT !.released = TRUE]]
    BY <1>2, Zenon DEF RecordDelete
  <1>5. Writes(a, [board[a] EXCEPT !.released = TRUE])
    BY <1>4, BoardFacts, RowTypes, WriteRow, Zenon DEF BoardInv
  <1> QED
    BY <1>3, <1>5, Zenon DEF RecordDelete, DeleteAnswered, worldVars, operatorVars

(* AppendVaultBoardAuthorizationAndDispatch sends the commitment of the    *)
(* latest attempt.                                                         *)
LEMMA DispatchFinalMoves ==
    ASSUME BoardInv, NEW r \in Requests, DispatchFinal(r)
    PROVE  /\ FinalLeaves(req[r].id, req[r].tx)
           /\ req[r].id \in DOMAIN board /\ req[r].tx \in Commitments
  <1>1. req[r] \in Pending /\ RequestOrder(req[r]) /\ req[r].phase = "finalize"
    BY PendingFacts, Zenon DEF DispatchFinal, At
  <1>2. PICK a \in Ids : a = req[r].id
    BY <1>1, Zenon DEF Pending
  <1>3. PICK c \in Commitments : c = req[r].tx
    BY <1>1, Zenon DEF RequestOrder
  <1>4. a = Len(board) /\ a \in DOMAIN board /\ board[a].final = None /\ PhaseOrder(board[a], "finalize")
    BY <1>2, BoardFacts DEF DispatchFinal, AuthorizeCreates, BoardInv, Ids
  <1>5. board' = [board EXCEPT ![a] = [board[a] EXCEPT !.final = c]]
    BY <1>2, <1>3, Zenon DEF DispatchFinal
  <1>6. Writes(a, [board[a] EXCEPT !.final = c])
    BY <1>4, <1>5, BoardFacts, RowTypes, WriteRow, Zenon DEF BoardInv
  <1> QED
    BY <1>2, <1>3, <1>4, <1>6, Zenon DEF DispatchFinal, FinalLeaves, worldVars

(* An acknowledged commitment is recorded for the attempt that sent it.    *)
LEMMA RecordFinalMoves ==
    ASSUME BoardInv, NEW r \in Requests, RecordFinal(r)
    PROVE  \E a \in DOMAIN board : FinalAnswered(a)
  <1>1. req[r] \in Pending /\ RequestOrder(req[r]) /\ req[r].step = "await"
    BY PendingFacts, Zenon DEF RecordFinal, At
  <1>2. PICK a \in DOMAIN board : a = req[r].id
    BY <1>1 DEF RequestOrder
  <1>3. board[a].final # None /\ ~board[a].submitted /\ ~board[a].conflict
    BY <1>2, Zenon DEF RecordFinal, SubmissionCreates
  <1>4. board' = [board EXCEPT ![a] = [board[a] EXCEPT !.submitted = TRUE]]
    BY <1>2, Zenon DEF RecordFinal
  <1>5. Writes(a, [board[a] EXCEPT !.submitted = TRUE])
    BY <1>4, BoardFacts, RowTypes, WriteRow, Zenon DEF BoardInv
  <1> QED
    BY <1>3, <1>5, Zenon DEF RecordFinal, FinalAnswered, worldVars, operatorVars

(* A client's request starts without touching the ledger or the Operator.  *)
LEMMA RoutesMoves ==
    ASSUME BoardInv, NEW r \in Requests, Routes(r)
    PROVE  Waits /\ UNCHANGED <<handle, releasable, chainVars>>
  BY DEF BoardInv, BoardTypes, Routes, Prepare, Register, Release, Final, Start, Waits,
         ledgerVars, worldVars, operatorVars

(* Every step is one of the moves.                                         *)
LEMMA NextMoves ==
    ASSUME BoardInv, [Next]_vars
    PROVE  Moves
  <1>0. now \in Nat
    BY Zenon DEF BoardInv, BoardTypes
  <1>1. ASSUME NEW r \in Requests, Routes(r) PROVE Moves
    BY <1>1, RoutesMoves, Zenon DEF Moves
  <1>2. ASSUME NEW r \in Requests,
               CheckConflict(r) \/ Reload(r) \/ Classify(r) \/ Recheck(r) \/ Fail(r)
        PROVE  Moves
    <2>1. Waits
      BY <1>0, <1>2 DEF CheckConflict, Reload, Classify, Recheck, Fail, Waits, ledgerVars,
                        worldVars, operatorVars
    <2> QED
      BY <2>1, Zenon DEF Moves
  <1>3. ASSUME NEW r \in Requests, AppendConflict(r) PROVE Moves
    BY <1>3, AppendConflictMoves, Zenon DEF Moves
  <1>4. ASSUME NEW r \in Requests, Begin(r) PROVE Moves
    BY <1>4, BeginMoves, Zenon DEF Moves
  <1>5. ASSUME NEW r \in Requests, DispatchRegister(r) \/ RecordRegister(r) PROVE Moves
    BY <1>5, DispatchRegisterMoves, RecordRegisterMoves, Zenon DEF Moves
  <1>6. ASSUME NEW r \in Requests, DispatchDelete(r) \/ RecordDelete(r) PROVE Moves
    BY <1>6, DispatchDeleteMoves, RecordDeleteMoves, Zenon DEF Moves
  <1>7. ASSUME NEW r \in Requests, DispatchFinal(r) \/ RecordFinal(r) PROVE Moves
    BY <1>7, DispatchFinalMoves, RecordFinalMoves, Zenon DEF Moves
  <1>8. ASSUME NEW a \in Ids, OperatorRegister(a) \/ \E c \in Commitments : OperatorBatch(a, c)
        PROVE  Moves
    <2>1. IntentMoves(a)
      BY <1>8, Zenon DEF OperatorRegister, OperatorBatch, IntentMoves, ledgerVars, worldVars
    <2> QED
      BY <2>1, Zenon DEF Moves
  <1>9. ASSUME NEW a \in Ids, OperatorDelete(a) PROVE Moves
    <2>1. IntentDeleted(a)
      BY <1>9, Zenon DEF OperatorDelete, IntentDeleted, ledgerVars, worldVars
    <2> QED
      BY <2>1, Zenon DEF Moves
  <1>10. ASSUME NEW c \in Commitments, OperatorSubmit(c) PROVE Moves
    <2>1. CommitmentTaken(c)
      BY <1>10, Zenon DEF OperatorSubmit, CommitmentTaken, ledgerVars, worldVars
    <2> QED
      BY <2>1, Zenon DEF Moves
  <1>11. ASSUME NEW c \in Commitments, ConflictConfirms(c) \/ Reorg(c) PROVE Moves
    <2>1. Waits
      BY <1>0, <1>11 DEF ConflictConfirms, Reorg, Waits, ledgerVars, operatorVars
    <2> QED
      BY <2>1, Zenon DEF Moves
  <1>12. CASE Tick \/ UNCHANGED vars
    <2>1. Waits
      BY <1>0, <1>12 DEF Tick, Waits, vars, operatorVars
    <2> QED
      BY <2>1, Zenon DEF Moves
  <1> QED
    BY <1>1, <1>2, <1>3, <1>4, <1>5, <1>6, <1>7, <1>8, <1>9, <1>10, <1>11, <1>12, Zenon DEF Next
-----------------------------------------------------------------------------
(* The parts of the invariant, one after the other.                        *)

(* The ledger keeps its types through every move.                          *)
LEMMA BoardStep ==
    ASSUME BoardInv, Moves
    PROVE  board' \in Seq(Attempts) /\ Len(board') <= MaxAttempts
  <1>1. board \in Seq(Attempts) /\ Len(board) <= MaxAttempts /\ Len(board) \in Nat /\ MaxAttempts \in Nat
    BY BoardFacts, Zenon DEF BoardInv, BoardTypes
  <1>2. CASE UNCHANGED board
    BY <1>1, <1>2, Zenon
  <1>3. ASSUME NEW k \in Sessions, NEW e \in Nat, Opens(k, e)
        PROVE  board' \in Seq(Attempts) /\ Len(board') <= MaxAttempts
    BY <1>1, <1>3, NewAttemptType, OpenRow DEF Opens, BoardInv
  <1>4. ASSUME NEW a \in DOMAIN board, NEW row, Writes(a, row)
        PROVE  board' \in Seq(Attempts) /\ Len(board') <= MaxAttempts
    BY <1>1, <1>4, Zenon DEF Writes
  <1> QED
    BY <1>2, <1>3, <1>4, Zenon
    DEF Moves, Waits, RegisterLeaves, RegisterAnswered, DeleteLeaves, DeleteAnswered, FinalLeaves,
        FinalAnswered, ConflictStored, IntentMoves, IntentDeleted, CommitmentTaken

(* Rows are only ever added: attempts, conflicts and final authorizations  *)
(* stay.                                                                   *)
LEMMA BoardGrows ==
    ASSUME BoardInv, Moves
    PROVE  /\ DOMAIN board \subseteq DOMAIN board'
           /\ \A a \in DOMAIN board :
                /\ board[a].conflict => board'[a].conflict
                /\ board[a].final # None => board'[a].final = board[a].final
  <1> DEFINE Grows == /\ DOMAIN board \subseteq DOMAIN board'
                      /\ \A a \in DOMAIN board :
                           /\ board[a].conflict => board'[a].conflict
                           /\ board[a].final # None => board'[a].final = board[a].final
  <1>0. /\ BoardTypes /\ \A a \in DOMAIN board : board[a] \in Attempts
        /\ DOMAIN board = 1..Len(board) /\ Len(board) \in Nat
    BY BoardFacts, Zenon DEF BoardInv
  <1>1. CASE UNCHANGED board
    BY <1>1, Zenon
  <1>2. ASSUME NEW k \in Sessions, NEW e \in Nat, Opens(k, e) PROVE Grows
    BY <1>0, <1>2, NewAttemptType, OpenRow DEF Opens
  <1>3. ASSUME NEW a \in DOMAIN board,
               NEW row \in Attempts, Writes(a, row),
               board[a].conflict => row.conflict,
               board[a].final # None => row.final = board[a].final
        PROVE  Grows
    BY <1>3, Zenon DEF Writes
  <1>4. ASSUME NEW a \in DOMAIN board,
               RegisterLeaves(a) \/ RegisterAnswered(a) \/ DeleteLeaves(a) \/ DeleteAnswered(a)
               \/ FinalAnswered(a) \/ ConflictStored(a) \/ \E c \in Commitments : FinalLeaves(a, c)
        PROVE  Grows
    <2>1. board[a] \in Attempts
      BY <1>0, Zenon
    <2>2. PICK row \in Attempts : /\ Writes(a, row)
                                  /\ board[a].conflict => row.conflict
                                  /\ board[a].final # None => row.final = board[a].final
      BY <1>4, <2>1, Zenon
         DEF Writes, Attempts, RegisterLeaves, RegisterAnswered, DeleteLeaves, DeleteAnswered,
                        FinalLeaves, FinalAnswered, ConflictStored
    <2> QED
      BY <1>3, <2>2, Zenon
  <1> QED
    BY <1>1, <1>2, <1>4, Zenon DEF Moves, Waits, IntentMoves, IntentDeleted, CommitmentTaken

(* A superseded attempt still may rotate later.                            *)
LEMMA RotateStable ==
    ASSUME BoardTypes, NEW at \in Attempts, NEW t \in Nat, t >= now, CanRotate(at, now)
    PROVE  CanRotate(at, t)
  BY BoardAssumption DEF BoardTypes, CanRotate, CanSupersede, Attempts

(* An attempt whose register, delete or final result is still open, or     *)
(* that no conflict settles, is the latest one: no late answer finds a     *)
(* superseded attempt to write to.                                         *)
LEMMA OpenIsLatest ==
    ASSUME BoardInv, NEW a \in DOMAIN board,
           \/ board[a].dispatched /\ board[a].result = None
           \/ board[a].deleting /\ ~board[a].released
           \/ board[a].final # None /\ ~board[a].conflict
    PROVE  a = Len(board)
  <1>1. a \in 1..Len(board) /\ Len(board) \in Nat /\ board[a] \in Attempts
    BY BoardFacts, Zenon DEF BoardInv
  <1>2. RowOrder(board[a]) /\ (a < Len(board) => CanRotate(board[a], now))
    BY Zenon DEF BoardInv, AttemptOrder
  <1> QED
    BY <1>1, <1>2 DEF RowOrder, CanRotate, Attempts, None

(* Writing the row of the latest attempt keeps the order of the attempts   *)
(* when the row itself is in order.                                        *)
LEMMA LatestWritten ==
    ASSUME BoardInv, NEW a, NEW row, Writes(a, row), a = Len(board), RowOrder(row), now' = now
    PROVE  AttemptOrder'
  BY DEF BoardInv, AttemptOrder, Writes

(* The rows of each attempt come in order, and superseded attempts stay.   *)
LEMMA AttemptStep ==
    ASSUME BoardInv, Moves
    PROVE  AttemptOrder'
  <1>0. /\ BoardTypes /\ \A a \in DOMAIN board : board[a] \in Attempts /\ RowOrder(board[a])
        /\ DOMAIN board = 1..Len(board) /\ Len(board) \in Nat /\ now \in Nat
    BY BoardFacts, Zenon DEF BoardInv, AttemptOrder, BoardTypes
  <1>1. ASSUME UNCHANGED board, now' \in Nat, now' >= now PROVE AttemptOrder'
    BY <1>0, <1>1, RotateStable, Zenon DEF BoardInv, AttemptOrder
  <1>2. ASSUME NEW k \in Sessions, NEW e \in Nat, Opens(k, e) PROVE AttemptOrder'
    <2>1. /\ Len(board') = Len(board) + 1 /\ DOMAIN board' = 1..Len(board')
          /\ board'[Len(board')] = NewAttempt(k, e) /\ \A b \in DOMAIN board : board'[b] = board[b]
      BY <1>0, <1>2, NewAttemptType, OpenRow, Zenon DEF Opens
    <2>2. RowOrder(NewAttempt(k, e))
      BY Zenon DEF RowOrder, NewAttempt, None
    <2>3. now' = now /\ (board # <<>> => CanRotate(Latest(board), now))
      BY <1>2, Zenon DEF Opens
    <2>4. ASSUME NEW b \in DOMAIN board
          PROVE  RowOrder(board'[b]) /\ CanRotate(board'[b], now')
      <3>1. board # <<>>
        BY <1>0, <2>4
      <3>2. CASE b = Len(board)
        BY <1>0, <2>1, <2>3, <3>1, <3>2, Zenon DEF Latest
      <3>3. CASE b # Len(board)
        BY <1>0, <2>1, <2>3, <3>3 DEF BoardInv, AttemptOrder
      <3> QED
        BY <3>2, <3>3, Zenon
    <2> QED
      BY <1>0, <2>1, <2>2, <2>4 DEF AttemptOrder
  <1>3. ASSUME NEW a \in DOMAIN board, RegisterLeaves(a) PROVE AttemptOrder'
    <2>1. RowOrder([board[a] EXCEPT !.dispatched = TRUE])
      BY <1>0, Zenon DEF RowOrder, Attempts
    <2> QED
      BY <1>3, <2>1, LatestWritten, Zenon DEF RegisterLeaves
  <1>4. ASSUME NEW a \in DOMAIN board, RegisterAnswered(a) PROVE AttemptOrder'
    <2>1. RowOrder([board[a] EXCEPT !.result = RegisterAnswer(a)]) /\ a = Len(board)
      BY <1>0, <1>4, OpenIsLatest, Zenon DEF RegisterAnswered, RowOrder, Attempts, None
    <2> QED
      BY <1>4, <2>1, LatestWritten, Zenon DEF RegisterAnswered
  <1>5. ASSUME NEW a \in DOMAIN board, DeleteLeaves(a) PROVE AttemptOrder'
    <2>1. RowOrder([board[a] EXCEPT !.deleting = TRUE])
      BY <1>0, <1>5, Zenon DEF DeleteLeaves, PhaseOrder, RowOrder, Attempts
    <2> QED
      BY <1>5, <2>1, LatestWritten, Zenon DEF DeleteLeaves
  <1>6. ASSUME NEW a \in DOMAIN board, DeleteAnswered(a) PROVE AttemptOrder'
    <2>1. RowOrder([board[a] EXCEPT !.released = TRUE]) /\ a = Len(board)
      BY <1>0, <1>6, OpenIsLatest, Zenon DEF DeleteAnswered, RowOrder, Attempts
    <2> QED
      BY <1>6, <2>1, LatestWritten, Zenon DEF DeleteAnswered
  <1>7. ASSUME NEW a \in DOMAIN board, NEW c \in Commitments, FinalLeaves(a, c) PROVE AttemptOrder'
    <2>1. RowOrder([board[a] EXCEPT !.final = c])
      BY <1>0, <1>7, BoardAssumption, Zenon DEF FinalLeaves, PhaseOrder, RowOrder, Attempts
    <2> QED
      BY <1>7, <2>1, LatestWritten, Zenon DEF FinalLeaves
  <1>8. ASSUME NEW a \in DOMAIN board, FinalAnswered(a) PROVE AttemptOrder'
    <2>1. RowOrder([board[a] EXCEPT !.submitted = TRUE]) /\ a = Len(board)
      BY <1>0, <1>8, OpenIsLatest, Zenon DEF FinalAnswered, RowOrder, Attempts
    <2> QED
      BY <1>8, <2>1, LatestWritten, Zenon DEF FinalAnswered
  <1>9. ASSUME NEW a \in DOMAIN board, ConflictStored(a) PROVE AttemptOrder'
    <2>1. RowOrder([board[a] EXCEPT !.conflict = TRUE])
      BY <1>0, <1>9, Zenon DEF ConflictStored, RowOrder, Attempts
    <2> QED
      BY <1>9, <2>1, LatestWritten, Zenon DEF ConflictStored
  <1> QED
    BY <1>0, <1>1, <1>2, <1>3, <1>4, <1>5, <1>6, <1>7, <1>8, <1>9
    DEF Moves, Waits, IntentMoves, IntentDeleted, CommitmentTaken

(* What the Operator holds keeps its types.                                *)
LEMMA OperatorTypes ==
    ASSUME BoardInv, Moves
    PROVE  /\ intent' \in [Ids -> {None, "sent", "queued", "rejected", "deleted", "batched"}]
           /\ deletion' \in [Ids -> {None, "sent", "done"}]
           /\ submission' \in [Commitments -> {None, "sent", "accepted"}]
           /\ now' \in Nat
  <1>1. /\ intent \in [Ids -> {None, "sent", "queued", "rejected", "deleted", "batched"}]
        /\ deletion \in [Ids -> {None, "sent", "done"}]
        /\ submission \in [Commitments -> {None, "sent", "accepted"}]
        /\ now \in Nat /\ DOMAIN board \subseteq Ids
    BY BoardFacts, Zenon DEF BoardInv, BoardTypes
  <1> QED
    BY <1>1 DEF Moves, Waits, Opens, RegisterLeaves, RegisterAnswered, DeleteLeaves, DeleteAnswered,
                FinalLeaves, FinalAnswered, ConflictStored, IntentMoves, IntentDeleted, CommitmentTaken

(* What one attempt's rows and its requests at the Operator have to do     *)
(* with each other.                                                        *)
Matches(at, i, d) ==
    /\ ~at.dispatched => i = None
    /\ at.result = "rejected" => i = "rejected"
    /\ ~at.deleting => d = None
    /\ at.released => d = "done"
    /\ d = "done" => i = "deleted"

(* The invariant of the Operator, attempt by attempt.                      *)
LEMMA OperatorFacts ==
    ASSUME BoardInv
    PROVE  /\ \A a \in Ids \ DOMAIN board : intent[a] = None /\ deletion[a] = None
           /\ \A a \in DOMAIN board : Matches(board[a], intent[a], deletion[a])
           /\ \A c \in Commitments : submission[c] # None => \E a \in DOMAIN board : board[a].final = c
  BY Zenon DEF BoardInv, OperatorOrder, Matches

(* Writing one row and one attempt's requests keeps the other attempts     *)
(* matched.                                                                *)
LEMMA MatchedWritten ==
    ASSUME BoardInv, NEW a, NEW row, Writes(a, row),
           Matches(row, intent'[a], deletion'[a]),
           \A b \in Ids \ {a} : intent'[b] = intent[b] /\ deletion'[b] = deletion[b]
    PROVE  /\ \A b \in Ids \ DOMAIN board' : intent'[b] = None /\ deletion'[b] = None
           /\ \A b \in DOMAIN board' : Matches(board'[b], intent'[b], deletion'[b])
  <1>1. a \in DOMAIN board /\ DOMAIN board \subseteq Ids
    BY BoardFacts, Zenon DEF Writes, BoardInv
  <1> QED
    BY <1>1, OperatorFacts, Zenon DEF Writes

(* The Operator has only what was dispatched, and the ledger's answers are *)
(* the Operator's.                                                         *)
LEMMA MatchStep ==
    ASSUME BoardInv, Moves
    PROVE  /\ \A b \in Ids \ DOMAIN board' : intent'[b] = None /\ deletion'[b] = None
           /\ \A b \in DOMAIN board' : Matches(board'[b], intent'[b], deletion'[b])
  <1> DEFINE Matched == /\ \A b \in Ids \ DOMAIN board' : intent'[b] = None /\ deletion'[b] = None
                        /\ \A b \in DOMAIN board' : Matches(board'[b], intent'[b], deletion'[b])
  <1>0. /\ BoardTypes /\ DOMAIN board \subseteq Ids
        /\ \A a \in DOMAIN board : board[a] \in Attempts /\ RowOrder(board[a])
        /\ DOMAIN board = 1..Len(board) /\ Len(board) \in Nat
        /\ \A a \in DOMAIN board : Matches(board[a], intent[a], deletion[a])
    BY BoardFacts, OperatorFacts, Zenon DEF BoardInv, AttemptOrder
  <1>t. /\ intent \in [Ids -> {None, "sent", "queued", "rejected", "deleted", "batched"}]
        /\ deletion \in [Ids -> {None, "sent", "done"}]
    BY Zenon DEF BoardInv, BoardTypes
  <1>1. CASE UNCHANGED <<board, intent, deletion>>
    BY <1>1, OperatorFacts, Zenon
  <1>2. ASSUME NEW k \in Sessions, NEW e \in Nat, Opens(k, e) PROVE Matched
    <2>1. /\ Len(board') = Len(board) + 1 /\ DOMAIN board' = 1..Len(board')
          /\ board'[Len(board')] = NewAttempt(k, e) /\ \A b \in DOMAIN board : board'[b] = board[b]
      BY <1>0, <1>2, NewAttemptType, OpenRow, Zenon DEF Opens
    <2>2. UNCHANGED <<intent, deletion>> /\ Len(board') \in Ids \ DOMAIN board
      BY <1>0, <1>2, <2>1, HandlerAssumption DEF Opens, Ids
    <2>3. intent[Len(board')] = None /\ deletion[Len(board')] = None
      BY <2>2, OperatorFacts, Zenon
    <2>4. Matches(NewAttempt(k, e), None, None)
      BY Zenon DEF Matches, NewAttempt, None
    <2> QED
      BY <1>0, <2>1, <2>2, <2>3, <2>4, OperatorFacts
  <1>3. ASSUME NEW a \in DOMAIN board, RegisterLeaves(a) PROVE Matched
    <2>1. Matches([board[a] EXCEPT !.dispatched = TRUE], intent'[a], deletion'[a])
      BY <1>0, <1>t, <1>3 DEF RegisterLeaves, Matches, Attempts, RowOrder, None
    <2> QED
      BY <1>0, <1>t, <1>3, <2>1, MatchedWritten, Zenon DEF RegisterLeaves
  <1>4. ASSUME NEW a \in DOMAIN board, RegisterAnswered(a) PROVE Matched
    <2>1. Matches([board[a] EXCEPT !.result = RegisterAnswer(a)], intent'[a], deletion'[a])
      BY <1>0, <1>t, <1>4 DEF RegisterAnswered, RegisterAnswer, Matches, Attempts
    <2> QED
      BY <1>4, <2>1, MatchedWritten, Zenon DEF RegisterAnswered
  <1>5. ASSUME NEW a \in DOMAIN board, DeleteLeaves(a) PROVE Matched
    <2>1. Matches([board[a] EXCEPT !.deleting = TRUE], intent'[a], deletion'[a])
      BY <1>0, <1>t, <1>5 DEF DeleteLeaves, Matches, Attempts, RowOrder, None
    <2> QED
      BY <1>0, <1>t, <1>5, <2>1, MatchedWritten, Zenon DEF DeleteLeaves
  <1>6. ASSUME NEW a \in DOMAIN board, DeleteAnswered(a) PROVE Matched
    <2>1. Matches([board[a] EXCEPT !.released = TRUE], intent'[a], deletion'[a])
      BY <1>0, <1>t, <1>6 DEF DeleteAnswered, Matches, Attempts
    <2> QED
      BY <1>6, <2>1, MatchedWritten, Zenon DEF DeleteAnswered
  <1>7. ASSUME NEW a \in DOMAIN board, NEW c \in Commitments, FinalLeaves(a, c) PROVE Matched
    <2>1. Matches([board[a] EXCEPT !.final = c], intent'[a], deletion'[a])
      BY <1>0, <1>t, <1>7 DEF FinalLeaves, Matches, Attempts
    <2> QED
      BY <1>7, <2>1, MatchedWritten, Zenon DEF FinalLeaves
  <1>8. ASSUME NEW a \in DOMAIN board, FinalAnswered(a) PROVE Matched
    <2>1. Matches([board[a] EXCEPT !.submitted = TRUE], intent'[a], deletion'[a])
      BY <1>0, <1>t, <1>8 DEF FinalAnswered, Matches, Attempts
    <2> QED
      BY <1>8, <2>1, MatchedWritten, Zenon DEF FinalAnswered
  <1>9. ASSUME NEW a \in DOMAIN board, ConflictStored(a) PROVE Matched
    <2>1. Matches([board[a] EXCEPT !.conflict = TRUE], intent'[a], deletion'[a])
      BY <1>0, <1>t, <1>9 DEF ConflictStored, Matches, Attempts
    <2> QED
      BY <1>9, <2>1, MatchedWritten, Zenon DEF ConflictStored
  <1>10. ASSUME NEW a \in Ids, IntentMoves(a) \/ IntentDeleted(a) PROVE Matched
    <2>1. a \in DOMAIN board /\ UNCHANGED board
      BY <1>10, OperatorFacts, Zenon DEF IntentMoves, IntentDeleted, None
    <2>2. Matches(board[a], intent'[a], deletion'[a])
      BY <1>0, <1>t, <1>10, <2>1, Zenon DEF IntentMoves, IntentDeleted, Matches, None
    <2>3. \A b \in Ids \ {a} : intent'[b] = intent[b] /\ deletion'[b] = deletion[b]
      BY <1>t, <1>10, Zenon DEF IntentMoves, IntentDeleted
    <2> QED
      BY <1>0, <2>1, <2>2, <2>3, OperatorFacts, Zenon
  <1> QED
    BY <1>1, <1>2, <1>3, <1>4, <1>5, <1>6, <1>7, <1>8, <1>9, <1>10, Zenon
    DEF Moves, Waits, CommitmentTaken

(* Every signed commitment that left has its final authorization.          *)
LEMMA SubmissionStep ==
    ASSUME BoardInv, Moves
    PROVE  \A c \in Commitments : submission'[c] # None => \E a \in DOMAIN board' : board'[a].final = c
  <1>0. submission \in [Commitments -> {None, "sent", "accepted"}]
    BY Zenon DEF BoardInv, BoardTypes
  <1> SUFFICES ASSUME NEW c \in Commitments, submission'[c] # None
               PROVE  \E a \in DOMAIN board' : board'[a].final = c
    BY Zenon
  <1>1. CASE submission[c] # None
    <2>1. PICK a \in DOMAIN board : board[a].final = c
      BY <1>1, OperatorFacts, Zenon
    <2> QED
      BY <2>1, BoardGrows, BoardAssumption, Zenon
  <1>2. CASE submission[c] = None
    <2>1. PICK a \in DOMAIN board : FinalLeaves(a, c)
      BY <1>0, <1>2, Zenon DEF Moves, Waits, Opens, RegisterLeaves, RegisterAnswered, DeleteLeaves,
                        DeleteAnswered, FinalLeaves, FinalAnswered, ConflictStored, IntentMoves,
                        IntentDeleted, CommitmentTaken, None
    <2>2. board[a] \in Attempts
      BY BoardFacts, Zenon DEF BoardInv
    <2> QED
      BY <2>1, <2>2, Zenon DEF FinalLeaves, Writes, Attempts
  <1> QED
    BY <1>1, <1>2, Zenon

(* The two together.                                                       *)
LEMMA OperatorStep ==
    ASSUME BoardInv, Moves
    PROVE  OperatorOrder'
  BY MatchStep, SubmissionStep, Zenon DEF OperatorOrder, Matches

(* What a request knows it keeps knowing, unless a reorganization takes    *)
(* its view of the chain away.                                             *)
LEMMA OrderKept ==
    ASSUME BoardInv, Moves, NEW q \in Pending, RequestOrder(q),
           q.fresh => conflicted \subseteq conflicted'
    PROVE  RequestOrder(q)'
  <1>1. /\ DOMAIN board \subseteq DOMAIN board'
        /\ \A a \in DOMAIN board : /\ board[a].conflict => board'[a].conflict
                                   /\ board[a].final # None => board'[a].final = board[a].final
    BY BoardGrows, Zenon
  <1>2. Conflicts(board) \subseteq Conflicts(board)'
    BY <1>1, Zenon DEF Conflicts
  <1>3. \A a \in Conflicts(board) : board'[a].final = board[a].final
    BY <1>1, Zenon DEF Conflicts, BoardInv, AttemptOrder, RowOrder
  <1> QED
    BY <1>1, <1>2, <1>3, Zenon DEF RequestOrder

RequestsInOrder ==
    /\ req \in [Requests -> {Idle} \cup Pending]
    /\ \A r \in Requests : req[r] # Idle => RequestOrder(req[r])

(* A request that moves leaves the others in order.                        *)
LEMMA RequestMoves ==
    ASSUME BoardInv, Moves, conflicted \subseteq conflicted',
           NEW r \in Requests, NEW p \in {Idle} \cup Pending,
           p # Idle => RequestOrder(p)', req' = [req EXCEPT ![r] = p]
    PROVE  RequestsInOrder'
  <1>1. req \in [Requests -> {Idle} \cup Pending]
    BY Zenon DEF BoardInv, BoardTypes
  <1>2. req' \in [Requests -> {Idle} \cup Pending]
    BY <1>1, Zenon
  <1>3. ASSUME NEW s \in Requests, req'[s] # Idle PROVE RequestOrder(req[s])'
    <2>1. CASE s = r
      <3>1. req'[s] = p
        BY <1>1, <2>1, Zenon
      <3> QED
        BY <1>3, <3>1, Zenon DEF RequestOrder, Conflicts, Latest
    <2>2. CASE s # r
      <3>1. req'[s] = req[s] /\ req[s] \in Pending
        BY <1>1, <1>3, <2>2, Zenon
      <3>2. PICK q \in Pending : q = req[s]
        BY <3>1, Zenon
      <3>3. RequestOrder(q)
        BY <1>3, <3>1, <3>2, Zenon DEF BoardInv
      <3>4. RequestOrder(q)'
        BY <3>3, OrderKept, Zenon
      <3> QED
        BY <3>1, <3>2, <3>4, Zenon DEF RequestOrder, Conflicts, Latest
    <2> QED
      BY <2>1, <2>2, Zenon
  <1> QED
    BY <1>2, <1>3, Zenon DEF RequestsInOrder

(* A request that ends leaves the others in order.                         *)
LEMMA RequestEnds ==
    ASSUME BoardInv, Moves, UNCHANGED conflicted, NEW r \in Requests, Done(r)
    PROVE  RequestsInOrder'
  BY RequestMoves, Zenon DEF Done

(* A request may go on to a step that it needs no new knowledge for.       *)
LEMMA RequestGoes ==
    ASSUME BoardInv, Moves, UNCHANGED conflicted, NEW r \in Requests, req[r] # Idle,
           NEW step \in {"append", "reload", "await"}, GoTo(r, step),
           step = "append" => req[r].step = "evidence",
           step = "await" => req[r].id \in DOMAIN board
    PROVE  RequestsInOrder'
  <1>1. req[r] \in Pending /\ RequestOrder(req[r])
    BY PendingFacts, Zenon
  <1>2. PICK q \in Pending : q = req[r]
    BY <1>1, Zenon
  <1>3. RequestOrder(q)' /\ RequestOrder(q)
    BY <1>1, <1>2, OrderKept, Zenon
  <1>4. PICK p \in Pending : p = [q EXCEPT !.step = step]
    BY <1>2 DEF Pending
  <1>5. DOMAIN board \subseteq DOMAIN board'
    BY BoardGrows, Zenon
  <1>6. RequestOrder(p)'
    BY <1>2, <1>3, <1>4, <1>5 DEF RequestOrder, Pending
  <1>7. req' = [req EXCEPT ![r] = p]
    BY <1>2, <1>4, Zenon DEF GoTo
  <1> QED
    BY <1>6, <1>7, RequestMoves, Zenon

(* A request sets out knowing the conflicts the ledger holds.              *)
LEMMA RequestStarts ==
    ASSUME BoardInv, Moves, UNCHANGED <<board, conflicted>>, NEW r \in Requests,
           NEW phase \in {"prepare", "register", "delete", "finalize"},
           NEW step \in {"evidence", "classify", "begin", "sign"},
           NEW id \in Ids, NEW k \in Sessions \cup {None}, NEW e \in Nat,
           NEW c \in Commitments \cup {None}, Start(r, phase, step, id, k, e, c),
           step = "begin" => k \in Sessions,
           phase = "finalize" => c \in Commitments,
           step = "evidence" => phase = "prepare" /\ board # <<>> /\ Latest(board).final # None
    PROVE  RequestsInOrder'
  <1>1. board \in Seq(Attempts) /\ Conflicts(board) \subseteq Ids /\ <<>> \in Seq(Attempts)
    BY BoardFacts, EmptySeq, Zenon DEF BoardInv, BoardTypes, Conflicts
  <1>2. PICK snap \in Seq(Attempts) : snap = IF phase = "prepare" THEN board ELSE <<>>
    BY <1>1, Zenon
  <1>3. PICK prior \in SUBSET Ids : prior = Conflicts(board)
    BY <1>1, Zenon
  <1>4. PICK p : p = [phase |-> phase, step |-> step, id |-> id, session |-> k, expireAt |-> e,
                      tx |-> c, prior |-> prior, fresh |-> FALSE, snap |-> snap]
    BY Zenon
  <1>5. p \in Pending
    BY <1>4, Zenon DEF Pending
  <1>6. RequestOrder(p)'
    BY <1>2, <1>3, <1>4, Zenon DEF RequestOrder, Conflicts, Latest
  <1>7. req' = [req EXCEPT ![r] = p]
    BY <1>2, <1>3, <1>4, Zenon DEF Start
  <1> QED
    BY <1>5, <1>6, <1>7, RequestMoves, Zenon

(* Each handler step leaves the requests in order.                         *)
LEMMA RequestStep ==
    ASSUME BoardInv, [Next]_vars
    PROVE  RequestsInOrder'
  <1>0. Moves /\ now \in Nat /\ handle \in [Ids -> Nat] /\ DOMAIN board \subseteq Ids
    BY NextMoves, BoardFacts, Zenon DEF BoardInv, BoardTypes
  <1>i. None \in Sessions \cup {None} /\ None \in Commitments \cup {None} /\ 0 \in Nat /\ TTL \in Nat
    BY BoardAssumption, Zenon
  <1>1. ASSUME NEW r \in Requests, Prepare(r) PROVE RequestsInOrder'
    <2>1. PICK step \in {"evidence", "classify"} :
            /\ Start(r, "prepare", step, 1, None, 0, None)
            /\ step = "evidence" => board # <<>> /\ Latest(board).final # None
      BY <1>1, Zenon DEF Prepare
    <2>2. UNCHANGED <<board, conflicted>> /\ 1 \in Ids
      BY <2>1, HandlerAssumption DEF Start, ledgerVars, worldVars, chainVars, Ids
    <2> QED
      BY <1>0, <1>i, <2>1, <2>2, RequestStarts
  <1>2. ASSUME NEW r \in Requests, NEW a \in Ids, NEW k \in Sessions, Register(r, a, k)
        PROVE  RequestsInOrder'
    <2>1. Start(r, "register", "begin", a, k, handle[a], None) /\ handle[a] \in Nat
      BY <1>0, <1>2, Zenon DEF Register, RegisterProof
    <2>2. UNCHANGED <<board, conflicted>>
      BY <2>1, Zenon DEF Start, ledgerVars, worldVars, chainVars
    <2> QED
      BY <1>0, <1>i, <2>1, <2>2, RequestStarts, Zenon
  <1>3. ASSUME NEW r \in Requests, Release(r) PROVE RequestsInOrder'
    <2>1. Start(r, "delete", "sign", releasable, None, TTL, None) /\ releasable \in Ids
      BY <1>0, <1>3, Zenon DEF Release
    <2>2. PICK a \in Ids : a = releasable
      BY <2>1, Zenon
    <2>3. UNCHANGED <<board, conflicted>>
      BY <2>1, Zenon DEF Start, ledgerVars, worldVars, chainVars
    <2>4. Start(r, "delete", "sign", a, None, TTL, None)
      BY <2>1, <2>2, Zenon
    <2> QED
      BY <1>0, <1>i, <2>3, <2>4, RequestStarts, Zenon
  <1>4. ASSUME NEW r \in Requests, NEW a \in Ids, NEW c \in Commitments, Final(r, a, c)
        PROVE  RequestsInOrder'
    <2>1. Start(r, "finalize", "sign", a, None, 0, c)
      BY <1>4, Zenon DEF Final
    <2>2. UNCHANGED <<board, conflicted>>
      BY <2>1, Zenon DEF Start, ledgerVars, worldVars, chainVars
    <2> QED
      BY <1>0, <1>i, <2>1, <2>2, RequestStarts, Zenon
  <1>5. ASSUME NEW r \in Requests, CheckConflict(r) PROVE RequestsInOrder'
    BY <1>0, <1>5, RequestGoes, Zenon DEF CheckConflict, At, worldVars, chainVars
  <1>6. ASSUME NEW r \in Requests, AppendConflict(r) PROVE RequestsInOrder'
    BY <1>0, <1>6, RequestGoes, Zenon DEF AppendConflict, At, worldVars, chainVars
  <1>7. ASSUME NEW r \in Requests, Reload(r) PROVE RequestsInOrder'
    <2>1. req[r] \in Pending /\ RequestOrder(req[r]) /\ req[r].step = "reload"
      BY <1>7, PendingFacts, Zenon DEF Reload, At
    <2>2. PICK q \in Pending : q = req[r]
      BY <2>1, Zenon
    <2>3. board \in Seq(Attempts) /\ Conflicts(board) \in SUBSET Ids
      BY <1>0, Zenon DEF BoardInv, BoardTypes, Conflicts
    <2>4. PICK snap \in Seq(Attempts) : snap = board
      BY <2>3, Zenon
    <2>5. PICK prior \in SUBSET Ids : prior = Conflicts(board)
      BY <2>3, Zenon
    <2>6. PICK p \in Pending : p = [q EXCEPT !.step = "classify", !.snap = snap, !.prior = prior]
      BY Zenon DEF Pending
    <2>7. UNCHANGED <<board, conflicted>> /\ req[r].phase = "prepare"
      BY <1>7, Zenon DEF Reload, At, ledgerVars, worldVars, chainVars
    <2>8. RequestOrder(p)'
      BY <2>1, <2>2, <2>5, <2>6, <2>7, ZenonT(60) DEF RequestOrder, Pending, Conflicts, Latest
    <2>9. req' = [req EXCEPT ![r] = p]
      BY <1>7, <2>2, <2>4, <2>5, <2>6, Zenon DEF Reload
    <2> QED
      BY <1>0, <2>7, <2>8, <2>9, RequestMoves, Zenon
  <1>8. ASSUME NEW r \in Requests, Classify(r) \/ Fail(r) \/ RecordRegister(r) \/ RecordDelete(r)
                                   \/ RecordFinal(r)
        PROVE  RequestsInOrder'
    <2>1. Done(r) /\ UNCHANGED conflicted
      BY <1>8, Zenon
         DEF Classify, Fail, RecordRegister, RecordDelete, RecordFinal, worldVars, chainVars
    <2> QED
      BY <1>0, <2>1, RequestEnds, Zenon
  <1>9. ASSUME NEW r \in Requests, Begin(r) PROVE RequestsInOrder'
    <2>1. req[r] \in Pending /\ RequestOrder(req[r])
      BY <1>9, PendingFacts, Zenon DEF Begin, At
    <2>2. UNCHANGED conflicted /\ (Done(r) \/ GoSign(r))
      BY <1>9, Zenon DEF Begin, worldVars, chainVars
    <2>3. CASE GoSign(r)
      <3>1. PICK q \in Pending : q = req[r]
        BY <2>1, Zenon
      <3>2. RequestOrder(q)'
        BY <1>0, <2>1, <2>2, <3>1, OrderKept, Zenon
      <3>3. PICK p \in Pending : p = [q EXCEPT !.step = "sign", !.session = None]
        BY Zenon DEF Pending
      <3>4. RequestOrder(p)'
        BY <3>1, <3>2, <3>3 DEF RequestOrder, Pending
      <3>5. req' = [req EXCEPT ![r] = p]
        BY <2>3, <3>1, <3>3, Zenon DEF GoSign
      <3> QED
        BY <1>0, <2>2, <3>4, <3>5, RequestMoves, Zenon
    <2> QED
      BY <1>0, <2>2, <2>3, RequestEnds, Zenon
  <1>10. ASSUME NEW r \in Requests, Recheck(r) PROVE RequestsInOrder'
    <2>1. req[r] \in Pending /\ RequestOrder(req[r])
      BY <1>10, PendingFacts DEF Recheck, Idle, None
    <2>2. UNCHANGED <<board, conflicted>>
      BY <1>10, Zenon DEF Recheck, ledgerVars, worldVars, chainVars
    <2>3. PICK q \in Pending : q = req[r]
      BY <2>1
    <2>4. PICK p \in Pending : p = [q EXCEPT !.step = "dispatch", !.fresh = (q.phase = "finalize")]
      BY Zenon DEF Pending
    <2>5. \A a \in q.prior : board[a].final \in conflicted
      BY <1>10, <2>3, Zenon DEF Recheck, requireVaultBoardConflictChecks, confirmedBitcoinConflict
    <2>6. RequestOrder(p)'
      BY <2>1, <2>2, <2>3, <2>4, <2>5 DEF RequestOrder, Pending, Conflicts, Latest
    <2>7. req' = [req EXCEPT ![r] = p]
      BY <1>10, <2>3, <2>4, Zenon DEF Recheck
    <2> QED
      BY <1>0, <2>2, <2>6, <2>7, RequestMoves, Zenon
  <1>11. ASSUME NEW r \in Requests, DispatchRegister(r) PROVE RequestsInOrder'
    BY <1>0, <1>11, DispatchRegisterMoves, RequestGoes, Zenon
       DEF DispatchRegister, At, worldVars, chainVars
  <1>12. ASSUME NEW r \in Requests, DispatchDelete(r) PROVE RequestsInOrder'
    BY <1>0, <1>12, DispatchDeleteMoves, RequestGoes, Zenon
       DEF DispatchDelete, At, worldVars, chainVars
  <1>13. ASSUME NEW r \in Requests, DispatchFinal(r) PROVE RequestsInOrder'
    BY <1>0, <1>13, DispatchFinalMoves, RequestGoes, Zenon
       DEF DispatchFinal, At, worldVars, chainVars
  <1>14. ASSUME UNCHANGED req, conflicted \subseteq conflicted' PROVE RequestsInOrder'
    <2>1. ASSUME NEW s \in Requests, req[s] # Idle PROVE RequestOrder(req[s])'
      <3>1. PICK q \in Pending : q = req[s] /\ RequestOrder(q)
        BY <2>1, PendingFacts, Zenon
      <3>2. RequestOrder(q)'
        BY <1>0, <1>14, <3>1, OrderKept, Zenon
      <3> QED
        BY <1>14, <3>1, <3>2, Zenon DEF RequestOrder, Conflicts, Latest
    <2> QED
      BY <1>14, <2>1, Zenon DEF RequestsInOrder, BoardInv, BoardTypes
  <1>15. ASSUME NEW c \in Commitments, Reorg(c) PROVE RequestsInOrder'
    <2>1. req \in [Requests -> {Idle} \cup Pending] /\ UNCHANGED board
      BY <1>15, Zenon DEF BoardInv, BoardTypes, Reorg, ledgerVars
    <2>2. \A s \in Requests :
            req'[s] = IF req[s] = Idle THEN Idle ELSE [req[s] EXCEPT !.fresh = FALSE]
      BY <1>15, Zenon DEF Reorg
    <2>3. \A q \in Pending : [q EXCEPT !.fresh = FALSE] \in Pending
      BY Zenon DEF Pending
    <2>4. req' = [s \in Requests |-> IF req[s] = Idle THEN Idle ELSE [req[s] EXCEPT !.fresh = FALSE]]
      BY <1>15, Zenon DEF Reorg
    <2>5. req' \in [Requests -> {Idle} \cup Pending]
      BY <2>1, <2>3, <2>4, Zenon
    <2>6. ASSUME NEW s \in Requests, req'[s] # Idle PROVE RequestOrder(req[s])'
      <3>1. req[s] # Idle
        BY <2>2, <2>6, Zenon
      <3>2. PICK q \in Pending : q = req[s] /\ RequestOrder(q)
        BY <3>1, PendingFacts, Zenon
      <3>3. req'[s] = [q EXCEPT !.fresh = FALSE]
        BY <2>2, <3>1, <3>2, Zenon
      <3> QED
        BY <2>1, <3>2, <3>3, Zenon DEF RequestOrder, Pending, Conflicts, Latest
    <2> QED
      BY <2>5, <2>6, Zenon DEF RequestsInOrder
  <1>16. CASE Tick \/ UNCHANGED vars
    BY <1>14, <1>16, Zenon DEF Tick, vars, chainVars
  <1>17. ASSUME NEW a \in Ids, \/ OperatorRegister(a) \/ OperatorDelete(a)
                              \/ \E c \in Commitments : OperatorBatch(a, c)
         PROVE  RequestsInOrder'
    BY <1>14, <1>17, Zenon DEF OperatorRegister, OperatorDelete, OperatorBatch, worldVars, chainVars
  <1>18. ASSUME NEW c \in Commitments, OperatorSubmit(c) \/ ConflictConfirms(c) PROVE RequestsInOrder'
    BY <1>14, <1>18, Zenon DEF OperatorSubmit, ConflictConfirms, worldVars, chainVars
  <1> QED
    BY <1>1, <1>2, <1>3, <1>4, <1>5, <1>6, <1>7, <1>8, <1>9, <1>10, <1>11, <1>12, <1>13, <1>15, <1>16,
       <1>17, <1>18, Zenon DEF Next, Routes

(* The handles and the chain keep their types.                             *)
LEMMA HandleStep ==
    ASSUME BoardInv, [Next]_vars
    PROVE  handle' \in [Ids -> Nat] /\ conflicted' \subseteq Commitments
  <1>0. handle \in [Ids -> Nat] /\ conflicted \subseteq Commitments /\ now \in Nat /\ TTL \in Nat
    BY BoardAssumption, Zenon DEF BoardInv, BoardTypes
  <1>1. CASE UNCHANGED <<handle, conflicted>>
    BY <1>0, <1>1, Zenon
  <1>2. ASSUME NEW r \in Requests, Routes(r) PROVE UNCHANGED <<handle, conflicted>>
    BY <1>2, RoutesMoves, Zenon DEF chainVars
  <1>3. ASSUME NEW r \in Requests, Classify(r)
        PROVE  handle' \in [Ids -> Nat] /\ conflicted' \subseteq Commitments
    <2>1. PICK a \in Ids : handle' = [handle EXCEPT ![a] = now + TTL]
      BY <1>3, Zenon DEF Classify, sealVaultBoardHandle
    <2> QED
      BY <1>0, <1>3, <2>1 DEF Classify, worldVars, chainVars
  <1>4. ASSUME NEW r \in Requests,
               \/ CheckConflict(r) \/ AppendConflict(r) \/ Reload(r) \/ Begin(r) \/ Recheck(r)
               \/ DispatchRegister(r) \/ RecordRegister(r) \/ DispatchDelete(r) \/ RecordDelete(r)
               \/ DispatchFinal(r) \/ RecordFinal(r) \/ Fail(r)
        PROVE  UNCHANGED <<handle, conflicted>>
    BY <1>4, Zenon
       DEF CheckConflict, AppendConflict, Reload, Begin, Recheck, DispatchRegister, RecordRegister,
                DispatchDelete, RecordDelete, DispatchFinal, RecordFinal, Fail, ledgerVars, worldVars,
                chainVars
  <1>5. ASSUME NEW a \in Ids, \/ OperatorRegister(a) \/ OperatorDelete(a)
                              \/ \E c \in Commitments : OperatorBatch(a, c)
        PROVE  UNCHANGED <<handle, conflicted>>
    BY <1>5, Zenon
       DEF OperatorRegister, OperatorDelete, OperatorBatch, ledgerVars, worldVars, chainVars
  <1>6. ASSUME NEW c \in Commitments, OperatorSubmit(c) \/ ConflictConfirms(c) \/ Reorg(c)
        PROVE  handle' \in [Ids -> Nat] /\ conflicted' \subseteq Commitments
    BY <1>0, <1>6, Zenon
       DEF OperatorSubmit, ConflictConfirms, Reorg, ledgerVars, worldVars, chainVars
  <1>7. CASE Tick
    BY <1>0, <1>7, Zenon DEF Tick, chainVars, NoHandle
  <1>8. CASE UNCHANGED vars
    BY <1>1, <1>8, Zenon DEF vars, chainVars
  <1> QED
    BY <1>1, <1>2, <1>3, <1>4, <1>5, <1>6, <1>7, <1>8, Zenon DEF Next

(* A new outpoint, and one an upgrade found with a queued registration,    *)
(* satisfy the invariant.                                                  *)
LEMMA InitInv == Init => BoardInv
  <1> SUFFICES ASSUME Init PROVE BoardInv
    BY Zenon
  <1>0. MaxAttempts \in Nat \ {0} /\ TTL \in Nat /\ None \notin Commitments
    BY BoardAssumption, HandlerAssumption, Zenon
  <1>1. /\ now \in Nat /\ handle \in [Ids -> Nat] /\ req \in [Requests -> {Idle} \cup Pending]
        /\ conflicted \subseteq Commitments /\ deletion \in [Ids -> {None, "sent", "done"}]
        /\ submission \in [Commitments -> {None, "sent", "accepted"}]
        /\ intent \in [Ids -> {None, "sent", "queued", "rejected", "deleted", "batched"}]
    BY Zenon DEF Init, NoHandle
  <1>2. /\ \A r \in Requests : req[r] = Idle
        /\ \A a \in Ids : deletion[a] = None
        /\ \A c \in Commitments : submission[c] = None
    BY Zenon DEF Init
  <1>3. CASE board = <<>> /\ intent = [a \in Ids |-> None]
    <2>1. board \in Seq(Attempts) /\ Len(board) = 0 /\ DOMAIN board = {}
      BY <1>3
    <2> QED
      BY <1>0, <1>1, <1>2, <1>3, <2>1 DEF BoardInv, BoardTypes, AttemptOrder, OperatorOrder
  <1>4. ASSUME NEW k \in Sessions,
               board = <<[NewAttempt(k, TTL) EXCEPT !.dispatched = TRUE, !.result = "submitted"]>>,
               intent = [a \in Ids |-> IF a = 1 THEN "queued" ELSE None]
        PROVE  BoardInv
    <2>1. PICK at : at = [NewAttempt(k, TTL) EXCEPT !.dispatched = TRUE, !.result = "submitted"]
      BY Zenon
    <2>2. /\ at \in Attempts /\ RowOrder(at) /\ at.dispatched /\ at.result = "submitted"
          /\ ~at.deleting /\ ~at.released
      BY <1>0, <2>1, Zenon DEF NewAttempt, Attempts, RowOrder, None
    <2>3. board = <<at>>
      BY <1>4, <2>1, Zenon
    <2>4. board \in Seq(Attempts) /\ Len(board) = 1 /\ DOMAIN board = {1} /\ board[1] = at
      BY <2>2, <2>3
    <2>5. BoardTypes
      BY <1>0, <1>1, <2>4 DEF BoardTypes
    <2>6. AttemptOrder
      BY <2>2, <2>4 DEF AttemptOrder
    <2>7. 1 \in Ids
      BY <1>0 DEF Ids
    <2>8. OperatorOrder
      BY <1>2, <1>4, <2>2, <2>4, <2>7, Zenon DEF OperatorOrder, None
    <2> QED
      BY <1>2, <2>5, <2>6, <2>8, Zenon DEF BoardInv
  <1> QED
    BY <1>3, <1>4, Zenon DEF Init

(* The ledger's rows come in order, superseded attempts have stayed ones   *)
(* that may rotate, the Operator holds only what was dispatched, and what  *)
(* requests in flight know of the ledger and the chain holds.              *)
THEOREM BoardInvariant == Spec => []BoardInv
  <1>1. ASSUME BoardInv, [Next]_vars PROVE BoardInv'
    <2>1. Moves
      BY <1>1, NextMoves, Zenon
    <2>2. BoardTypes'
      BY <1>1, <2>1, BoardStep, OperatorTypes, RequestStep, HandleStep, Zenon
         DEF BoardTypes, RequestsInOrder
    <2>3. AttemptOrder' /\ OperatorOrder'
      BY <1>1, <2>1, AttemptStep, OperatorStep, Zenon
    <2> QED
      BY <1>1, <2>2, <2>3, RequestStep, Zenon DEF BoardInv, RequestsInOrder
  <1> QED
    BY <1>1, InitInv, PTL DEF Spec

(* At most one registration that no confirmed conflict has settled is live *)
(* at the Operator: requireVaultBoardAttemptCanRotate and its quarantine   *)
(* let an attempt be superseded only when its intent can no longer be      *)
(* taken into a batch, whatever the lag of the Operator's clock within     *)
(* the quarantine.                                                         *)
THEOREM OneRegistrationLive == Spec => []OneLiveIntent
  <1>1. ASSUME BoardInv, NEW a \in DOMAIN board, Live(a), ~board[a].conflict
        PROVE  a = Len(board)
    <2>1. /\ a \in 1..Len(board) /\ Len(board) \in Nat /\ board[a] \in Attempts /\ now \in Nat
          /\ RowOrder(board[a]) /\ (a < Len(board) => CanRotate(board[a], now))
      BY <1>1, BoardFacts, Zenon DEF BoardInv, AttemptOrder, BoardTypes
    <2>2. Matches(board[a], intent[a], deletion[a])
      BY <1>1, OperatorFacts, Zenon
    <2>3. ~CanRotate(board[a], now)
      BY <1>1, <2>1, <2>2, BoardAssumption, HandlerAssumption, SMTT(30)
      DEF CanRotate, CanSupersede, Live, Matches, RowOrder, Attempts, None
    <2> QED
      BY <2>1, <2>3
  <1>2. BoardInv => OneLiveIntent
    BY <1>1, Zenon DEF OneLiveIntent
  <1> QED
    BY <1>2, BoardInvariant, PTL

(* Whatever retries and restarts do, a register intent leaves once, an     *)
(* attempt signs one commitment, and its deletion and its commitment never *)
(* both leave (AppendVaultBoardDispatch, validateVaultBoardPhaseOrder).    *)
THEOREM NothingLeavesTwice == Spec => SentOnce
  <1> DEFINE Once ==
        /\ \A a \in Ids : intent'[a] = "sent" => intent[a] \in {None, "sent"}
        /\ \A a \in DOMAIN board : board[a].final # None => board'[a].final = board[a].final
        /\ \A a \in DOMAIN board' : ~(board'[a].deleting /\ board'[a].final # None)
  <1>1. ASSUME BoardInv, [Next]_vars PROVE [Once]_vars
    <2>1. Moves
      BY <1>1, NextMoves
    <2>2. /\ intent \in [Ids -> {None, "sent", "queued", "rejected", "deleted", "batched"}]
          /\ \A a \in DOMAIN board : ~board[a].dispatched => intent[a] = None
      BY <1>1, OperatorFacts, Zenon DEF BoardInv, BoardTypes, Matches
    <2>3. \A a \in Ids : intent'[a] = "sent" => intent[a] \in {None, "sent"}
      BY <2>1, <2>2, Zenon DEF Moves, Waits, Opens, RegisterLeaves, RegisterAnswered, DeleteLeaves,
                        DeleteAnswered, FinalLeaves, FinalAnswered, ConflictStored, IntentMoves,
                        IntentDeleted, CommitmentTaken
    <2>4. AttemptOrder'
      BY <1>1, <2>1, AttemptStep, Zenon
    <2> QED
      BY <1>1, <2>1, <2>3, <2>4, BoardGrows, Zenon DEF AttemptOrder, RowOrder
  <1> QED
    BY <1>1, BoardInvariant, PTL DEF Spec, SentOnce

(* An attempt that has been superseded is settled: no late answer and no   *)
(* retry changes its rows (AppendVaultBoardSubmission does not ask for the *)
(* latest attempt), and none of its final authorizations is open.          *)
THEOREM SupersededStaysSettled == Spec => SupersededSettled
  <1> DEFINE Settled == \A a \in DOMAIN board : a < Len(board) =>
                          board'[a] = board[a] /\ (board[a].final # None => board[a].conflict)
  <1>1. ASSUME BoardInv, [Next]_vars PROVE [Settled]_vars
    <2>1. Moves /\ BoardTypes /\ DOMAIN board = 1..Len(board) /\ Len(board) \in Nat
      BY <1>1, NextMoves, BoardFacts, Zenon DEF BoardInv
    <2> SUFFICES ASSUME NEW a \in DOMAIN board, a < Len(board)
                 PROVE  board'[a] = board[a] /\ (board[a].final # None => board[a].conflict)
      BY Zenon
    <2>2. board[a].final # None => board[a].conflict
      BY <1>1, Zenon DEF BoardInv, AttemptOrder, CanRotate
    <2>3. ASSUME NEW b \in DOMAIN board, NEW row, Writes(b, row), b = Len(board)
          PROVE  board'[a] = board[a]
      BY <2>1, <2>3 DEF Writes
    <2>4. ASSUME NEW k \in Sessions, NEW e \in Nat, Opens(k, e) PROVE board'[a] = board[a]
      BY <2>1, <2>4, NewAttemptType, OpenRow, Zenon DEF Opens
    <2>5. ASSUME NEW b \in DOMAIN board, RegisterAnswered(b) \/ DeleteAnswered(b) \/ FinalAnswered(b)
          PROVE  b = Len(board)
      BY <1>1, <2>5, OpenIsLatest, Zenon DEF RegisterAnswered, DeleteAnswered, FinalAnswered
    <2> QED
      BY <2>1, <2>2, <2>3, <2>4, <2>5, Zenon
      DEF Moves, Waits, RegisterLeaves, RegisterAnswered, DeleteLeaves, DeleteAnswered, FinalLeaves,
          FinalAnswered, ConflictStored, IntentMoves, IntentDeleted, CommitmentTaken
  <1> QED
    BY <1>1, BoardInvariant, PTL DEF Spec, SupersededSettled

(* A second commitment is signed only while every earlier one is excluded  *)
(* from the chain, but for a reorganization between the request's last     *)
(* look at the chain and its dispatch: submitVaultBoardCommitment checks   *)
(* the retained conflicts after signing, and the ledger refuses a final    *)
(* authorization whose caller has not checked them all.                    *)
THEOREM OneCommitmentPossible == Spec => NoSecondCommitment
  <1> DEFINE Excluded ==
        \A c \in Commitments : submission[c] = None /\ submission'[c] = "sent" =>
          \A d \in Commitments \ {c} :
              \/ submission[d] = None \/ d \in conflicted
              \/ \E r \in Requests : At(r, "finalize", "dispatch") /\ ~req[r].fresh
  <1>1. ASSUME BoardInv, [Next]_vars PROVE [Excluded]_vars
    <2> SUFFICES ASSUME NEW c \in Commitments, submission[c] = None, submission'[c] = "sent",
                        NEW d \in Commitments \ {c}, submission[d] # None, d \notin conflicted
                 PROVE  \E r \in Requests : At(r, "finalize", "dispatch") /\ ~req[r].fresh
      BY Zenon
    <2>1. PICK r \in Requests : DispatchFinal(r)
      <3>0. submission \in [Commitments -> {None, "sent", "accepted"}] /\ submission' # submission
        BY <1>1, Zenon DEF BoardInv, BoardTypes, None
      <3>1. ASSUME NEW e \in Commitments, OperatorSubmit(e) PROVE FALSE
        BY <3>0, <3>1, Zenon DEF OperatorSubmit, None
      <3>2. ASSUME NEW e \in Commitments, ConflictConfirms(e) \/ Reorg(e) PROVE FALSE
        BY <3>0, <3>2, Zenon DEF ConflictConfirms, Reorg, operatorVars
      <3>3. ASSUME NEW a \in Ids, \/ OperatorRegister(a) \/ OperatorDelete(a)
                                  \/ \E e \in Commitments : OperatorBatch(a, e)
            PROVE  FALSE
        BY <3>0, <3>3, Zenon DEF OperatorRegister, OperatorDelete, OperatorBatch
      <3>4. ASSUME NEW r \in Requests, Routes(r) PROVE FALSE
        BY <1>1, <3>0, <3>4, RoutesMoves, Zenon DEF Waits
      <3>5. ASSUME NEW r \in Requests,
                   \/ CheckConflict(r) \/ AppendConflict(r) \/ Reload(r) \/ Classify(r) \/ Begin(r)
                   \/ Recheck(r) \/ DispatchRegister(r) \/ RecordRegister(r) \/ DispatchDelete(r)
                   \/ RecordDelete(r) \/ RecordFinal(r) \/ Fail(r)
            PROVE  FALSE
        BY <3>0, <3>5, Zenon DEF CheckConflict, AppendConflict, Reload, Classify, Begin, Recheck,
                          DispatchRegister, RecordRegister, DispatchDelete, RecordDelete, RecordFinal,
                          Fail, operatorVars
      <3>6. ~(Tick \/ UNCHANGED vars)
        BY <3>0, Zenon DEF Tick, vars, operatorVars
      <3> QED
        BY <1>1, <3>1, <3>2, <3>3, <3>4, <3>5, <3>6, Zenon DEF Next
    <2>2. /\ At(r, "finalize", "dispatch") /\ AuthorizeCreates(board, req[r].id, "finalize", req[r].prior)
          /\ RequestOrder(req[r]) /\ req[r] # Idle
      BY <1>1, <2>1, PendingFacts, Zenon DEF DispatchFinal, At
    <2>3. PICK a \in DOMAIN board : board[a].final = d
      BY <1>1, OperatorFacts, Zenon
    <2>4. a # Len(board) /\ a \in 1..Len(board) /\ Len(board) \in Nat
      BY <1>1, <2>2, <2>3, BoardFacts, BoardAssumption, Zenon DEF AuthorizeCreates, BoardInv
    <2>5. board[a].conflict
      BY <2>2, <2>3, <2>4, BoardAssumption DEF AuthorizeCreates, ConflictsChecked, Readable
    <2>6. a \in req[r].prior
      BY <2>2, <2>5, Zenon DEF AuthorizeCreates, ConflictsChecked, Conflicts
    <2>7. ~req[r].fresh
      BY <2>2, <2>3, <2>6, Zenon DEF RequestOrder
    <2> QED
      BY <2>2, <2>7, Zenon
  <1> QED
    BY <1>1, BoardInvariant, PTL DEF Spec, NoSecondCommitment
=============================================================================
