--------------------------- MODULE VtxoSpendProofs ---------------------------
(***************************************************************************)
(* What is proved of VtxoSpend, for any number of requests, transactions   *)
(* and checkpoint sets: the Guardian signs one transaction and one set of  *)
(* checkpoints per payment, an acknowledged abort is final, no stale copy  *)
(* overwrites what another handler recorded, and the handlers implement    *)
(* the abstract fence of SpendingFence.                                    *)
(*                                                                         *)
(* The row only moves forward along RowMove; SpendInv ties every copy in   *)
(* flight to the row it was read from, and OutcomeOrder ties the recorded  *)
(* outcome to the Operator's.                                              *)
(***************************************************************************)
EXTENDS VtxoSpend, TLAPS

RowMove ==
    \/ row' = row
    \/ row.state = "absent" /\ row' = Reserved
    \/ row.state = "reserved" /\ row' = Row("aborted", None, None, None)
    \/ row.state = "reserved" /\ \E t \in Transactions : row' = Row("signed", t, None, Unsigned)
    \/ row.state = "signed" /\ row' = Row("submitted", row.tx, None, Unsigned)
    \/ row.state = "signed" /\ \E c \in Checkpoints : row' = Row("submitted", row.tx, c, c)
    \/ row.state = "submitted" /\ \E s \in {"finalized", "unresolved"} : row' = In(row, s)

(* Next, action by action.                                                 *)
LEMMA NextActions ==
    ASSUME Next
    PROVE  \/ \E r \in Slots :
                 \/ LoadReserve(r) \/ LoadAbort(r) \/ LoadView(r) \/ LoadExpired(r)
                 \/ \E t \in Transactions, n \in 0..MaxSignCount : LoadAuthorize(r, t, n)
                 \/ \E c \in Checkpoints : LoadCheckpoints(r, c)
                 \/ Insert(r) \/ Expire(r) \/ AbortVtxo(r)
                 \/ CommitSigned(r) \/ CommitLate(r) \/ ReplaySigned(r)
                 \/ BindCheckpoints(r)
                 \/ AnswerFromCopy(r) \/ Query(r) \/ Promote(r) \/ SettleRow(r) \/ Reload(r)
                 \/ Fail(r)
           \/ \E c \in Checkpoints : ReplayCheckpoints(c)
           \/ abortExpired
           \/ Crash \/ PassExpiry
           \/ \E n \in 0..MaxSignCount : OtherCeremony(n)
           \/ \E result \in {"finalized", "conflict"} : Report(result)
  BY Zenon DEF Next, Start, StatusStep, HandlerStep, Slots

(* The copy a request holds, field by field, at the step it has reached.   *)
LEMMA CopyAt ==
    ASSUME SpendInv, NEW r \in Slots
    PROVE  /\ req[r] \in InFlight
           /\ req[r].snap \in Rows
           /\ req[r].step \in {"expire", "commit", "abort"} =>
                 req[r].snap = Row("reserved", None, None, None)
           /\ req[r].step \in {"replay", "bind", "promote"} =>
                 /\ req[r].snap = Row("signed", row.tx, None, Unsigned)
                 /\ row.tx \in Transactions /\ row.state \in Authorized
           /\ req[r].step = "settle" =>
                 /\ req[r].snap = Row("submitted", row.tx, row.request, row.checkpoints)
                 /\ row.state \in Authorized \ {"signed"}
           /\ req[r].step \in {"query", "reload", "settle", "promote"} =>
                 /\ req[r].snap.state \in {"signed", "submitted"}
                 /\ req[r].snap.tx = row.tx
                 /\ row.tx \in Transactions /\ row.state \in Authorized
           /\ req[r].step = "commit" => req[r].tx \in Transactions
           /\ req[r].step = "bind" => req[r].cps \in Checkpoints
  <1> DEFINE op == req[r].snap
  <1>1. /\ req[r] \in InFlight /\ op \in Rows /\ CopyHeld(r) /\ Shaped(row)
    BY Zenon DEF SpendInv, TypeOK, InFlight
  <1>2. op = [state |-> op.state, tx |-> op.tx, request |-> op.request,
              checkpoints |-> op.checkpoints]
    BY <1>1, Zenon DEF Rows
  <1>3. ASSUME req[r].step \in {"expire", "commit", "abort"}
        PROVE  op.state = "reserved"
    BY <1>1, <1>3, Zenon DEF CopyHeld, CopyState
  <1>4. ASSUME req[r].step \in {"replay", "bind", "promote"}
        PROVE  op.state = "signed"
    BY <1>1, <1>4, Zenon DEF CopyHeld, CopyState
  <1>5. ASSUME req[r].step = "settle"
        PROVE  op.state = "submitted"
    BY <1>1, <1>5, Zenon DEF CopyHeld, CopyState
  <1>6. ASSUME req[r].step \in {"query", "reload"}
        PROVE  op.state \in {"signed", "submitted"}
    BY <1>1, <1>6, Zenon DEF CopyHeld, CopyState
  <1>7. op.state = "reserved" => op = Row("reserved", None, None, None)
    BY <1>1, <1>2, Zenon DEF CopyHeld, Shaped, Row, Authorized
  <1>8. op.state \in {"signed", "submitted"} =>
           op.tx = row.tx /\ row.tx \in Transactions /\ row.state \in Authorized
    BY <1>1, Zenon DEF CopyHeld, Shaped, Authorized
  <1>9. op.state = "signed" => op = Row("signed", row.tx, None, Unsigned)
    BY <1>1, <1>2, <1>8, SpendAssumption, Zenon DEF CopyHeld, Shaped, Row, Authorized
  <1>10. op.state = "submitted" =>
            /\ op = Row("submitted", row.tx, row.request, row.checkpoints)
            /\ row.state # "signed"
    BY <1>1, <1>2, <1>8, Zenon DEF CopyHeld, Row
  <1> QED
    BY <1>1, <1>3, <1>4, <1>5, <1>6, <1>7, <1>8, <1>9, <1>10, Zenon DEF CopyHeld

(* Every write of the row is one of the moves above: the swap compares the *)
(* state only, yet the copy it writes holds what the row held.             *)
LEMMA RowStep ==
    ASSUME SpendInv, [Next]_vars
    PROVE  RowMove
  <1>0. row \in Rows /\ Shaped(row)
    BY Zenon DEF SpendInv, TypeOK
  <1>1. ASSUME NEW r \in Slots, Insert(r) PROVE RowMove
    BY <1>1, Zenon DEF Insert, RowMove
  <1>2. ASSUME NEW r \in Slots, Expire(r) \/ AbortVtxo(r) PROVE RowMove
    BY <1>2, CopyAt DEF Expire, AbortVtxo, At, TransitionVtxoOperation, In, Row, RowMove
  <1>3. ASSUME NEW r \in Slots, CommitSigned(r) PROVE RowMove
    BY <1>3, CopyAt DEF CommitSigned, At, Row, RowMove
  <1>4. ASSUME NEW r \in Slots, BindCheckpoints(r) PROVE RowMove
    BY <1>4, CopyAt DEF BindCheckpoints, At, TransitionVtxoOperation, Row, RowMove
  <1>5. ASSUME NEW r \in Slots, Promote(r) PROVE RowMove
    BY <1>5, CopyAt DEF Promote, At, TransitionVtxoOperation, In, Row, RowMove
  <1>6. ASSUME NEW r \in Slots, SettleRow(r) PROVE RowMove
    BY <1>6, CopyAt DEF SettleRow, At, TransitionVtxoOperation, Settled, In, Row, RowMove
  <1>7. ASSUME abortExpired PROVE RowMove
    BY <1>0, <1>7, Zenon DEF abortExpired, Shaped, Authorized, In, Row, RowMove
  <1>8. ASSUME UNCHANGED row PROVE RowMove
    BY <1>8, Zenon DEF RowMove
  <1>9. CASE Next
    BY <1>1, <1>2, <1>3, <1>4, <1>5, <1>6, <1>7, <1>8, <1>9, NextActions
       DEF LoadReserve, LoadAbort, LoadView, LoadExpired, LoadAuthorize, LoadCheckpoints, Load,
           CommitLate, ReplaySigned, AnswerFromCopy, Query, Reload, Fail, ReplayCheckpoints,
           Crash, PassExpiry, OtherCeremony, Report
  <1> QED
    BY <1>8, <1>9, Zenon DEF vars

(* A move keeps the row well formed and keeps what it holds signed.        *)
LEMMA RowKept ==
    ASSUME SpendInv, RowMove
    PROVE  /\ row' \in Rows /\ Shaped(row)'
           /\ row.state \in Authorized => row'.state \in Authorized /\ row'.tx = row.tx
           /\ row.state \in Authorized \ {"signed"} =>
                 /\ row'.state # "signed"
                 /\ row'.request = row.request /\ row'.checkpoints = row.checkpoints
           /\ row.request # None =>
                 row'.request = row.request /\ row'.checkpoints = row.checkpoints
           /\ row.state = "aborted" => row'.state = "aborted"
  <1>0. row \in Rows /\ Shaped(row)
    BY Zenon DEF SpendInv, TypeOK
  <1>1. CASE row' = row
    BY <1>0, <1>1, Zenon DEF Shaped
  <1>2. CASE row.state = "absent" /\ row' = Reserved
    BY <1>0, <1>2, Zenon DEF Reserved, Row, Rows, States, Shaped, Authorized
  <1>3. CASE row.state = "reserved" /\ row' = Row("aborted", None, None, None)
    BY <1>0, <1>3, Zenon DEF Row, Rows, States, Shaped, Authorized
  <1>4. ASSUME row.state = "reserved",
               NEW t \in Transactions, row' = Row("signed", t, None, Unsigned)
        PROVE  row' \in Rows /\ Shaped(row)'
    BY <1>4, Zenon DEF Row, Rows, States, Shaped, Authorized
  <1>5. CASE row.state = "signed" /\ row' = Row("submitted", row.tx, None, Unsigned)
    BY <1>0, <1>5, Zenon DEF Row, Rows, States, Shaped, Authorized
  <1>6. ASSUME row.state = "signed",
               NEW c \in Checkpoints, row' = Row("submitted", row.tx, c, c)
        PROVE  /\ row' \in Rows /\ Shaped(row)'
               /\ row'.state = "submitted" /\ row'.tx = row.tx /\ row.request = None
    BY <1>0, <1>6, Zenon DEF Row, Rows, States, Shaped, Authorized
  <1>7. ASSUME row.state = "submitted",
               NEW s \in {"finalized", "unresolved"}, row' = In(row, s)
        PROVE  /\ row' \in Rows /\ Shaped(row)'
               /\ row'.state = s /\ row'.tx = row.tx
               /\ row'.request = row.request /\ row'.checkpoints = row.checkpoints
    BY <1>0, <1>7, Zenon DEF In, Row, Rows, States, Shaped, Authorized
  <1> QED
    BY <1>0, <1>1, <1>2, <1>3, <1>4, <1>5, <1>6, <1>7, Zenon DEF RowMove, Shaped, Authorized

(* A copy whose request does not move still agrees with the row.           *)
LEMMA CopyKept ==
    ASSUME SpendInv, RowMove, NEW r \in Slots, req'[r] = req[r]
    PROVE  CopyHeld(r)'
  <1>1. CopyHeld(r)
    BY Zenon DEF SpendInv
  <1> QED
    BY <1>1, RowKept DEF CopyHeld, Shaped, CopyState, Authorized

(* An idle request holds no copy.                                          *)
LEMMA CopyIdle ==
    ASSUME NEW r \in Slots, req'[r] = Idle
    PROVE  CopyHeld(r)'
  BY DEF CopyHeld, Idle, NoRow, Row, Shaped, CopyState, Authorized, None

(* A request that sets out holds a copy of the row it read.                *)
LEMMA LoadEffect ==
    ASSUME TypeOK, NEW r \in Slots, NEW step \in Steps,
           NEW t \in Transactions \cup {None}, NEW c \in Checkpoints \cup {None},
           NEW n \in 0..MaxSignCount, Load(r, step, t, c, n)
    PROVE  /\ req' \in [Slots -> InFlight]
           /\ \A q \in Slots \ {r} : req'[q] = req[q]
           /\ req'[r].step = step /\ req'[r].snap = row
           /\ req'[r].tx = t /\ req'[r].cps = c
  <1>1. [step |-> step, snap |-> row, tx |-> t, cps |-> c, count |-> n,
         seen |-> "pending"] \in InFlight
    BY Zenon DEF TypeOK, InFlight, Outcomes
  <1> QED
    BY <1>1, Zenon DEF Load, TypeOK

(* A finished request is idle again; the others are as they were.          *)
LEMMA DoneEffect ==
    ASSUME TypeOK, NEW r \in Slots, Done(r)
    PROVE  /\ req' \in [Slots -> InFlight]
           /\ \A q \in Slots \ {r} : req'[q] = req[q]
           /\ req'[r] = Idle
  <1>1. NoRow \in Rows
    BY Zenon DEF NoRow, Row, Rows, States
  <1>2. Idle \in InFlight
    BY <1>1, SpendAssumption DEF Idle, InFlight, Outcomes
  <1> QED
    BY <1>2, Zenon DEF Done, TypeOK

(* A request that goes on keeps its arguments and takes the given copy.    *)
LEMMA ProceedEffect ==
    ASSUME TypeOK, NEW r \in Slots, NEW step \in Steps, NEW snap \in Rows,
           NEW seen \in Outcomes, Proceed(r, step, snap, seen)
    PROVE  /\ req' \in [Slots -> InFlight]
           /\ \A q \in Slots \ {r} : req'[q] = req[q]
           /\ req'[r].step = step /\ req'[r].snap = snap
  <1>1. [step |-> step, snap |-> snap, tx |-> req[r].tx, cps |-> req[r].cps,
         count |-> req[r].count, seen |-> seen] \in InFlight
    BY Zenon DEF TypeOK, InFlight
  <1> QED
    BY <1>1, Zenon DEF Proceed, TypeOK

(* A copy just taken of the row agrees with it.                            *)
LEMMA CopyTaken ==
    ASSUME SpendInv, row' = row, NEW r \in Slots, req'[r].snap = row,
           CopyState(req'[r].step, row.state),
           req'[r].step = "commit" => req'[r].tx \in Transactions,
           req'[r].step = "bind" => req'[r].cps \in Checkpoints
    PROVE  CopyHeld(r)'
  <1>1. Shaped(row)
    BY Zenon DEF SpendInv
  <1> QED
    BY <1>1, Zenon DEF CopyHeld, Shaped, CopyState, Authorized

(* Every handler step leaves every copy in flight in agreement with the    *)
(* row.                                                                    *)
LEMMA RequestStep ==
    ASSUME SpendInv, [Next]_vars
    PROVE  req' \in [Slots -> InFlight] /\ \A q \in Slots : CopyHeld(q)'
  <1> DEFINE Good == req' \in [Slots -> InFlight] /\ \A q \in Slots : CopyHeld(q)'
  <1>0. TypeOK /\ RowMove
    BY RowStep, Zenon DEF SpendInv
  <1>1. ASSUME NEW r \in Slots, NEW step \in Steps, NEW t \in Transactions \cup {None},
               NEW c \in Checkpoints \cup {None}, NEW n \in 0..MaxSignCount,
               Load(r, step, t, c, n), CopyState(step, row.state),
               step = "commit" => t \in Transactions, step = "bind" => c \in Checkpoints
        PROVE  Good
    <2>1. row' = row
      BY <1>1, Zenon DEF Load
    <2>2. /\ req' \in [Slots -> InFlight]
          /\ \A q \in Slots \ {r} : req'[q] = req[q]
          /\ req'[r].step = step /\ req'[r].snap = row
          /\ req'[r].tx = t /\ req'[r].cps = c
      BY <1>0, <1>1, LoadEffect, Zenon
    <2>3. CopyHeld(r)'
      BY <1>1, <2>1, <2>2, CopyTaken, Zenon
    <2> QED
      BY <1>0, <2>2, <2>3, CopyKept, Zenon
  <1>2. ASSUME NEW r \in Slots, Done(r)
        PROVE  Good
    BY <1>0, <1>2, DoneEffect, CopyKept, CopyIdle, Zenon
  <1>3. ASSUME NEW r \in Slots, NEW step \in Steps, NEW snap \in Rows, NEW seen \in Outcomes,
               Proceed(r, step, snap, seen),
               req'[r].step = step /\ req'[r].snap = snap => CopyHeld(r)'
        PROVE  Good
    BY <1>0, <1>3, ProceedEffect, CopyKept, Zenon
  <1>4. 0 \in 0..MaxSignCount
    BY SpendAssumption
  <1>5. ASSUME NEW r \in Slots, LoadReserve(r) \/ LoadAbort(r) \/ LoadView(r) \/ LoadExpired(r)
        PROVE  Good
    <2>1. CASE LoadReserve(r)
      BY <1>1, <1>4, <2>1, Zenon DEF LoadReserve, Steps, CopyState
    <2>2. CASE LoadAbort(r)
      BY <1>1, <1>4, <2>2, Zenon DEF LoadAbort, Steps, CopyState, None
    <2>3. CASE LoadView(r)
      BY <1>1, <1>4, <2>3, Zenon DEF LoadView, Steps, CopyState, None
    <2>4. CASE LoadExpired(r)
      BY <1>1, <1>4, <2>4, Zenon DEF LoadExpired, Steps, CopyState, None
    <2> QED
      BY <1>5, <2>1, <2>2, <2>3, <2>4, Zenon
  <1>6. ASSUME NEW r \in Slots, NEW t \in Transactions, NEW n \in 0..MaxSignCount,
               LoadAuthorize(r, t, n)
        PROVE  Good
    <2>1. CASE row.state = "reserved" /\ Load(r, "commit", t, None, n)
      BY <1>1, <2>1, Zenon DEF Steps, CopyState, None
    <2>2. CASE row.state = "signed" /\ Load(r, "replay", t, None, n)
      BY <1>1, <2>2, Zenon DEF Steps, CopyState, None
    <2> QED
      BY <1>6, <2>1, <2>2, Zenon DEF LoadAuthorize
  <1>7. ASSUME NEW r \in Slots, NEW c \in Checkpoints, LoadCheckpoints(r, c)
        PROVE  Good
    BY <1>1, <1>4, <1>7, Zenon DEF LoadCheckpoints, Steps, CopyState, None
  <1>8. ASSUME NEW r \in Slots, Insert(r)
        PROVE  Good
    <2>1. CASE row.state = "reserved" /\ Proceed(r, "expire", row, "pending") /\ UNCHANGED row
      <3>1. req'[r].step = "expire" /\ req'[r].snap = row => CopyHeld(r)'
        BY <2>1, CopyTaken, Zenon DEF CopyState, None
      <3>2. row \in Rows
        BY <1>0, Zenon DEF TypeOK
      <3> QED
        BY <1>3, <2>1, <3>1, <3>2, Zenon DEF Steps, Outcomes
    <2>2. CASE Done(r)
      BY <1>2, <2>2, Zenon
    <2> QED
      BY <1>8, <2>1, <2>2, Zenon DEF Insert
  <1>9. ASSUME NEW r \in Slots, Query(r)
        PROVE  Good
    <2>1. /\ req[r].step = "query" /\ req[r].snap \in Rows /\ row' = row
          /\ CopyHeld(r)
      BY <1>9, CopyAt, Zenon DEF Query, At, SpendInv
    <2>2. ASSUME NEW step \in {"reload", "promote", "settle"},
                 CopyState(step, req[r].snap.state),
                 req'[r].step = step /\ req'[r].snap = req[r].snap
          PROVE  CopyHeld(r)'
      BY <2>1, <2>2, Zenon DEF CopyHeld, Shaped, CopyState, Authorized
    <2>3. req[r].snap.state \in {"signed", "submitted"} /\ outcome \in Outcomes
      BY <1>0, <2>1, CopyAt, Zenon DEF TypeOK
    <2>4. CASE Proceed(r, "reload", req[r].snap, outcome)
      BY <1>3, <2>1, <2>2, <2>3, <2>4, Zenon DEF Steps, CopyState, None
    <2>5. CASE req[r].snap.state = "signed" /\ Proceed(r, "promote", req[r].snap, outcome)
      BY <1>3, <2>1, <2>2, <2>3, <2>5, Zenon DEF Steps, CopyState, None
    <2>6. CASE req[r].snap.state = "submitted" /\ Proceed(r, "settle", req[r].snap, outcome)
      BY <1>3, <2>1, <2>2, <2>3, <2>6, Zenon DEF Steps, CopyState, None
    <2> QED
      BY <1>9, <2>4, <2>5, <2>6, Zenon DEF Query
  <1>10. ASSUME NEW r \in Slots, Promote(r)
         PROVE  Good
    <2>1. /\ req[r].step = "promote" /\ req[r].snap = Row("signed", row.tx, None, Unsigned)
          /\ row.tx \in Transactions /\ req[r].seen \in Outcomes /\ row \in Rows
      BY <1>0, <1>10, CopyAt, Zenon DEF Promote, At, TypeOK, InFlight
    <2> DEFINE next == In(req[r].snap, "submitted")
    <2>2. next = Row("submitted", row.tx, None, Unsigned) /\ next \in Rows
      BY <2>1 DEF In, Row, Rows, States
    <2>3. CASE row.state = "signed" /\ Proceed(r, "settle", next, req[r].seen)
      <3>1. row' = next
        BY <1>10, <2>3, Zenon DEF Promote, TransitionVtxoOperation
      <3>2. req'[r].step = "settle" /\ req'[r].snap = next => CopyHeld(r)'
        BY <2>1, <2>2, <3>1 DEF CopyHeld, Shaped, CopyState, Authorized, Row, None
      <3> QED
        BY <1>3, <2>1, <2>2, <2>3, <3>2, Zenon DEF Steps
    <2>4. CASE row.state = "submitted" /\ Proceed(r, "settle", row, req[r].seen)
      <3>1. row' = row
        BY <1>10, <2>4, Zenon DEF Promote, TransitionVtxoOperation
      <3>2. req'[r].step = "settle" /\ req'[r].snap = row => CopyHeld(r)'
        BY <2>4, <3>1, CopyTaken, Zenon DEF CopyState, None
      <3> QED
        BY <1>3, <2>1, <2>4, <3>2, Zenon DEF Steps
    <2>5. CASE Proceed(r, "reload", req[r].snap, req[r].seen)
      <3>1. req'[r].step = "reload" /\ req'[r].snap = req[r].snap => CopyHeld(r)'
        <4>1. Shaped(req[r].snap) /\ req[r].snap.state = "signed" /\ req[r].snap.tx = row.tx
          BY <2>1 DEF Shaped, Row, Authorized
        <4>2. row'.tx = row.tx /\ row'.state \in Authorized
          BY <1>0, <2>1, RowKept, CopyAt, Zenon
        <4> QED
          BY <4>1, <4>2, Zenon DEF CopyHeld, Shaped, CopyState, Authorized, None
      <3>2. req[r].snap \in Rows
        BY CopyAt, Zenon
      <3> QED
        BY <1>3, <2>1, <2>5, <3>1, <3>2, Zenon DEF Steps
    <2> QED
      BY <1>10, <2>3, <2>4, <2>5, Zenon DEF Promote
  <1>11. ASSUME NEW r \in Slots, SettleRow(r)
         PROVE  Good
    <2>1. /\ req[r].step = "settle" /\ req[r].snap \in Rows
          /\ req[r].snap = Row("submitted", row.tx, row.request, row.checkpoints)
          /\ row.state \in Authorized \ {"signed"} /\ req[r].seen \in Outcomes
          /\ Shaped(req[r].snap)
      BY <1>0, <1>11, CopyAt, Zenon DEF SettleRow, At, TypeOK, InFlight, SpendInv, CopyHeld
    <2>2. /\ row'.tx = row.tx /\ row'.state \in Authorized \ {"signed"}
          /\ row'.request = row.request /\ row'.checkpoints = row.checkpoints
      BY <1>0, <2>1, RowKept, Zenon
    <2>3. req'[r].step = "reload" /\ req'[r].snap = req[r].snap => CopyHeld(r)'
      BY <2>1, <2>2 DEF CopyHeld, Shaped, CopyState, Authorized, Row, None
    <2> QED
      BY <1>3, <1>11, <2>1, <2>3, Zenon DEF SettleRow, Steps
  <1>12. ASSUME Crash PROVE Good
    <2>1. NoRow \in Rows
      BY Zenon DEF NoRow, Row, Rows, States
    <2>2. Idle \in InFlight
      BY <1>4, <2>1, Zenon DEF Idle, InFlight, Outcomes
    <2> QED
      BY <1>12, <2>2, CopyIdle, Zenon DEF Crash
  <1>13. ASSUME UNCHANGED req PROVE Good
    BY <1>0, <1>13, CopyKept, Zenon DEF TypeOK
  <1>14. CASE Next
    BY <1>2, <1>5, <1>6, <1>7, <1>8, <1>9, <1>10, <1>11, <1>12, <1>13, <1>14, NextActions, Zenon
       DEF Expire, AbortVtxo, CommitSigned, CommitLate, ReplaySigned, BindCheckpoints,
           AnswerFromCopy, Reload, Fail, ReplayCheckpoints, abortExpired, PassExpiry,
           OtherCeremony, Report
  <1> QED
    BY <1>13, <1>14, Zenon DEF vars

(* What leaves the process in a step is what the row holds after it.       *)
LEMMA AnswerStep ==
    ASSUME SpendInv, [Next]_vars
    PROVE  /\ \A t \in psbtsOut' \ psbtsOut :
                 t \in Transactions /\ row'.tx = t /\ row'.state \in Authorized
           /\ \A c \in checkpointsOut' \ checkpointsOut :
                 c \in Checkpoints /\ row'.request = c /\ row'.checkpoints = c
  <1> DEFINE PsbtsGood == \A t \in psbtsOut' \ psbtsOut :
                 t \in Transactions /\ row'.tx = t /\ row'.state \in Authorized
             CheckpointsGood == \A c \in checkpointsOut' \ checkpointsOut :
                 c \in Checkpoints /\ row'.request = c /\ row'.checkpoints = c
             Good == PsbtsGood /\ CheckpointsGood
  <1>0. RowMove /\ Shaped(row)
    BY RowStep, Zenon DEF SpendInv
  <1>1. ASSUME NEW r \in Slots, CommitSigned(r) PROVE Good
    BY <1>1, CopyAt, Zenon DEF CommitSigned, At, Row, Authorized
  <1>2. ASSUME NEW r \in Slots, CommitLate(r) PROVE Good
    BY <1>0, <1>2, Zenon DEF CommitLate, Shaped, Authorized
  <1>3. ASSUME NEW r \in Slots, ReplaySigned(r) PROVE Good
    BY <1>3, CopyAt DEF ReplaySigned, At, Row, Authorized
  <1>4. ASSUME NEW r \in Slots, BindCheckpoints(r) PROVE Good
    <2>1. /\ UNCHANGED psbtsOut
          /\ req[r].snap = Row("signed", row.tx, None, Unsigned) /\ req[r].cps \in Checkpoints
      BY <1>4, CopyAt, Zenon DEF BindCheckpoints, At
    <2>2. CASE row.state = "signed" /\ checkpointsOut' = checkpointsOut \cup {req[r].cps}
      BY <1>4, <2>1, <2>2, Zenon DEF BindCheckpoints, TransitionVtxoOperation, Row
    <2>3. CASE /\ row.state = "submitted" /\ row.request = req[r].cps
               /\ checkpointsOut' = checkpointsOut \cup {row.checkpoints}
      BY <1>0, <1>4, <2>1, <2>3, SpendAssumption, Zenon
         DEF BindCheckpoints, TransitionVtxoOperation, Shaped, Authorized
    <2> QED
      BY <1>4, <2>2, <2>3, Zenon DEF BindCheckpoints
  <1>5. ASSUME NEW c \in Checkpoints, ReplayCheckpoints(c) PROVE Good
    BY <1>0, <1>5, SpendAssumption, Zenon DEF ReplayCheckpoints, Shaped, Authorized
  <1>6. ASSUME NEW r \in Slots, AnswerFromCopy(r) PROVE Good
    <2>1. /\ row' = row /\ CopyHeld(r)
          /\ req[r].snap.state \in {"signed", "submitted"}
          /\ req[r].snap.tx = row.tx /\ row.tx \in Transactions /\ row.state \in Authorized
      BY <1>6, CopyAt, Zenon DEF AnswerFromCopy, SpendInv
    <2>2. CASE Disclose(req[r].snap)
      <3>1. PsbtsGood
        BY <2>1, <2>2, Zenon DEF Disclose
      <3>2. CheckpointsGood
        BY <2>1, <2>2, SpendAssumption, Zenon DEF Disclose, CopyHeld, Shaped, Authorized
      <3> QED
        BY <3>1, <3>2, Zenon
    <2>3. CASE Disclose(In(req[r].snap, "signed"))
      BY <2>1, <2>3, Zenon DEF Disclose, In, Row
    <2> QED
      BY <1>6, <2>2, <2>3, Zenon DEF AnswerFromCopy
  <1>7. ASSUME NEW r \in Slots, Reload(r) PROVE Good
    BY <1>0, <1>7, SpendAssumption, Zenon DEF Reload, Disclose, Shaped, Authorized
  <1>8. ASSUME UNCHANGED <<psbtsOut, checkpointsOut>> PROVE Good
    BY <1>8, Zenon
  <1>9. CASE Next
    BY <1>1, <1>2, <1>3, <1>4, <1>5, <1>6, <1>7, <1>8, <1>9, NextActions
       DEF LoadReserve, LoadAbort, LoadView, LoadExpired, LoadAuthorize, LoadCheckpoints, Load,
           Insert, Expire, AbortVtxo, Query, Promote, SettleRow, Fail, abortExpired, Crash,
           PassExpiry, OtherCeremony, Report, outVars
  <1> QED
    BY <1>8, <1>9, Zenon DEF vars

(* An abort is acknowledged only by the request whose swap aborted the row. *)
LEMMA ReceiptStep ==
    ASSUME SpendInv, [Next]_vars, abortReceipt'
    PROVE  row'.state = "aborted"
  <1>1. CASE abortReceipt
    BY <1>1, RowStep, RowKept, Zenon DEF SpendInv
  <1>2. ASSUME NEW r \in Slots, AbortVtxo(r)
        PROVE  row'.state = "aborted"
    BY <1>1, <1>2, Zenon DEF AbortVtxo, TransitionVtxoOperation, In, Row
  <1>3. ASSUME UNCHANGED abortReceipt
        PROVE  row'.state = "aborted"
    BY <1>1, <1>3, Zenon
  <1>4. CASE Next
    BY <1>2, <1>3, <1>4, NextActions
       DEF LoadReserve, LoadAbort, LoadView, LoadExpired, LoadAuthorize, LoadCheckpoints, Load,
           Insert, Expire, CommitSigned, CommitLate, ReplaySigned, BindCheckpoints,
           ReplayCheckpoints, AnswerFromCopy, Query, Promote, SettleRow, Reload, Fail,
           abortExpired, Crash, PassExpiry, OtherCeremony, Report, outVars
  <1> QED
    BY <1>3, <1>4, Zenon DEF vars

(* The counter, the clock's verdict and the Operator's answer keep their   *)
(* types.                                                                  *)
LEMMA ScalarStep ==
    ASSUME SpendInv, [Next]_vars
    PROVE  /\ signCount' \in -1..MaxSignCount /\ expired' \in BOOLEAN
           /\ outcome' \in Outcomes /\ abortReceipt' \in BOOLEAN
  <1>0. /\ signCount \in -1..MaxSignCount /\ expired \in BOOLEAN
        /\ outcome \in Outcomes /\ abortReceipt \in BOOLEAN
    BY Zenon DEF SpendInv, TypeOK
  <1>1. ASSUME NEW r \in Slots, CommitSigned(r)
        PROVE  signCount' \in -1..MaxSignCount
    BY <1>1, CopyAt, SpendAssumption, SMTT(30) DEF CommitSigned, InFlight
  <1>2. signCount' \in -1..MaxSignCount
    <2>1. ASSUME NEW n \in 0..MaxSignCount, OtherCeremony(n)
          PROVE  signCount' \in -1..MaxSignCount
      BY <2>1, SpendAssumption DEF OtherCeremony
    <2>2. CASE Next
      BY <1>0, <1>1, <2>1, <2>2, NextActions
         DEF LoadReserve, LoadAbort, LoadView, LoadExpired, LoadAuthorize, LoadCheckpoints,
             Load, Insert, Expire, AbortVtxo, CommitLate, ReplaySigned, BindCheckpoints,
             ReplayCheckpoints, AnswerFromCopy, Query, Promote, SettleRow, Reload, Fail,
             abortExpired, Crash, PassExpiry, Report, outVars
    <2> QED
      BY <1>0, <2>2, Zenon DEF vars
  <1>3. outcome' \in Outcomes
    <2>1. ASSUME NEW result \in {"finalized", "conflict"}, Report(result)
          PROVE  outcome' \in Outcomes
      BY <2>1, Zenon DEF Report, Outcomes
    <2>2. CASE Next
      BY <1>0, <2>1, <2>2, NextActions, ZenonT(60)
         DEF LoadReserve, LoadAbort, LoadView, LoadExpired, LoadAuthorize, LoadCheckpoints,
             Load, Insert, Expire, AbortVtxo, CommitSigned, CommitLate, ReplaySigned,
             BindCheckpoints, ReplayCheckpoints, AnswerFromCopy, Query, Promote, SettleRow,
             Reload, Fail, abortExpired, Crash, PassExpiry, OtherCeremony, outVars
    <2> QED
      BY <1>0, <2>2, Zenon DEF vars
  <1>4. expired' \in BOOLEAN
    <2>1. ASSUME PassExpiry PROVE expired' \in BOOLEAN
      BY <2>1, Zenon DEF PassExpiry
    <2>2. CASE Next
      BY <1>0, <2>1, <2>2, NextActions, ZenonT(60)
         DEF LoadReserve, LoadAbort, LoadView, LoadExpired, LoadAuthorize, LoadCheckpoints,
             Load, Insert, Expire, AbortVtxo, CommitSigned, CommitLate, ReplaySigned,
             BindCheckpoints, ReplayCheckpoints, AnswerFromCopy, Query, Promote, SettleRow,
             Reload, Fail, abortExpired, Crash, OtherCeremony, Report, outVars
    <2> QED
      BY <1>0, <2>2, Zenon DEF vars
  <1>5. abortReceipt' \in BOOLEAN
    <2>1. CASE Next
      BY <1>0, <2>1, NextActions, ZenonT(60)
         DEF LoadReserve, LoadAbort, LoadView, LoadExpired, LoadAuthorize, LoadCheckpoints,
             Load, Insert, Expire, AbortVtxo, CommitSigned, CommitLate, ReplaySigned,
             BindCheckpoints, ReplayCheckpoints, AnswerFromCopy, Query, Promote, SettleRow,
             Reload, Fail, abortExpired, Crash, PassExpiry, OtherCeremony, Report, outVars
    <2> QED
      BY <1>0, <2>1, Zenon DEF vars
  <1> QED
    BY <1>2, <1>3, <1>4, <1>5, Zenon

(* SpendInv holds initially and every step of every handler keeps it.      *)
LEMMA SpendInvariant == Spec => []SpendInv
  <1>1. Init => SpendInv
    <2> SUFFICES ASSUME Init PROVE SpendInv
      BY Zenon
    <2>1. NoRow \in Rows /\ Shaped(NoRow)
      BY Zenon DEF NoRow, Row, Rows, States, Shaped, Authorized
    <2>2. Idle \in InFlight
      BY <2>1, SpendAssumption DEF Idle, InFlight, Outcomes
    <2>3. signCount \in -1..MaxSignCount /\ outcome \in Outcomes
      BY SpendAssumption DEF Init, Outcomes
    <2>4. TypeOK
      BY <2>1, <2>2, <2>3, Zenon DEF Init, TypeOK
    <2>5. \A r \in Slots : CopyHeld(r)
      BY <2>1, Zenon DEF Init, CopyHeld, Idle, NoRow, Row, CopyState, None
    <2> QED
      BY <2>1, <2>4, <2>5, Zenon DEF Init, SpendInv, OneAuthorizedTransaction, OneCheckpointSet
  <1>2. SpendInv /\ [Next]_vars => SpendInv'
    <2> SUFFICES ASSUME SpendInv, [Next]_vars PROVE SpendInv'
      BY Zenon
    <2>1. /\ RowMove /\ row' \in Rows /\ Shaped(row)'
      BY RowStep, RowKept, Zenon
    <2>2. psbtsOut' \subseteq Transactions /\ checkpointsOut' \subseteq Checkpoints
      BY AnswerStep, Zenon DEF SpendInv, TypeOK
    <2>3. TypeOK'
      BY <2>1, <2>2, RequestStep, ScalarStep, Zenon DEF TypeOK
    <2>4. OneAuthorizedTransaction'
      <3> SUFFICES ASSUME NEW t \in psbtsOut'
                   PROVE  row'.tx = t /\ row'.state \in Authorized
        BY Zenon DEF OneAuthorizedTransaction, Authorized
      <3>1. CASE t \in psbtsOut
        BY <2>1, <3>1, RowKept, Zenon DEF SpendInv, OneAuthorizedTransaction, Authorized
      <3> QED
        BY <3>1, AnswerStep, Zenon
    <2>5. OneCheckpointSet'
      <3> SUFFICES ASSUME NEW c \in checkpointsOut'
                   PROVE  row'.request = c /\ row'.checkpoints = c
        BY Zenon DEF OneCheckpointSet
      <3>1. CASE c \in checkpointsOut
        <4>1. row.request = c /\ row.checkpoints = c /\ c # None
          BY <3>1, SpendAssumption, Zenon DEF SpendInv, TypeOK, OneCheckpointSet
        <4> QED
          BY <2>1, <4>1, RowKept, Zenon
      <3> QED
        BY <3>1, AnswerStep, Zenon
    <2> QED
      BY <2>1, <2>3, <2>4, <2>5, RequestStep, ReceiptStep, Zenon DEF SpendInv
  <1> QED
    BY <1>1, <1>2, PTL DEF Spec

(* Every field of the row, of the copies in flight and of the answers      *)
(* keeps its type.                                                         *)
THEOREM SpendTypes == Spec => []TypeOK
  <1>1. SpendInv => TypeOK
    BY Zenon DEF SpendInv
  <1> QED
    BY <1>1, SpendInvariant, PTL

(* The Guardian signs one transaction per payment: concurrent              *)
(* authorizations, replays, status answers from stale copies and crashes   *)
(* never let a second one out (AuthorizeVtxoSpend).                        *)
THEOREM OneTransactionSigned == Spec => []OneAuthorizedTransaction
  <1>1. SpendInv => OneAuthorizedTransaction
    BY Zenon DEF SpendInv
  <1> QED
    BY <1>1, SpendInvariant, PTL

(* The Guardian signs one checkpoint set per payment                       *)
(* (AuthorizeVtxoCheckpoints), also when a status query submits the row.   *)
THEOREM OneCheckpointSetSigned == Spec => []OneCheckpointSet
  <1>1. SpendInv => OneCheckpointSet
    BY Zenon DEF SpendInv
  <1> QED
    BY <1>1, SpendInvariant, PTL

(* An abort that was acknowledged (AbortVtxoSpend) is final: no signature  *)
(* of the payment is out or ever will be.                                  *)
THEOREM AcknowledgedAbortIsFinal == Spec => []AbortIsFinal
  <1>1. SpendInv => AbortIsFinal
    BY Zenon DEF SpendInv, AbortIsFinal, OneAuthorizedTransaction
  <1> QED
    BY <1>1, SpendInvariant, PTL

(* No stale copy overwrites what another handler recorded, although the    *)
(* swap of TransitionVtxoOperation compares the state only.                *)
THEOREM RecordedArtifactsKept == Spec => ArtifactsKept
  <1>1. SpendInv /\ [Next]_vars =>
           [/\ row.tx # None => row'.tx = row.tx
            /\ row.request # None =>
                 row'.request = row.request /\ row'.checkpoints = row.checkpoints]_vars
    <2> SUFFICES ASSUME SpendInv, [Next]_vars
                 PROVE  /\ row.tx # None => row'.tx = row.tx
                        /\ row.request # None =>
                             row'.request = row.request /\ row'.checkpoints = row.checkpoints
      BY Zenon
    <2>1. row.tx # None => row.state \in Authorized
      BY Zenon DEF SpendInv, Shaped
    <2> QED
      BY <2>1, RowStep, RowKept, Zenon
  <1> QED
    BY <1>1, SpendInvariant, PTL DEF Spec, ArtifactsKept
-----------------------------------------------------------------------------
(* The refinement of the fence.                                            *)

(* A row ends as finalized or unresolved only by the swap of a request     *)
(* that was told so.                                                       *)
LEMMA RecordedAsSeen ==
    ASSUME SpendInv, [Next]_vars, row' # row, row'.state \in {"finalized", "unresolved"}
    PROVE  /\ outcome' = outcome
           /\ \E r \in Slots : /\ req[r].step = "settle"
                               /\ row'.state = IF req[r].seen = "conflict" THEN "unresolved"
                                               ELSE "finalized"
  <1>0. Next
    BY Zenon DEF vars
  <1>1. ASSUME NEW r \in Slots,
               \/ Insert(r) \/ Expire(r) \/ AbortVtxo(r) \/ CommitSigned(r)
               \/ BindCheckpoints(r) \/ Promote(r)
        PROVE  FALSE
    BY <1>1 DEF Insert, Expire, AbortVtxo, CommitSigned, BindCheckpoints, Promote, Reserved,
       TransitionVtxoOperation, In, Row
  <1>2. ~abortExpired
    BY DEF abortExpired, In, Row
  <1>3. ASSUME NEW r \in Slots, SettleRow(r)
        PROVE  /\ outcome' = outcome /\ req[r].step = "settle"
               /\ row'.state = IF req[r].seen = "conflict" THEN "unresolved" ELSE "finalized"
    BY <1>3 DEF SettleRow, At, TransitionVtxoOperation, Settled, In, Row
  <1>4. PICK r \in Slots : SettleRow(r)
    BY <1>0, <1>1, <1>2, NextActions
       DEF LoadReserve, LoadAbort, LoadView, LoadExpired, LoadAuthorize, LoadCheckpoints, Load,
           CommitLate, ReplaySigned, AnswerFromCopy, Query, Reload, Fail, ReplayCheckpoints,
           Crash, PassExpiry, OtherCeremony, Report
  <1> QED
    BY <1>3, <1>4, Zenon

(* The Operator reports once, of a payment that was authorized or whose    *)
(* coins have gone elsewhere; no handler changes what it reported.         *)
LEMMA ReportedOnce ==
    ASSUME SpendInv, [Next]_vars
    PROVE  \/ outcome' = outcome
           \/ /\ outcome = "pending" /\ outcome' \in {"finalized", "conflict"}
              /\ outcome' = "finalized" => row.state \in Authorized
              /\ UNCHANGED <<row, req>>
  <1>1. ASSUME NEW result \in {"finalized", "conflict"}, Report(result)
        PROVE  /\ outcome = "pending" /\ outcome' \in {"finalized", "conflict"}
               /\ outcome' = "finalized" => row.state \in Authorized
               /\ UNCHANGED <<row, req>>
    BY <1>1 DEF Report, SpendInv, OneAuthorizedTransaction, Authorized
  <1>2. CASE Next
    BY <1>1, <1>2, NextActions, ZenonT(60)
       DEF LoadReserve, LoadAbort, LoadView, LoadExpired, LoadAuthorize, LoadCheckpoints,
           Load, Insert, Expire, AbortVtxo, CommitSigned, CommitLate, ReplaySigned,
           BindCheckpoints, ReplayCheckpoints, AnswerFromCopy, Query, Promote, SettleRow,
           Reload, Fail, abortExpired, Crash, PassExpiry, OtherCeremony
  <1> QED
    BY <1>2, Zenon DEF vars

(* A request sets out to record only what it was told.                     *)
LEMMA SeenStep ==
    ASSUME SpendFenceInv, [Next]_vars, NEW q \in Slots, req'[q].step \in {"promote", "settle"}
    PROVE  \/ req[q].step \in {"promote", "settle"} /\ req'[q].seen = req[q].seen
           \/ req'[q].seen = outcome /\ outcome # "pending"
  <1> DEFINE Good == \/ req[q].step \in {"promote", "settle"} /\ req'[q].seen = req[q].seen
                     \/ req'[q].seen = outcome /\ outcome # "pending"
  <1>0. TypeOK
    BY Zenon DEF SpendFenceInv, SpendInv
  <1>1. ASSUME req'[q] = req[q] PROVE Good
    BY <1>1, Zenon
  <1>2. ASSUME NEW r \in Slots, Done(r) PROVE Good
    <2>1. req'[r] = Idle /\ \A s \in Slots \ {r} : req'[s] = req[s]
      BY <1>0, <1>2, DoneEffect, Zenon
    <2>2. q # r
      BY <2>1 DEF Idle, None
    <2> QED
      BY <1>1, <2>1, <2>2, Zenon
  <1>3. ASSUME NEW r \in Slots, NEW step, NEW t, NEW c, NEW n, Load(r, step, t, c, n),
               step \notin {"promote", "settle"}
        PROVE  Good
    BY <1>0, <1>1, <1>3, Zenon DEF Load, TypeOK
  <1>4. ASSUME NEW r \in Slots, NEW step, NEW snap, NEW seen, Proceed(r, step, snap, seen),
               \/ step \notin {"promote", "settle"}
               \/ req[r].step \in {"promote", "settle"} /\ seen = req[r].seen
               \/ seen = outcome /\ outcome # "pending"
        PROVE  Good
    <2>1. CASE q # r
      BY <1>0, <1>1, <1>4, <2>1, Zenon DEF Proceed, TypeOK
    <2>2. CASE q = r
      <3>1. req'[q].step = step /\ req'[q].seen = seen
        BY <1>0, <1>4, <2>2, Zenon DEF Proceed, TypeOK
      <3> QED
        BY <1>4, <2>2, <3>1, Zenon
    <2> QED
      BY <2>1, <2>2, Zenon
  <1>5. ASSUME NEW r \in Slots, Insert(r) PROVE Good
    BY <1>2, <1>4, <1>5 DEF Insert
  <1>6. ASSUME NEW r \in Slots, Query(r) \/ Promote(r) \/ SettleRow(r) PROVE Good
    BY <1>4, <1>6 DEF Query, Promote, SettleRow, At
  <1>7. ASSUME NEW r \in Slots,
               \/ LoadReserve(r) \/ LoadAbort(r) \/ LoadView(r) \/ LoadExpired(r)
               \/ \E t \in Transactions, n \in 0..MaxSignCount : LoadAuthorize(r, t, n)
               \/ \E c \in Checkpoints : LoadCheckpoints(r, c)
        PROVE  Good
    BY <1>3, <1>7 DEF LoadReserve, LoadAbort, LoadView, LoadExpired, LoadAuthorize,
       LoadCheckpoints
  <1>8. ASSUME Crash PROVE Good
    BY <1>8 DEF Crash, Idle, None
  <1>9. CASE Next
    BY <1>1, <1>2, <1>5, <1>6, <1>7, <1>8, <1>9, NextActions, ZenonT(60)
       DEF Expire, AbortVtxo, CommitSigned, CommitLate, ReplaySigned, BindCheckpoints,
           AnswerFromCopy, Reload, Fail, ReplayCheckpoints, abortExpired, PassExpiry,
           OtherCeremony, Report
  <1> QED
    BY <1>1, <1>9, Zenon DEF vars

(* Every step keeps the row, the requests and the Operator's word in       *)
(* agreement.                                                              *)
LEMMA OutcomeStep ==
    ASSUME SpendFenceInv, [Next]_vars
    PROVE  OutcomeOrder'
  <1>0. SpendInv /\ OutcomeOrder /\ RowMove
    BY RowStep, Zenon DEF SpendFenceInv
  <1>1. outcome # "pending" => outcome' = outcome
    BY <1>0, ReportedOnce, Zenon
  <1>2. ASSUME NEW s \in {"finalized", "unresolved"}, row'.state = s
        PROVE  outcome' = IF s = "finalized" THEN "finalized" ELSE "conflict"
    <2>1. CASE row' = row
      BY <1>0, <1>1, <1>2, <2>1 DEF OutcomeOrder
    <2>2. CASE row' # row
      <3>1. PICK r \in Slots :
               /\ req[r].step = "settle"
               /\ row'.state = IF req[r].seen = "conflict" THEN "unresolved" ELSE "finalized"
        BY <1>0, <1>2, <2>2, RecordedAsSeen, Zenon
      <3>2. outcome' = outcome /\ req[r].seen = outcome /\ outcome \in {"finalized", "conflict"}
        BY <1>0, <1>2, <2>2, <3>1, RecordedAsSeen, Zenon DEF OutcomeOrder, SpendInv, TypeOK, Outcomes
      <3> QED
        BY <1>2, <3>1, <3>2
    <2> QED
      BY <2>1, <2>2, Zenon
  <1>3. outcome' = "finalized" => row'.state \in Authorized
    <2>1. row.state \in Authorized => row'.state \in Authorized
      BY <1>0, RowKept, Zenon
    <2> QED
      BY <1>0, <2>1, ReportedOnce, Zenon DEF OutcomeOrder
  <1>4. ASSUME NEW r \in Slots, req'[r].step \in {"promote", "settle"}
        PROVE  req'[r].seen = outcome' /\ outcome' # "pending"
    BY <1>0, <1>1, <1>4, SeenStep, Zenon DEF OutcomeOrder
  <1> QED
    BY <1>2, <1>3, <1>4 DEF OutcomeOrder

(* SpendFenceInv always holds: no handler records anything but what the    *)
(* Operator reported, however old the copy it works from.                  *)
THEOREM SpendFenceInvariant == Spec => []SpendFenceInv
  <1>1. Init => OutcomeOrder
    BY DEF Init, OutcomeOrder, NoRow, Row, Idle, None
  <1>2. SpendInv /\ SpendInv' /\ OutcomeOrder /\ [Next]_vars => OutcomeOrder'
    BY OutcomeStep, Zenon DEF SpendFenceInv
  <1> QED
    BY <1>1, <1>2, SpendInvariant, PTL DEF Spec, SpendFenceInv

(* What the fence sees of a row in one of the given states.                *)
LEMMA WhenIs ==
    ASSUME NEW states
    PROVE  /\ row.state \in states => When(states) = {Payment}
           /\ row.state \notin states => When(states) = {}
           /\ row'.state \in states => When(states)' = {Payment}
           /\ row'.state \notin states => When(states)' = {}
  BY Zenon DEF When

(* Every step of the handlers, the clock and the Operator is a step of the *)
(* fence or changes nothing there.                                         *)
LEMMA SpendFenceStep ==
    ASSUME SpendFenceInv, [Next]_vars
    PROVE  [Fence!FenceNext]_(Fence!fenceVars)
  <1> DEFINE Holding == {"reserved", "signed", "submitted", "unresolved"}
             GivenUp == {"aborted", "unresolved"}
             executed == IF outcome = "finalized" THEN {Payment} ELSE {}
             Step == [Fence!FenceNext]_(Fence!fenceVars)
  <1>0. SpendInv /\ OutcomeOrder /\ RowMove
    BY RowStep, Zenon DEF SpendFenceInv
  <1>1. ASSUME UNCHANGED <<row, outcome>> PROVE Step
    BY <1>1, Zenon DEF When, Fence!fenceVars
  <1>2. ASSUME outcome' # outcome PROVE Step
    <2>1. /\ outcome = "pending" /\ UNCHANGED row
          /\ outcome' \in {"finalized", "conflict"}
          /\ outcome' = "finalized" => row.state \in Authorized
      BY <1>0, <1>2, ReportedOnce, Zenon
    <2>2. UNCHANGED <<When(Holding), When(Authorized), When(GivenUp)>>
      BY <2>1, Zenon DEF When
    <2>3. CASE outcome' = "conflict"
      <3>1. executed' = executed
        BY <2>1, <2>3
      <3> QED
        BY <2>2, <3>1, Zenon DEF Fence!fenceVars
    <2>4. CASE outcome' = "finalized"
      <3>1. executed' = executed \cup {Payment}
        BY <2>4
      <3>2. row.state \in Authorized /\ row.state \notin GivenUp
        BY <1>0, <2>1, <2>4 DEF OutcomeOrder, Authorized
      <3>3. When(Authorized) = {Payment} /\ When(GivenUp) = {}
        BY <3>2, WhenIs, Zenon
      <3>4. Fence!Execute(Payment)
        BY <2>2, <3>1, <3>3, Zenon DEF Fence!Execute
      <3> QED
        BY <3>4, Zenon DEF Fence!FenceNext
    <2> QED
      BY <2>1, <2>3, <2>4, Zenon
  <1>3. ASSUME outcome' = outcome, row.state = "absent", row'.state = "reserved" PROVE Step
    <2>1. /\ When(Holding) = {} /\ When(Authorized) = {} /\ When(GivenUp) = {}
          /\ When(Holding)' = {Payment} /\ When(Authorized)' = {} /\ When(GivenUp)' = {}
      BY <1>3, WhenIs DEF Authorized
    <2>2. executed' = executed
      BY <1>3, Zenon
    <2>3. Fence!Acquire(Payment)
      BY <2>1, <2>2 DEF Fence!Acquire
    <2> QED
      BY <2>3, Zenon DEF Fence!FenceNext
  <1>4. ASSUME outcome' = outcome, row.state = "reserved", row'.state = "signed" PROVE Step
    <2>1. /\ When(Holding) = {Payment} /\ When(Authorized) = {} /\ When(GivenUp) = {}
          /\ When(Holding)' = {Payment} /\ When(Authorized)' = {Payment} /\ When(GivenUp)' = {}
      BY <1>4, WhenIs DEF Authorized
    <2>2. executed' = executed
      BY <1>4, Zenon
    <2>3. Fence!Commit(Payment)
      BY <2>1, <2>2 DEF Fence!Commit
    <2> QED
      BY <2>3, Zenon DEF Fence!FenceNext
  <1>5. ASSUME outcome' = outcome, row.state = "reserved", row'.state = "aborted" PROVE Step
    <2>1. /\ When(Holding) = {Payment} /\ When(Authorized) = {} /\ When(GivenUp) = {}
          /\ When(Holding)' = {} /\ When(Authorized)' = {} /\ When(GivenUp)' = {Payment}
      BY <1>5, WhenIs DEF Authorized
    <2>2. executed' = executed /\ Payment \notin executed
      BY <1>0, <1>5 DEF OutcomeOrder, Authorized
    <2>3. Fence!GiveUp(Payment)
      BY <2>1, <2>2 DEF Fence!GiveUp
    <2> QED
      BY <2>3, Zenon DEF Fence!FenceNext
  <1>6. ASSUME outcome' = outcome, row.state = "signed", row'.state = "submitted" PROVE Step
    <2>1. UNCHANGED <<When(Holding), When(Authorized), When(GivenUp)>>
      BY <1>6 DEF When, Authorized
    <2>2. executed' = executed
      BY <1>6, Zenon
    <2> QED
      BY <2>1, <2>2, Zenon DEF Fence!fenceVars
  <1>7. ASSUME row.state = "submitted", row' # row, row'.state \in {"finalized", "unresolved"}
        PROVE  Step
    <2>0. outcome' = outcome /\ OutcomeOrder'
      BY <1>0, <1>7, RecordedAsSeen, OutcomeStep, Zenon
    <2>1. /\ When(Holding) = {Payment} /\ When(Authorized) = {Payment} /\ When(GivenUp) = {}
          /\ When(Authorized)' = {Payment} /\ executed' = executed
      BY <1>7, <2>0, WhenIs DEF Authorized
    <2>2. CASE row'.state = "finalized"
      <3>1. When(Holding)' = {} /\ When(GivenUp)' = {}
        BY <2>2, WhenIs
      <3>2. Payment \in executed
        BY <2>0, <2>2, Zenon DEF OutcomeOrder
      <3>3. Fence!Complete(Payment)
        BY <2>1, <3>1, <3>2 DEF Fence!Complete
      <3> QED
        BY <3>3, Zenon DEF Fence!FenceNext
    <2>3. CASE row'.state = "unresolved"
      <3>1. When(Holding)' = {Payment} /\ When(GivenUp)' = {Payment}
        BY <2>3, WhenIs
      <3>2. Payment \notin executed
        BY <2>0, <2>3 DEF OutcomeOrder
      <3>3. Fence!GiveUp(Payment)
        BY <2>1, <3>1, <3>2 DEF Fence!GiveUp
      <3> QED
        BY <3>3, Zenon DEF Fence!FenceNext
    <2> QED
      BY <1>7, <2>2, <2>3, Zenon
  <1>8. CASE outcome' = outcome
    <2>1. ASSUME row.state = "submitted", NEW s \in {"finalized", "unresolved"}, row' = In(row, s)
          PROVE  row' # row /\ row'.state = s
      BY <2>1 DEF In, Row
    <2>2. \/ row' = row
          \/ row.state = "absent" /\ row'.state = "reserved"
          \/ row.state = "reserved" /\ row'.state \in {"signed", "aborted"}
          \/ row.state = "signed" /\ row'.state = "submitted"
          \/ row.state = "submitted" /\ row' # row /\ row'.state \in {"finalized", "unresolved"}
      BY <1>0, <2>1 DEF RowMove, Reserved, Row
    <2>3. CASE row.state = "reserved" /\ row'.state \in {"signed", "aborted"}
      BY <1>4, <1>5, <1>8, <2>3
    <2>4. CASE row' = row
      BY <1>1, <1>8, <2>4, Zenon
    <2> QED
      BY <1>3, <1>6, <1>7, <1>8, <2>2, <2>3, <2>4, Zenon
  <1> QED
    BY <1>2, <1>8, Zenon

(* The handlers of an Ark payment, working from copies of any age, with    *)
(* the Operator and the clock, implement the abstract fence: a vault is    *)
(* given back only once the payment was executed or can never be           *)
(* (AuthorizeVtxoSpend, AbortVtxoSpend, promoteSubmittedVtxo).             *)
THEOREM HandlersImplementFence == Spec => ImplementsFence
  <1>1. Init => Fence!FenceInit
    <2> SUFFICES ASSUME Init PROVE Fence!FenceInit
      BY Zenon
    <2>1. row.state = "absent" /\ outcome = "pending"
      BY Zenon DEF Init, NoRow, Row
    <2> QED
      BY <2>1 DEF Fence!FenceInit, When, Authorized
  <1>2. SpendFenceInv /\ [Next]_vars => [Fence!FenceNext]_(Fence!fenceVars)
    BY SpendFenceStep, Zenon
  <1> QED
    BY <1>1, <1>2, SpendFenceInvariant, PTL DEF Spec, ImplementsFence, Fence!FenceSpec
=============================================================================
