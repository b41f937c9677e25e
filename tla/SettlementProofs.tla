-------------------------- MODULE SettlementProofs --------------------------
(***************************************************************************)
(* Proofs about Settlement, for every set of instructions, of workers and  *)
(* of row kinds: type correctness, the inductive invariant IInv, the safety*)
(* properties it implies, the life cycle of a status, and that the engine  *)
(* implements SettlementOutcome.                                           *)
(***************************************************************************)
EXTENDS Settlement, SequenceTheorems, TLAPS

-----------------------------------------------------------------------------
(* The state space is typed: every action of Settlement keeps TypeOK.      *)
THEOREM TypeCorrect == Spec => []TypeOK
<1> USE DEF Statuses, ChainStates, TxOpen, OnChainSteps, Executing, PCs
<1>1. Init => TypeOK
  <2> SUFFICES ASSUME Init PROVE TypeOK
    OBVIOUS
  <2> QED  BY DEF Init, TypeOK
<1>2. TypeOK /\ [Next]_vars => TypeOK'
  <2> SUFFICES ASSUME TypeOK, [Next]_vars PROVE TypeOK'
    OBVIOUS
  <2> USE DEF TypeOK, database, chainVars, Goto, Record
  <2>1. ASSUME NEW w \in Workers, Settle(w) PROVE TypeOK'
    <3>1. CASE SkipDuplicate(w)      BY <3>1 DEF SkipDuplicate
    <3>2. CASE InsertMarker(w)       BY <3>2 DEF InsertMarker
    <3>3. CASE SelectPending(w)      BY <3>3 DEF SelectPending
    <3>4. CASE SettleCash(w)
      <4>1. /\ status' \in [Instructions -> Statuses]
            /\ posted' \in [Instructions -> Nat]
            /\ announced' \in [Instructions ->
                    Seq({"settlement.completed", "settlement.failed"})]
        BY <3>4 DEF SettleCash, PostJournal, emit_settlement_event
      <4>2. audit' \in [Instructions -> Seq(SUBSET (Statuses \X Statuses))]
        BY <3>4 DEF SettleCash
      <4>3. /\ processed' \subseteq Instructions
            /\ pc' \in [Workers -> PCs]
            /\ UNCHANGED <<row, acked, chain, submits, job>>
        BY <3>4 DEF SettleCash, MarkProcessed
      <4> QED  BY <4>1, <4>2, <4>3
    <3>5. CASE RejectPending(w)
      BY <3>5 DEF RejectPending, MarkProcessed, fail_instruction,
                  emit_settlement_event
    <3>6. CASE UnknownChain(w)       BY <3>6 DEF UnknownChain
    <3>7. CASE Approve(w)
      BY <3>7 DEF Approve, MarkProcessed, advance_status
    <3>8. CASE Sign(w)               BY <3>8 DEF Sign, advance_status
    <3>9. CASE Submit(w)            BY <3>9 DEF Submit, Accept
    <3>10. CASE RecordBroadcast(w)
      BY <3>10 DEF RecordBroadcast, advance_status
    <3>11. CASE FinalizeDvp(w)
      BY <3>11 DEF FinalizeDvp, PostJournal, advance_status,
                   emit_settlement_event
    <3>12. CASE FinalizeZeroAmount(w)  BY <3>12 DEF FinalizeZeroAmount
    <3>13. CASE GiveUp(w)
      BY <3>13 DEF GiveUp, fail_instruction, emit_settlement_event
    <3>14. CASE DvpException(w)
      <4>1. /\ chain' \in [Instructions -> ChainStates]
            /\ submits' \in [Instructions -> Nat]
        <5>1. CASE UNCHANGED chainVars  BY <5>1
        <5>2. CASE Accept(job[w])       BY <5>2 DEF Accept
        <5> QED  BY <3>14, <5>1, <5>2 DEF DvpException
      <4>2. /\ status' \in [Instructions -> Statuses]
            /\ audit' \in
                 [Instructions -> Seq(SUBSET (Statuses \X Statuses))]
            /\ announced' \in [Instructions ->
                    Seq({"settlement.completed", "settlement.failed"})]
        BY <3>14 DEF DvpException, ExceptionStatus, fail_instruction,
                     emit_settlement_event
      <4> QED  BY <3>14, <4>1, <4>2 DEF DvpException
    <3>15. CASE Ack(w)               BY <3>15 DEF Ack
    <3> QED
      BY <2>1, <3>1, <3>2, <3>3, <3>4, <3>5, <3>6, <3>7,
         <3>8, <3>9, <3>10, <3>11, <3>12, <3>13, <3>14, <3>15 DEF Settle
  <2>2. ASSUME NEW w \in Workers, Fault(w) PROVE TypeOK'
    BY <2>2 DEF Fault, DbError, Crash
  <2>3. ASSUME NEW w \in Workers, NEW i \in Instructions, Poll(w, i)
        PROVE TypeOK'
    BY <2>3 DEF Poll
  <2>4. ASSUME NEW i \in Instructions, ChainStep(i) PROVE TypeOK'
    BY <2>4 DEF ChainStep
  <2>5. CASE UNCHANGED vars
    BY <2>5 DEF vars
  <2> QED  BY <2>1, <2>2, <2>3, <2>4, <2>5 DEF Next
<1> QED  BY <1>1, <1>2, PTL DEF Spec

(* The first row of an empty table. *)
LEMMA AppendToEmpty == ASSUME NEW x PROVE Append(<<>>, x) = <<x>>
  OBVIOUS

(* A worker starts to execute an instruction only when nobody else does. *)
LEMMA SoleExecutorStep ==
    IInv /\ [Next]_vars => SoleExecutor'
<1> SUFFICES ASSUME IInv, [Next]_vars PROVE SoleExecutor'
  OBVIOUS
<1> USE DEF IInv, TypeOK, database, chainVars, Goto, TxOpen, OnChainSteps,
            Executing, SoleExecutor, WorkerInv
<1>1. ASSUME NEW w \in Workers, Settle(w) PROVE SoleExecutor'
  <2>1. CASE SkipDuplicate(w)
    BY <2>1 DEF SkipDuplicate
  <2>2. CASE InsertMarker(w)
    BY <2>2 DEF InsertMarker
  <2>3. CASE SelectPending(w)
    BY <2>3 DEF SelectPending
  <2>4. CASE SettleCash(w)
    BY <2>4, SMTT(20) DEF SettleCash
  <2>5. CASE RejectPending(w)
    BY <2>5 DEF RejectPending
  <2>6. CASE UnknownChain(w)
    BY <2>6 DEF UnknownChain
  <2>7. CASE Approve(w)
    BY <2>7 DEF Approve
  <2>8. CASE Sign(w)
    BY <2>8 DEF Sign
  <2>9. CASE Submit(w)
    BY <2>9 DEF Submit
  <2>10. CASE RecordBroadcast(w)
    BY <2>10 DEF RecordBroadcast
  <2>11. CASE FinalizeDvp(w)
    BY <2>11 DEF FinalizeDvp
  <2>12. CASE FinalizeZeroAmount(w)
    BY <2>12 DEF FinalizeZeroAmount
  <2>13. CASE GiveUp(w)
    BY <2>13 DEF GiveUp
  <2>14. CASE DvpException(w)
    BY <2>14 DEF DvpException
  <2>15. CASE Ack(w)
    BY <2>15 DEF Ack
  <2> QED
    BY <1>1, <2>1, <2>2, <2>3, <2>4, <2>5, <2>6, <2>7,
       <2>8, <2>9, <2>10, <2>11, <2>12, <2>13, <2>14, <2>15 DEF Settle
<1>2. ASSUME NEW w \in Workers, Fault(w) PROVE SoleExecutor'
  <2>1. pc'[w] \notin Executing /\ job' = job
    BY <1>2 DEF Fault, DbError, Crash
  <2>2. \A v \in Workers \ {w} : pc'[v] = pc[v]
    BY <1>2 DEF Fault, DbError, Crash
  <2>3. \A u, v \in Workers \ {w} :
          pc[u] \in Executing /\ pc[v] \in Executing /\ job[u] = job[v] => u = v
    OBVIOUS
  <2> HIDE DEF IInv, TypeOK, WorkerInv, Executing
  <2> QED  BY <2>1, <2>2, <2>3
<1>3. ASSUME NEW w \in Workers, NEW i \in Instructions, Poll(w, i)
      PROVE SoleExecutor'
  BY <1>3 DEF Poll
<1>4. ASSUME NEW i \in Instructions, ChainStep(i) PROVE SoleExecutor'
  BY <1>4 DEF ChainStep
<1>5. CASE UNCHANGED vars
  BY <1>5 DEF vars
<1> QED  BY <1>1, <1>2, <1>3, <1>4, <1>5 DEF Next


(* No step of another worker falsifies what a worker relies on. *)
LEMMA WorkerStep ==
    IInv /\ [Next]_vars => (\A v \in Workers : WorkerInv(v))'
<1> SUFFICES ASSUME IInv, [Next]_vars PROVE (\A v \in Workers : WorkerInv(v))'
  OBVIOUS
<1> USE DEF IInv, TypeOK, database, chainVars, Goto, TxOpen, OnChainSteps,
            Executing, SoleExecutor, WorkerInv
<1>1. ASSUME NEW w \in Workers, Settle(w)
      PROVE (\A v \in Workers : WorkerInv(v))'
  <2>1. CASE SkipDuplicate(w)
    BY <2>1 DEF SkipDuplicate
  <2>2. CASE InsertMarker(w)
    BY <2>2 DEF InsertMarker
  <2>3. CASE SelectPending(w)
    BY <2>3 DEF SelectPending
  <2>4. CASE SettleCash(w)
    BY <2>4 DEF SettleCash, MarkProcessed, PostJournal, emit_settlement_event
  <2>5. CASE RejectPending(w)
    BY <2>5 DEF RejectPending, MarkProcessed, fail_instruction,
       emit_settlement_event
  <2>6. CASE UnknownChain(w)
    BY <2>6 DEF UnknownChain
  <2>7. CASE Approve(w)
    <3> DEFINE i == job[w]
    <3>1. status[i] = "pending" /\ submits[i] = 0 /\ i \in Instructions
      BY <2>7 DEF Approve, RowInv
    <3>2. \A v \in Workers \ {w} : pc[v] \in Executing => job[v] # i
      BY <2>7 DEF Approve
    <3>3. ASSUME NEW v \in Workers \ {w} PROVE WorkerInv(v)'
      BY <2>7, <3>2, <3>3 DEF Approve, MarkProcessed, advance_status
    <3>4. WorkerInv(w)'
      BY <2>7, <3>1 DEF Approve, MarkProcessed, advance_status
    <3> QED  BY <3>3, <3>4
  <2>8. CASE Sign(w)
    BY <2>8 DEF Sign, advance_status
  <2>9. CASE Submit(w)
    BY <2>9 DEF Submit, Accept
  <2>10. CASE RecordBroadcast(w)
    BY <2>10 DEF RecordBroadcast, advance_status
  <2>11. CASE FinalizeDvp(w)
    BY <2>11 DEF FinalizeDvp, PostJournal, advance_status,
       emit_settlement_event, ReportedConfirmed
  <2>12. CASE FinalizeZeroAmount(w)
    BY <2>12 DEF FinalizeZeroAmount
  <2>13. CASE GiveUp(w)
    BY <2>13 DEF GiveUp, fail_instruction, emit_settlement_event
  <2>14. CASE DvpException(w)
    BY <2>14 DEF DvpException, Accept, ExceptionStatus, fail_instruction,
       emit_settlement_event
  <2>15. CASE Ack(w)
    BY <2>15 DEF Ack
  <2> QED
    BY <1>1, <2>1, <2>2, <2>3, <2>4, <2>5, <2>6, <2>7,
       <2>8, <2>9, <2>10, <2>11, <2>12, <2>13, <2>14, <2>15 DEF Settle
<1>2. ASSUME NEW w \in Workers, Fault(w)
      PROVE (\A v \in Workers : WorkerInv(v))'
  BY <1>2 DEF Fault, DbError, Crash
<1>3. ASSUME NEW w \in Workers, NEW i \in Instructions, Poll(w, i)
      PROVE (\A v \in Workers : WorkerInv(v))'
  BY <1>3 DEF Poll
<1>4. ASSUME NEW i \in Instructions, ChainStep(i)
      PROVE (\A v \in Workers : WorkerInv(v))'
  BY <1>4 DEF ChainStep
<1>5. CASE UNCHANGED vars
  BY <1>5 DEF vars
<1> QED  BY <1>1, <1>2, <1>3, <1>4, <1>5 DEF Next


(* Every commit leaves the rows of each instruction in agreement. *)
LEMMA RowStep ==
    IInv /\ [Next]_vars => (\A j \in Instructions : RowInv(j))'
<1> SUFFICES ASSUME IInv, [Next]_vars
             PROVE (\A j \in Instructions : RowInv(j))'
  OBVIOUS
<1> USE DEF IInv, TypeOK, database, chainVars, Goto, TxOpen, OnChainSteps,
            Executing, WorkerInv, RowInv, Due
<1>1. ASSUME NEW w \in Workers, Settle(w)
      PROVE (\A j \in Instructions : RowInv(j))'
  <2>1. CASE SkipDuplicate(w)
    BY <2>1 DEF SkipDuplicate
  <2>2. CASE InsertMarker(w)
    BY <2>2 DEF InsertMarker
  <2>3. CASE SelectPending(w)
    BY <2>3 DEF SelectPending
  <2>4. CASE SettleCash(w)
    <3>1. PICK i \in Instructions : i = job[w]
      OBVIOUS
    <3>0. status[i] = "pending"
      BY <2>4, <3>1 DEF SettleCash
    <3>2. ASSUME NEW j \in Instructions, j # i PROVE RowInv(j)'
      BY <2>4, <3>1, <3>2 DEF SettleCash, MarkProcessed, PostJournal,
         emit_settlement_event
    <3>3. RowInv(i)'
      <4>1. announced'[i] = <<"settlement.completed">>
        <5>1. announced[i] = <<>>
          BY <3>0
        <5>2. announced'[i] = Append(announced[i], "settlement.completed")
          BY <2>4, <3>1, <3>0 DEF SettleCash, MarkProcessed, PostJournal,
             emit_settlement_event
        <5> QED  BY <5>1, <5>2, AppendToEmpty
      <4>2. status'[i] = "confirmed"
        BY <2>4, <3>1, <3>0 DEF SettleCash, MarkProcessed, PostJournal,
           emit_settlement_event
      <4>3. posted'[i] = Due(i)
        <5>1. row[i] \in RowType /\ posted[i] = 0
          BY <3>0, RowsAssumption
        <5>2. posted' = [posted EXCEPT ![i] = @ + IF row[i].positive THEN 1
                                                 ELSE 0]
          BY <2>4, <3>1 DEF SettleCash, PostJournal
        <5>3. row' = row /\ row[i].type = "cash" /\ row[i].accounts
          BY <2>4, <3>1 DEF SettleCash
        <5>4. posted'[i] = IF row[i].positive THEN 1 ELSE 0
          BY <5>1, <5>2
        <5> HIDE DEF RowInv, IInv, TypeOK
        <5> QED
          BY <5>1, <5>3, <5>4 DEF RowType
      <4> QED  BY <2>4, <3>1, <3>0, <4>1, <4>2, <4>3 DEF SettleCash,
              MarkProcessed, PostJournal, emit_settlement_event
    <3> HIDE DEF RowInv, Due
    <3> QED  BY <3>1, <3>2, <3>3
  <2>5. CASE RejectPending(w)
    <3>1. PICK i \in Instructions : i = job[w]
      OBVIOUS
    <3>0. status[i] = "pending"
      BY <2>5, <3>1 DEF RejectPending
    <3>2. ASSUME NEW j \in Instructions, j # i PROVE RowInv(j)'
      BY <2>5, <3>1, <3>2 DEF RejectPending, MarkProcessed, fail_instruction,
         emit_settlement_event
    <3>3. RowInv(i)'
      <4>1. announced'[i] = <<"settlement.failed">>
        <5>1. announced[i] = <<>>
          BY <3>0
        <5>2. announced'[i] = Append(announced[i], "settlement.failed")
          BY <2>5, <3>1, <3>0 DEF RejectPending, MarkProcessed,
             fail_instruction, emit_settlement_event
        <5> QED  BY <5>1, <5>2, AppendToEmpty
      <4>2. status'[i] = "failed"
        BY <2>5, <3>1, <3>0 DEF RejectPending, MarkProcessed,
           fail_instruction, emit_settlement_event
      <4>3. posted'[i] = 0
        BY <2>5, <3>1, <3>0, RowsAssumption DEF RejectPending, MarkProcessed,
           fail_instruction, emit_settlement_event, RowType
      <4> QED  BY <2>5, <3>1, <3>0, <4>1, <4>2, <4>3 DEF RejectPending,
              MarkProcessed, fail_instruction, emit_settlement_event
    <3> HIDE DEF RowInv, Due
    <3> QED  BY <3>1, <3>2, <3>3
  <2>6. CASE UnknownChain(w)
    BY <2>6 DEF UnknownChain
  <2>7. CASE Approve(w)
    BY <2>7 DEF Approve, MarkProcessed, advance_status
  <2>8. CASE Sign(w)
    BY <2>8 DEF Sign, advance_status
  <2>9. CASE Submit(w)
    BY <2>9 DEF Submit, Accept
  <2>10. CASE RecordBroadcast(w)
    BY <2>10 DEF RecordBroadcast, advance_status
  <2>11. CASE FinalizeDvp(w)
    <3>1. PICK i \in Instructions : i = job[w]
      OBVIOUS
    <3>0. status[i] = "broadcasted"
      BY <2>11, <3>1 DEF FinalizeDvp
    <3>2. ASSUME NEW j \in Instructions, j # i PROVE RowInv(j)'
      BY <2>11, <3>1, <3>2 DEF FinalizeDvp, PostJournal, advance_status,
         emit_settlement_event, ReportedConfirmed
    <3>3. RowInv(i)'
      <4>1. announced'[i] = <<"settlement.completed">>
        <5>1. announced[i] = <<>>
          BY <3>0
        <5>2. announced'[i] = Append(announced[i], "settlement.completed")
          BY <2>11, <3>1, <3>0 DEF FinalizeDvp, PostJournal, advance_status,
             emit_settlement_event, ReportedConfirmed
        <5> QED  BY <5>1, <5>2, AppendToEmpty
      <4>2. status'[i] = "confirmed"
        BY <2>11, <3>1, <3>0 DEF FinalizeDvp, PostJournal, advance_status,
           emit_settlement_event, ReportedConfirmed
      <4>3. posted'[i] = Due(i)
        <5>1. posted[i] = 0
          BY <3>0
        <5>2. posted'[i] = posted[i] + (IF row[i].accounts THEN 1 ELSE 0)
          BY <2>11, <3>1 DEF FinalizeDvp, PostJournal
        <5>3. row[i].accounts => row[i].positive
          BY <2>11, <3>1 DEF FinalizeDvp
        <5>4. CASE row[i].accounts
          BY <5>1, <5>2, <5>3, <5>4
        <5>5. CASE ~row[i].accounts
          BY <5>1, <5>2, <5>5
        <5> QED  BY <5>4, <5>5
      <4> QED  BY <2>11, <3>1, <3>0, <4>1, <4>2, <4>3 DEF FinalizeDvp,
              PostJournal, advance_status, emit_settlement_event,
              ReportedConfirmed
    <3> HIDE DEF RowInv, Due
    <3> QED  BY <3>1, <3>2, <3>3
  <2>12. CASE FinalizeZeroAmount(w)
    BY <2>12 DEF FinalizeZeroAmount
  <2>13. CASE GiveUp(w)
    <3>1. PICK i \in Instructions : i = job[w]
      OBVIOUS
    <3>0. status[i] = "broadcasted"
      BY <2>13, <3>1 DEF GiveUp
    <3>2. ASSUME NEW j \in Instructions, j # i PROVE RowInv(j)'
      BY <2>13, <3>1, <3>2 DEF GiveUp, fail_instruction, emit_settlement_event
    <3>3. RowInv(i)'
      <4>1. announced'[i] = <<"settlement.failed">>
        <5>1. announced[i] = <<>>
          BY <3>0
        <5>2. announced'[i] = Append(announced[i], "settlement.failed")
          BY <2>13, <3>1, <3>0 DEF GiveUp, fail_instruction,
             emit_settlement_event
        <5> QED  BY <5>1, <5>2, AppendToEmpty
      <4>2. status'[i] = "failed"
        BY <2>13, <3>1, <3>0 DEF GiveUp, fail_instruction,
           emit_settlement_event
      <4>3. posted'[i] = 0
        BY <2>13, <3>1, <3>0, RowsAssumption DEF GiveUp, fail_instruction,
           emit_settlement_event, RowType
      <4> QED  BY <2>13, <3>1, <3>0, <4>1, <4>2, <4>3 DEF GiveUp,
              fail_instruction, emit_settlement_event
    <3> HIDE DEF RowInv, Due
    <3> QED  BY <3>1, <3>2, <3>3
  <2>14. CASE DvpException(w)
    <3>1. PICK i \in Instructions : i = job[w]
      OBVIOUS
    <3>0. status[i] \in {"approved", "signed", "broadcasted"}
      BY <2>14, <3>1 DEF DvpException
    <3>2. ASSUME NEW j \in Instructions, j # i PROVE RowInv(j)'
      BY <2>14, <3>1, <3>2 DEF DvpException, Accept, ExceptionStatus,
         fail_instruction, emit_settlement_event
    <3>3. RowInv(i)'
      <4>1. announced'[i] = <<"settlement.failed">>
        <5>1. announced[i] = <<>>
          BY <3>0
        <5>2. announced'[i] = Append(announced[i], "settlement.failed")
          BY <2>14, <3>1, <3>0 DEF DvpException, Accept, ExceptionStatus,
             fail_instruction, emit_settlement_event
        <5> QED  BY <5>1, <5>2, AppendToEmpty
      <4>2. status'[i] = "failed"
        BY <2>14, <3>1, <3>0 DEF DvpException, Accept, ExceptionStatus,
           fail_instruction, emit_settlement_event
      <4>3. posted'[i] = 0
        BY <2>14, <3>1, <3>0, RowsAssumption DEF DvpException, Accept,
           ExceptionStatus, fail_instruction, emit_settlement_event, RowType
      <4> QED  BY <2>14, <3>1, <3>0, <4>1, <4>2, <4>3 DEF DvpException,
              Accept, ExceptionStatus, fail_instruction, emit_settlement_event
    <3> HIDE DEF RowInv, Due
    <3> QED  BY <3>1, <3>2, <3>3
  <2>15. CASE Ack(w)
    BY <2>15 DEF Ack
  <2> QED
    BY <1>1, <2>1, <2>2, <2>3, <2>4, <2>5, <2>6, <2>7,
       <2>8, <2>9, <2>10, <2>11, <2>12, <2>13, <2>14, <2>15 DEF Settle
<1>2. ASSUME NEW w \in Workers, Fault(w)
      PROVE (\A j \in Instructions : RowInv(j))'
  BY <1>2 DEF Fault, DbError, Crash
<1>3. ASSUME NEW w \in Workers, NEW i \in Instructions, Poll(w, i)
      PROVE (\A j \in Instructions : RowInv(j))'
  BY <1>3 DEF Poll
<1>4. ASSUME NEW i \in Instructions, ChainStep(i)
      PROVE (\A j \in Instructions : RowInv(j))'
  BY <1>4 DEF ChainStep
<1>5. CASE UNCHANGED vars
  BY <1>5 DEF vars
<1> QED  BY <1>1, <1>2, <1>3, <1>4, <1>5 DEF Next

(* IInv holds initially. *)
LEMMA InitIInv == Init => IInv
<1> SUFFICES ASSUME Init PROVE IInv
  OBVIOUS
<1>1. TypeOK
  BY DEF Init, TypeOK, Statuses, ChainStates, PCs
<1>2. SoleExecutor
  BY DEF Init, SoleExecutor, Executing, TxOpen, OnChainSteps
<1>3. \A w \in Workers : WorkerInv(w)
  BY DEF Init, WorkerInv, TxOpen, OnChainSteps
<1>4. ASSUME NEW i \in Instructions PROVE RowInv(i)
  <2>1. status[i] = "pending" /\ announced[i] = <<>> /\ posted[i] = 0
    BY DEF Init
  <2>2. submits[i] = 0 /\ chain[i] = "none"
    BY DEF Init
  <2> QED  BY <2>1, <2>2 DEF RowInv
<1> QED  BY <1>1, <1>2, <1>3, <1>4 DEF IInv

(* IInv is an invariant: the four parts keep each other. *)
THEOREM Invariant == Spec => []IInv
<1>1. IInv /\ [Next]_vars /\ TypeOK' => IInv'
  BY SoleExecutorStep, WorkerStep, RowStep DEF IInv
<1> QED  BY <1>1, InitIInv, TypeCorrect, PTL DEF Spec

(* The journal of an instruction exists exactly when it is confirmed, once:*)
(* settler.py posts it in the commit that confirms the instruction.        *)
THEOREM LedgerIsExact == Spec => []LedgerFollowsStatus
<1>1. IInv => LedgerFollowsStatus
  BY DEF IInv, RowInv, LedgerFollowsStatus
<1> QED  BY <1>1, Invariant, PTL

(* No payment in the books without a transaction in a block.               *)
THEOREM PaymentIsAgainstDelivery == Spec => []PaymentAgainstDelivery
<1>1. IInv => PaymentAgainstDelivery
  BY DEF IInv, TypeOK, RowInv, PaymentAgainstDelivery, ChainStates
<1> QED  BY <1>1, Invariant, PTL

(* At most one transaction is sent for an instruction.                     *)
THEOREM SendsOnce == Spec => []SubmittedOnce
<1>1. IInv => SubmittedOnce
  BY DEF IInv, RowInv, SubmittedOnce
<1> QED  BY <1>1, Invariant, PTL

(* At most one worker executes an instruction at a time, for any number of *)
(* instances of the service.                                               *)
THEOREM ExecutesAlone == Spec => []SoleExecutor
<1>1. IInv => SoleExecutor
  BY DEF IInv
<1> QED  BY <1>1, Invariant, PTL

-----------------------------------------------------------------------------
(* VALID_TRANSITIONS, status by status. *)
LEMMA Transitions ==
    /\ VALID_TRANSITIONS["pending"] = {"approved", "failed", "cancelled"}
    /\ VALID_TRANSITIONS["approved"] = {"signed", "failed"}
    /\ VALID_TRANSITIONS["signed"] = {"broadcasted", "failed"}
    /\ VALID_TRANSITIONS["broadcasted"] = {"confirmed", "failed"}
    /\ VALID_TRANSITIONS["confirmed"] = {}
    /\ VALID_TRANSITIONS["failed"] = {}
  BY DEF VALID_TRANSITIONS, Statuses

(* What a commit may do to the status of an instruction.                   *)
LEMMA LeadsOn ==
    /\ \A s \in {"pending", "approved", "signed", "broadcasted"} :
         Leads(s, "failed")
    /\ Leads("pending", "confirmed") /\ Leads("pending", "approved")
    /\ Leads("approved", "signed") /\ Leads("signed", "broadcasted")
    /\ Leads("broadcasted", "confirmed")
<1>1. Leads("pending", "confirmed")
  <2>1. /\ "approved" \in VALID_TRANSITIONS["pending"]
        /\ "signed" \in VALID_TRANSITIONS["approved"]
        /\ "broadcasted" \in VALID_TRANSITIONS["signed"]
        /\ "confirmed" \in VALID_TRANSITIONS["broadcasted"]
    BY Transitions
  <2> QED  BY <2>1 DEF Leads
<1> QED  BY <1>1, Transitions DEF Leads

(* Statuses move along VALID_TRANSITIONS and never leave a terminal one,   *)
(* although fail_instruction itself validates nothing.                     *)
THEOREM LifecycleFollowed == Spec => FollowsLifecycle
<1>1. ASSUME IInv, [Next]_vars
      PROVE  [\A i \in Instructions :
                status'[i] # status[i] => Leads(status[i], status'[i])]_vars
  <2> SUFFICES ASSUME NEW i \in Instructions, status'[i] # status[i]
               PROVE  Leads(status[i], status'[i])
    OBVIOUS
  <2> USE LeadsOn DEF IInv, TypeOK, WorkerInv, OnChainSteps, database,
                      advance_status, fail_instruction
  <2>1. ASSUME NEW w \in Workers, Settle(w)
        PROVE  Leads(status[i], status'[i])
    <3>1. CASE SettleCash(w)
      BY <1>1, <3>1 DEF SettleCash
    <3>2. CASE RejectPending(w)
      BY <1>1, <3>2 DEF RejectPending
    <3>3. CASE Approve(w) \/ Sign(w) \/ RecordBroadcast(w)
      BY <1>1, <3>3 DEF Approve, Sign, RecordBroadcast
    <3>4. CASE FinalizeDvp(w)
      BY <1>1, <3>4 DEF FinalizeDvp
    <3>5. CASE GiveUp(w) \/ DvpException(w)
      BY <1>1, <3>5 DEF GiveUp, DvpException
    <3> QED
      BY <2>1, <3>1, <3>2, <3>3, <3>4, <3>5
         DEF Settle, SkipDuplicate, InsertMarker, SelectPending,
             UnknownChain, Submit, FinalizeZeroAmount, Ack
  <2>2. CASE \E w \in Workers : Fault(w)
    BY <2>2 DEF Fault, DbError, Crash
  <2>3. CASE \E w \in Workers, j \in Instructions : Poll(w, j)
    BY <2>3 DEF Poll
  <2>4. CASE \E j \in Instructions : ChainStep(j)
    BY <2>4 DEF ChainStep
  <2>5. CASE UNCHANGED vars
    BY <2>5 DEF vars
  <2> QED  BY <1>1, <2>1, <2>2, <2>3, <2>4, <2>5 DEF Next
<1> QED  BY <1>1, Invariant, PTL DEF Spec, FollowsLifecycle

-----------------------------------------------------------------------------
(* What a transaction adds to the trail of an instruction.                 *)
LEMMA TrailOfAppend ==
    ASSUME NEW S, NEW s \in Seq(SUBSET S), NEW T \in SUBSET S
    PROVE  /\ Append(s, T) # <<>>
           /\ Append(s, T)[Len(Append(s, T))] = T
           /\ DOMAIN Append(s, T) = DOMAIN s \cup {Len(s) + 1}
           /\ Len(s) + 1 \notin DOMAIN s
           /\ Append(s, T)[Len(s) + 1] = T
           /\ \A n \in DOMAIN s : Append(s, T)[n] = s[n]
  OBVIOUS

(* Rows that enter statuses the trail does not hold yet, each by a legal   *)
(* transition from one it then holds, keep the trail as AuditInv has it.   *)
LEMMA RecordKeeps ==
    ASSUME TypeOK, NEW i \in Instructions, EntersOnce(i), RowsAreLegal(i),
           NEW T \in SUBSET (Statuses \X Statuses), Record(i, T),
           \A r, q \in T : r[2] = q[2] => r = q,
           \A r \in T : /\ r[2] \notin Entered(i)
                        /\ r[1] \in Entered(i) \cup {q[2] : q \in T}
                        /\ r[2] \in VALID_TRANSITIONS[r[1]]
    PROVE  /\ EntersOnce(i)' /\ RowsAreLegal(i)'
           /\ Entered(i)' = Entered(i) \cup {r[2] : r \in T}
           /\ current_entity_status(i)' = {r[2] : r \in T}
<1> DEFINE last == Len(audit[i]) + 1
<1>1. /\ audit[i] \in Seq(SUBSET (Statuses \X Statuses))
      /\ audit'[i] = Append(audit[i], T)
  BY DEF TypeOK, Record
<1>2. /\ audit'[i] # <<>>
      /\ audit'[i][Len(audit'[i])] = T
      /\ DOMAIN audit'[i] = DOMAIN audit[i] \cup {last}
      /\ last \notin DOMAIN audit[i]
      /\ audit'[i][last] = T
      /\ \A n \in DOMAIN audit[i] : audit'[i][n] = audit[i][n]
  <2> DEFINE Possible == Statuses \X Statuses
  <2>1. T \in SUBSET Possible /\ audit[i] \in Seq(SUBSET Possible)
    BY <1>1
  <2> HIDE DEF Possible
  <2>2. /\ Append(audit[i], T) # <<>>
        /\ Append(audit[i], T)[Len(Append(audit[i], T))] = T
        /\ DOMAIN Append(audit[i], T) = DOMAIN audit[i] \cup {last}
        /\ last \notin DOMAIN audit[i]
        /\ Append(audit[i], T)[last] = T
        /\ \A n \in DOMAIN audit[i] : Append(audit[i], T)[n] = audit[i][n]
    BY <2>1, TrailOfAppend
  <2> QED  BY <1>1, <2>2
<1> HIDE DEF last
<1>3. Trail(i)' = Trail(i) \cup T
  BY <1>2 DEF Trail
<1>4. Entered(i)' = Entered(i) \cup {r[2] : r \in T}
  BY <1>3 DEF Entered
<1>5. EntersOnce(i)'
  <2> SUFFICES ASSUME NEW m \in DOMAIN audit'[i], NEW n \in DOMAIN audit'[i],
                      NEW r \in audit'[i][m], NEW q \in audit'[i][n],
                      r[2] = q[2]
               PROVE  m = n /\ r = q
    BY DEF EntersOnce
  <2>1. \A k \in DOMAIN audit[i] : \A z \in audit[i][k] : z[2] \in Entered(i)
    BY DEF Entered, Trail
  <2>2. CASE m \in DOMAIN audit[i] /\ n \in DOMAIN audit[i]
    BY <1>2, <2>2 DEF EntersOnce
  <2>3. CASE m = last /\ n = last
    BY <1>2, <2>3
  <2>4. CASE m = last /\ n \in DOMAIN audit[i]
    BY <1>2, <2>1, <2>4
  <2>5. CASE m \in DOMAIN audit[i] /\ n = last
    BY <1>2, <2>1, <2>5
  <2> QED  BY <1>2, <2>2, <2>3, <2>4, <2>5
<1>6. RowsAreLegal(i)'
  BY <1>3, <1>4 DEF RowsAreLegal
<1>7. current_entity_status(i)' = {r[2] : r \in T}
  BY <1>2 DEF current_entity_status
<1> QED  BY <1>4, <1>5, <1>6, <1>7

(* Nothing changes for an instruction whose rows a step leaves alone.      *)
LEMMA AuditUnchanged ==
    ASSUME NEW i \in Instructions, AuditInv(i), row'[i] = row[i],
           status'[i] = status[i], audit'[i] = audit[i]
    PROVE  AuditInv(i)'
<1>1. Trail(i)' = Trail(i)
  BY DEF Trail
<1>2. Entered(i)' = Entered(i)
  BY <1>1 DEF Entered
<1>3. current_entity_status(i)' = current_entity_status(i)
  BY DEF current_entity_status
<1>4. EntersOnce(i)' = EntersOnce(i)
  BY DEF EntersOnce
<1>5. RowsAreLegal(i)' = RowsAreLegal(i)
  BY <1>1, <1>2 DEF RowsAreLegal
<1> QED  BY <1>2, <1>3, <1>4, <1>5 DEF AuditInv

(* An advance takes the trail one status further. *)
LEMMA AdvanceKeeps ==
    ASSUME TypeOK, NEW i \in Instructions, AuditInv(i), row' = row,
           NEW from, NEW to, status[i] = from, advance_status(i, from, to),
           <<from, to>> \in {<<"pending", "approved">>,
                             <<"approved", "signed">>,
                             <<"signed", "broadcasted">>,
                             <<"broadcasted", "confirmed">>}
    PROVE  AuditInv(i)'
<1> DEFINE T == {<<from, to>>}
<1>1. /\ T \in SUBSET (Statuses \X Statuses)
      /\ {r[2] : r \in T} = {to}
      /\ to \in VALID_TRANSITIONS[from]
  BY Transitions DEF Statuses
<1>2. Entered(i) = Way(from) /\ from \in Way(from) /\ to \notin Way(from)
  BY DEF AuditInv, Way
<1>3. Record(i, T) /\ status'[i] = to
  BY DEF advance_status, TypeOK
<1>4. /\ EntersOnce(i)' /\ RowsAreLegal(i)'
      /\ Entered(i)' = Way(from) \cup {to}
      /\ current_entity_status(i)' = {to}
  <2>1. EntersOnce(i) /\ RowsAreLegal(i)
    BY DEF AuditInv
  <2>2. /\ \A r, q \in T : r[2] = q[2] => r = q
        /\ \A r \in T : /\ r[2] \notin Entered(i)
                        /\ r[1] \in Entered(i) \cup {q[2] : q \in T}
                        /\ r[2] \in VALID_TRANSITIONS[r[1]]
    BY <1>1, <1>2
  <2> HIDE DEF T
  <2> QED  BY <1>1, <1>2, <1>3, <2>1, <2>2, RecordKeeps
<1>5. Way(from) \cup {to} = Way(to) /\ to # "failed"
  BY DEF Way
<1> QED  BY <1>3, <1>4, <1>5 DEF AuditInv

(* A failure ends the trail, from whatever status the caller names: it is  *)
(* one the instruction has been in. *)
LEMMA FailKeeps ==
    ASSUME TypeOK, NEW i \in Instructions, AuditInv(i), row' = row,
           status[i] \in {"pending", "approved", "signed", "broadcasted"},
           NEW from \in Way(status[i]), fail_instruction(i, from)
    PROVE  AuditInv(i)'
<1> DEFINE T == {<<from, "failed">>}
<1>1. from \in {"pending", "approved", "signed", "broadcasted"}
  BY DEF Way
<1>2. /\ T \in SUBSET (Statuses \X Statuses)
      /\ {r[2] : r \in T} = {"failed"}
      /\ "failed" \in VALID_TRANSITIONS[from]
  BY <1>1, Transitions DEF Statuses
<1>3. Entered(i) = Way(status[i]) /\ "failed" \notin Entered(i)
  BY DEF AuditInv, Way
<1>4. Record(i, T) /\ status'[i] = "failed"
  BY DEF fail_instruction, TypeOK
<1>5. /\ EntersOnce(i)' /\ RowsAreLegal(i)'
      /\ Entered(i)' = Way(status[i]) \cup {"failed"}
      /\ current_entity_status(i)' = {"failed"}
  <2>1. EntersOnce(i) /\ RowsAreLegal(i)
    BY DEF AuditInv
  <2>2. /\ \A r, q \in T : r[2] = q[2] => r = q
        /\ \A r \in T : /\ r[2] \notin Entered(i)
                        /\ r[1] \in Entered(i) \cup {q[2] : q \in T}
                        /\ r[2] \in VALID_TRANSITIONS[r[1]]
    BY <1>2, <1>3
  <2> HIDE DEF T
  <2> QED  BY <1>2, <1>3, <1>4, <2>1, <2>2, RecordKeeps
<1> QED  BY <1>4, <1>5 DEF AuditInv

(* The four rows of a cash settlement take the trail to its end at once.   *)
LEMMA CashKeeps ==
    ASSUME TypeOK, NEW i \in Instructions, AuditInv(i),
           status[i] = "pending",
           NEW w \in Workers, job[w] = i, SettleCash(w)
    PROVE  AuditInv(i)'
<1> DEFINE T == {<<"pending", "approved">>, <<"approved", "signed">>,
                 <<"signed", "broadcasted">>, <<"broadcasted", "confirmed">>}
<1>1. /\ T \in SUBSET (Statuses \X Statuses)
      /\ {r[2] : r \in T} = {"approved", "signed", "broadcasted", "confirmed"}
      /\ \A r \in T : r[2] \in VALID_TRANSITIONS[r[1]]
  BY Transitions DEF Statuses
<1>2. Entered(i) = {"pending"}
  BY DEF AuditInv, Way
<1>3. /\ Record(i, T) /\ status'[i] = "confirmed"
      /\ row'[i].type = "cash"
  BY DEF SettleCash, TypeOK
<1>4. /\ EntersOnce(i)' /\ RowsAreLegal(i)'
      /\ Entered(i)' = Entered(i) \cup {r[2] : r \in T}
  <2>1. EntersOnce(i) /\ RowsAreLegal(i)
    BY DEF AuditInv
  <2>2. /\ \A r, q \in T : r[2] = q[2] => r = q
        /\ \A r \in T : /\ r[2] \notin Entered(i)
                        /\ r[1] \in Entered(i) \cup {q[2] : q \in T}
                        /\ r[2] \in VALID_TRANSITIONS[r[1]]
    BY <1>1, <1>2
  <2> HIDE DEF T
  <2> QED  BY <1>1, <1>3, <2>1, <2>2, RecordKeeps
<1>5. Entered(i)' = Way("confirmed")
  BY <1>1, <1>2, <1>4 DEF Way
<1> QED  BY <1>3, <1>4, <1>5 DEF AuditInv

(* Every commit keeps the trail of each instruction in step with it. *)
LEMMA AuditStep == IInv /\ AuditIsKept /\ [Next]_vars => AuditIsKept'
<1> SUFFICES ASSUME IInv, AuditIsKept, [Next]_vars, NEW i \in Instructions
             PROVE  AuditInv(i)'
  BY DEF AuditIsKept
<1>0. TypeOK /\ AuditInv(i)
  BY DEF IInv, AuditIsKept
<1>a. CASE row' = row /\ status'[i] = status[i] /\ audit'[i] = audit[i]
  BY <1>0, <1>a, AuditUnchanged
<1>1. ASSUME NEW w \in Workers, Settle(w) PROVE AuditInv(i)'
  <2>0. WorkerInv(w) /\ job[w] \in Instructions
    BY DEF IInv, TypeOK
  <2>1. CASE job[w] # i
    <3>1. row' = row /\ status'[i] = status[i] /\ audit'[i] = audit[i]
      BY <1>0, <1>1, <2>1 DEF Settle, TypeOK, SkipDuplicate, InsertMarker,
         SelectPending, SettleCash, RejectPending, UnknownChain, Approve,
         Sign, Submit, RecordBroadcast, FinalizeDvp, FinalizeZeroAmount,
         GiveUp, DvpException, Ack, advance_status, fail_instruction, Record,
         database
    <3> QED  BY <1>a, <3>1
  <2>2. CASE job[w] = i /\ SettleCash(w)
    <3>1. status[i] = "pending"
      BY <2>0, <2>2 DEF SettleCash, WorkerInv
    <3> QED  BY <1>0, <2>2, <3>1, CashKeeps
  <2>3. CASE job[w] = i /\ (Approve(w) \/ Sign(w) \/ RecordBroadcast(w)
                            \/ FinalizeDvp(w))
    <3>1. CASE Approve(w)
      BY <1>0, <2>0, <2>3, <3>1, AdvanceKeeps DEF Approve, WorkerInv
    <3>2. CASE Sign(w)
      BY <1>0, <2>0, <2>3, <3>2, AdvanceKeeps DEF Sign, WorkerInv
    <3>3. CASE RecordBroadcast(w)
      BY <1>0, <2>0, <2>3, <3>3, AdvanceKeeps DEF RecordBroadcast, WorkerInv
    <3>4. CASE FinalizeDvp(w)
      BY <1>0, <2>0, <2>3, <3>4, AdvanceKeeps DEF FinalizeDvp, WorkerInv
    <3> QED  BY <2>3, <3>1, <3>2, <3>3, <3>4
  <2>4. CASE job[w] = i /\ (RejectPending(w) \/ GiveUp(w) \/ DvpException(w))
    <3>1. CASE RejectPending(w)
      <4>1. status[i] = "pending" /\ "pending" \in Way("pending")
        BY <2>0, <2>4, <3>1 DEF RejectPending, WorkerInv, Way
      <4>2. row' = row /\ fail_instruction(i, "pending")
        BY <2>4, <3>1 DEF RejectPending
      <4> QED  BY <1>0, <4>1, <4>2, FailKeeps
    <3>2. CASE GiveUp(w)
      <4>1. /\ status[i] = "broadcasted"
            /\ "broadcasted" \in Way("broadcasted")
        BY <2>0, <2>4, <3>2 DEF GiveUp, WorkerInv, Way
      <4>2. row' = row /\ fail_instruction(i, "broadcasted")
        BY <2>4, <3>2 DEF GiveUp
      <4> QED  BY <1>0, <4>1, <4>2, FailKeeps
    <3>3. CASE DvpException(w)
      <4>1. /\ status[i] \in {"approved", "signed", "broadcasted"}
            /\ "approved" \in Way(status[i])
        BY <2>0, <2>4, <3>3 DEF DvpException, WorkerInv, Way
      <4>2. row' = row /\ fail_instruction(i, "approved")
        BY <2>4, <3>3 DEF DvpException, ExceptionStatus
      <4> QED  BY <1>0, <4>1, <4>2, FailKeeps
    <3> QED  BY <2>4, <3>1, <3>2, <3>3
  <2>5. CASE \/ SkipDuplicate(w) \/ InsertMarker(w) \/ SelectPending(w)
             \/ UnknownChain(w) \/ Submit(w) \/ FinalizeZeroAmount(w)
             \/ Ack(w)
    BY <1>a, <2>5 DEF SkipDuplicate, InsertMarker, SelectPending,
       UnknownChain, Submit, FinalizeZeroAmount, Ack, database
  <2> QED
    BY <1>1, <2>1, <2>2, <2>3, <2>4, <2>5 DEF Settle
<1>2. CASE \E w \in Workers : Fault(w)
  BY <1>a, <1>2 DEF Fault, DbError, Crash, database
<1>3. CASE \E w \in Workers, j \in Instructions : Poll(w, j)
  BY <1>a, <1>3 DEF Poll, database
<1>4. CASE \E j \in Instructions : ChainStep(j)
  BY <1>a, <1>4 DEF ChainStep, database
<1>5. CASE UNCHANGED vars
  BY <1>a, <1>5 DEF vars, database
<1> QED  BY <1>1, <1>2, <1>3, <1>4, <1>5 DEF Next

(* At the start the trail is empty. *)
LEMMA InitAudit == Init => AuditIsKept
<1> SUFFICES ASSUME Init, NEW i \in Instructions PROVE AuditInv(i)
  BY DEF AuditIsKept
<1>1. audit[i] = <<>> /\ status[i] = "pending"
  BY DEF Init
<1>2. DOMAIN audit[i] = {} /\ Trail(i) = {}
  BY <1>1 DEF Trail
<1>3. Entered(i) = Way("pending") /\ current_entity_status(i) = {}
  BY <1>1, <1>2 DEF Entered, Way, current_entity_status
<1>4. EntersOnce(i) /\ RowsAreLegal(i)
  BY <1>2 DEF EntersOnce, RowsAreLegal
<1> QED  BY <1>1, <1>3, <1>4 DEF AuditInv

(* The trail on its way to a status names that status last. *)
LEMMA LastOfWay ==
    ASSUME NEW s \in {"pending", "approved", "signed", "broadcasted"}
    PROVE  /\ {t \in Way(s) : VALID_TRANSITIONS[t] \cap Way(s) = {}} = {s}
           /\ LET W == Way(s) \cup {"failed"}
              IN  {t \in W : VALID_TRANSITIONS[t] \cap W = {}} = {"failed"}
<1>1. CASE s = "pending"      BY <1>1, Transitions DEF Way
<1>2. CASE s = "approved"     BY <1>2, Transitions DEF Way
<1>3. CASE s = "signed"       BY <1>3, Transitions DEF Way
<1>4. CASE s = "broadcasted"  BY <1>4, Transitions DEF Way
<1> QED  BY <1>1, <1>2, <1>3, <1>4

(* The audit trail tells the status of every instruction, for any number of*)
(* workers and through redelivery and crashes, though the rows of a cash   *)
(* settlement have no order and a failure may name an earlier status.      *)
THEOREM AuditTells == Spec => []AuditTellsStatus
<1>1. IInv /\ AuditIsKept => AuditTellsStatus
  <2> SUFFICES ASSUME IInv, AuditIsKept, NEW i \in Instructions
               PROVE  {s \in Entered(i) :
                         VALID_TRANSITIONS[s] \cap Entered(i) = {}}
                        = {status[i]}
    BY DEF AuditTellsStatus, AuditIsKept, AuditInv
  <2>1. AuditInv(i) /\ status[i] \in Statuses /\ status[i] # "cancelled"
    BY DEF AuditIsKept, IInv, TypeOK, RowInv
  <2>2. CASE status[i] = "failed"
    BY <2>1, <2>2, LastOfWay DEF AuditInv
  <2>3. CASE status[i] \in {"pending", "approved", "signed", "broadcasted"}
    BY <2>1, <2>3, LastOfWay DEF AuditInv
  <2>4. CASE status[i] = "confirmed"
    BY <2>1, <2>4, Transitions DEF AuditInv, Way
  <2> QED  BY <2>1, <2>2, <2>3, <2>4 DEF Statuses
<1> QED  BY <1>1, InitAudit, AuditStep, Invariant, PTL DEF Spec

-----------------------------------------------------------------------------
(* The refinement mapping. *)
due    == [i \in Instructions |-> Due(i)]
outcome == [i \in Instructions |-> Outcome(i)]

(* Nothing is due, and nothing has an outcome, at the start. *)
LEMMA PromiseInit == Init => Promise!Init
<1> SUFFICES ASSUME Init PROVE Promise!Init
  OBVIOUS
<1>1. due \in [Instructions -> {0, 1}]
  BY DEF due, Due
<1>2. outcome = [i \in Instructions |-> "open"]
  BY DEF outcome, Outcome, Init
<1> QED  BY <1>1, <1>2 DEF Promise!Init, Init, due, outcome

(* A worker's outcome commit is the corresponding step of the promise.     *)
LEMMA PromiseOutcome ==
    ASSUME IInv, NEW w \in Workers, NEW i \in Instructions, i = job[w]
    PROVE  /\ SettleCash(w) \/ FinalizeDvp(w) => Promise!Settle(i)
           /\ RejectPending(w) \/ GiveUp(w) \/ DvpException(w)
                => Promise!Fail(i)
<1>1. ASSUME SettleCash(w) \/ FinalizeDvp(w) PROVE Promise!Settle(i)
  <2>1. status[i] \in {"pending", "broadcasted"} /\ row' = row
    BY <1>1 DEF SettleCash, FinalizeDvp, IInv, WorkerInv
  <2>2. posted[i] = 0 /\ announced[i] = <<>>
    BY <2>1 DEF IInv, RowInv
  <2>3. status' = [status EXCEPT ![i] = "confirmed"]
    BY <1>1 DEF SettleCash, FinalizeDvp, advance_status
  <2>4. announced' = [announced EXCEPT ![i] = <<"settlement.completed">>]
    BY <1>1, <2>2, AppendToEmpty
       DEF SettleCash, FinalizeDvp, emit_settlement_event
  <2>5. posted' = [posted EXCEPT ![i] = Due(i)]
    <3>1. posted' = [posted EXCEPT ![i] = posted'[i]]
      BY <1>1 DEF SettleCash, FinalizeDvp, PostJournal, IInv, TypeOK
    <3>2. posted'[i] = Due(i)
      <4>1. CASE SettleCash(w)
        BY <2>2, <4>1 DEF SettleCash, PostJournal, IInv, TypeOK, Due
      <4>2. CASE FinalizeDvp(w)
        <5>1. posted'[i] = (IF row[i].accounts THEN 1 ELSE 0)
          BY <2>2, <4>2 DEF FinalizeDvp, PostJournal, IInv, TypeOK
        <5>2. row[i].accounts => row[i].positive
          BY <4>2 DEF FinalizeDvp
        <5>3. CASE row[i].accounts   BY <5>1, <5>2, <5>3 DEF Due
        <5>4. CASE ~row[i].accounts  BY <5>1, <5>4 DEF Due
        <5> QED  BY <5>3, <5>4
      <4> QED  BY <1>1, <4>1, <4>2
    <3> QED  BY <3>1, <3>2
  <2>6. outcome[i] = "open" /\ outcome' = [outcome EXCEPT ![i] = "settled"]
    BY <2>1, <2>3 DEF outcome, Outcome, IInv, TypeOK
  <2>7. due' = due
    BY <2>1 DEF due, Due
  <2> QED  BY <2>4, <2>5, <2>6, <2>7 DEF Promise!Settle, outcome, due
<1>2. ASSUME RejectPending(w) \/ GiveUp(w) \/ DvpException(w)
      PROVE  Promise!Fail(i)
  <2>1. /\ status[i] \in {"pending", "approved", "signed", "broadcasted"}
        /\ row' = row /\ posted' = posted
    BY <1>2 DEF RejectPending, GiveUp, DvpException, IInv, WorkerInv
  <2>2. announced[i] = <<>>
    BY <2>1 DEF IInv, RowInv
  <2>3. status' = [status EXCEPT ![i] = "failed"]
    BY <1>2 DEF RejectPending, GiveUp, DvpException, fail_instruction
  <2>4. announced' = [announced EXCEPT ![i] = <<"settlement.failed">>]
    BY <1>2, <2>2, AppendToEmpty
       DEF RejectPending, GiveUp, DvpException, fail_instruction,
           emit_settlement_event
  <2>5. outcome[i] = "open" /\ outcome' = [outcome EXCEPT ![i] = "failed"]
    BY <2>1, <2>3 DEF outcome, Outcome, IInv, TypeOK
  <2>6. due' = due
    BY <2>1 DEF due, Due
  <2> QED  BY <2>1, <2>4, <2>5, <2>6 DEF Promise!Fail, outcome, due
<1> QED  BY <1>1, <1>2

(* Advancing a status on the way changes nothing the promise shows.        *)
LEMMA PromiseStutter ==
    ASSUME row' = row, posted' = posted, announced' = announced,
           \A i \in Instructions :
              \/ status'[i] = status[i]
              \/ /\ status[i] \in {"pending", "approved", "signed"}
                 /\ status'[i] \in {"approved", "signed", "broadcasted"}
    PROVE  UNCHANGED Promise!vars
<1>1. outcome' = outcome
  BY DEF outcome, Outcome
<1>2. due' = due
  BY DEF due, Due
<1> QED  BY <1>1, <1>2 DEF Promise!vars, outcome, due

(* The engine implements SettlementOutcome: redeliveries, concurrent       *)
(* workers, crashes and errors never give an instruction a second outcome, *)
(* a second journal, or an outcome the events do not tell.                 *)
THEOREM PromiseKept == Spec => KeepsPromise
<1>1. ASSUME IInv, [Next]_vars PROVE [Promise!Next]_(Promise!vars)
  <2>1. ASSUME NEW w \in Workers, Settle(w)
        PROVE  [Promise!Next]_(Promise!vars)
    <3>1. job[w] \in Instructions
      BY <1>1 DEF IInv, TypeOK
    <3>2. CASE SettleCash(w) \/ FinalizeDvp(w)
      BY <1>1, <3>1, <3>2, PromiseOutcome DEF Promise!Next
    <3>3. CASE RejectPending(w) \/ GiveUp(w) \/ DvpException(w)
      BY <1>1, <3>1, <3>3, PromiseOutcome DEF Promise!Next
    <3>4. CASE Approve(w) \/ Sign(w) \/ RecordBroadcast(w)
      <4>1. \A i \in Instructions :
               \/ status'[i] = status[i]
               \/ /\ status[i] \in {"pending", "approved", "signed"}
                  /\ status'[i] \in {"approved", "signed", "broadcasted"}
        BY <1>1, <3>4 DEF Approve, Sign, RecordBroadcast, advance_status,
                          IInv, TypeOK, WorkerInv
      <4>2. row' = row /\ posted' = posted /\ announced' = announced
        BY <3>4 DEF Approve, Sign, RecordBroadcast
      <4> QED  BY <4>1, <4>2, PromiseStutter
    <3> QED
      BY <2>1, <3>2, <3>3, <3>4, PromiseStutter
         DEF Settle, SkipDuplicate, InsertMarker, SelectPending,
             UnknownChain, Submit, FinalizeZeroAmount, Ack,
             database
  <2>2. CASE \E w \in Workers : Fault(w)
    BY <2>2, PromiseStutter DEF Fault, DbError, Crash, database
  <2>3. CASE \E w \in Workers, i \in Instructions : Poll(w, i)
    BY <2>3, PromiseStutter DEF Poll, database
  <2>4. CASE \E i \in Instructions : ChainStep(i)
    BY <2>4, PromiseStutter DEF ChainStep, database
  <2>5. CASE UNCHANGED vars
    BY <2>5, PromiseStutter DEF vars, database
  <2> QED  BY <1>1, <2>1, <2>2, <2>3, <2>4, <2>5 DEF Next
<1> QED  BY <1>1, PromiseInit, Invariant, PTL
            DEF Spec, KeepsPromise, Promise!Spec
=============================================================================
