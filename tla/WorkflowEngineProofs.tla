------------------------ MODULE WorkflowEngineProofs ------------------------
(***************************************************************************)
(* For every number of calls, frames, slots and limits: the types, the     *)
(* conservation of the slots, the agent cap, the frame locks and the gate  *)
(* in front of each child of WorkflowEngine; then, over those, what the    *)
(* run does with its data: the cached results, the journal, the budget.    *)
(***************************************************************************)
EXTENDS WorkflowEngine, FiniteSetTheorems, SequenceTheorems, TLAPS

\* A record exists exactly between reservation and the end, a hit has its result, and
\* nothing is charged before the child has returned: what makes TypeOK and AgentCap inductive.
BeforeReserve == {"idle", "called", "validated", "locked", "reserving"}
RecordInv ==
  \A a \in Agents :
    /\ pc[a] \in BeforeReserve => status[a] = "none"
    /\ pc[a] \notin BeforeReserve \cup {"done", "halted"} => status[a] # "none"
    /\ pc[a] = "hit" => outcome[a] # Null

ChargeInv ==
  \A a \in Agents :
    /\ pc[a] \notin {"accounted", "done"} => accounted[a] = 0
    /\ pc[a] = "accounted" => accounted[a] = tokens[a]

IInv == TypeOK /\ RecordInv /\ ChargeInv /\ SlotConservation /\ AgentCap

LEMMA HoldersFinite == IsFiniteSet(Holders) /\ Cardinality(Holders) \in Nat
  BY EngineAssumption, FS_Subset, FS_CardinalityType DEF Holders

LEMMA ReservedFinite == IsFiniteSet(Reserved) /\ Cardinality(Reserved) \in Nat
  BY EngineAssumption, FS_Subset, FS_CardinalityType DEF Reserved
-----------------------------------------------------------------------------
LEMMA InitIInv == Init => IInv
  <1> SUFFICES ASSUME Init PROVE IInv
    OBVIOUS
  <1>1. ControlTypeOK
    BY DEF Init, ControlTypeOK
  <1>2. CounterTypeOK
    BY EngineAssumption DEF Init, CounterTypeOK
  <1>3. ThreadTypeOK
    BY DEF Init, ThreadTypeOK, PC, Statuses, Attempts
  <1>4. UsageTypeOK
    BY DEF Init, UsageTypeOK
  <1>5. CacheTypeOK
    <2>1. <<>> \in Seq(Results)
      OBVIOUS
    <2> QED
      BY <2>1, EngineAssumption DEF Init, CacheTypeOK
  <1>6. RecordInv
    BY DEF Init, RecordInv, BeforeReserve
  <1>7. ChargeInv
    BY DEF Init, ChargeInv
  <1>8. SlotConservation
    <2>1. Holders = {}
      BY DEF Init, Holders
    <2> QED
      BY <2>1, FS_EmptySet, EngineAssumption DEF Init, SlotConservation
  <1>9. AgentCap
    <2>1. Reserved = {}
      BY DEF Init, Reserved
    <2> QED
      BY <2>1, FS_EmptySet, EngineAssumption DEF Init, AgentCap
  <1> QED
    BY <1>1, <1>2, <1>3, <1>4, <1>5, <1>6, <1>7, <1>8, <1>9 DEF IInv, TypeOK
-----------------------------------------------------------------------------
(* The types.  The semaphore's bound needs SlotConservation: a thread that *)
(* releases a slot is one of its holders.                                  *)
LEMMA ReleaseInRange ==
  ASSUME IInv, NEW a \in Agents, pc[a] \in {"acquired", "child"}
  PROVE  freeSlots + 1 \in 0..Slots
  <1>1. a \in Holders
    BY DEF Holders
  <1>2. Cardinality(Holders) # 0
    BY <1>1, HoldersFinite, FS_EmptySet
  <1> QED
    BY <1>2, HoldersFinite, EngineAssumption
    DEF IInv, SlotConservation, TypeOK, CounterTypeOK

\* A charge adds a natural number: nothing is taken back from the budget.
LEMMA ChargeIsNat ==
  ASSUME IInv, NEW a \in Agents, pc[a] \in {"returned", "accounted"}
  PROVE  tokens[a] - accounted[a] \in Nat
  BY DEF IInv, TypeOK, UsageTypeOK, ChargeInv

LEMMA EventTyped ==
  ASSUME NEW a \in Agents, NEW type \in {"started", "result", "error"},
         NEW how \in Hows, NEW result \in Results \cup {Null}
  PROVE  Event(type, a, how, result) \in Events
  BY DEF Event, Events

\* resume_cache.put appends to one bucket.
LEMMA PutTyped ==
  ASSUME NEW k \in Keys, NEW r \in Results, current \in [Keys -> Seq(Results)]
  PROVE  [current EXCEPT ![k] = Append(@, r)] \in [Keys -> Seq(Results)]
  <1>1. Append(current[k], r) \in Seq(Results)
    OBVIOUS
  <1> QED
    BY <1>1

LEMMA NextTypeOK == IInv /\ [Next]_vars => TypeOK'
  <1> SUFFICES ASSUME IInv, [Next]_vars PROVE TypeOK'
    OBVIOUS
  <1> USE EngineAssumption DEF TypeOK, ControlTypeOK, CounterTypeOK, ThreadTypeOK, UsageTypeOK, CacheTypeOK, Goto, control, usageVars, cacheVars
  <1>0. TypeOK /\ ChargeInv /\ RecordInv
    BY DEF IInv
  <1>1. ASSUME NEW a \in Agents, Call(a) PROVE TypeOK'
    BY <1>0, <1>1 DEF Call, PC
  <1>2. ASSUME NEW a \in Agents, CheckPasses(a) PROVE TypeOK'
    BY <1>0, <1>2 DEF CheckPasses, CheckAt, PC
  <1>3. ASSUME NEW a \in Agents, CheckHalts(a) PROVE TypeOK'
    BY <1>0, <1>3, ReleaseInRange DEF CheckHalts, Halt, UnwindLocks, CheckAt, PC
  <1>4. ASSUME NEW a \in Agents, RejectOptions(a) PROVE TypeOK'
    BY <1>0, <1>4 DEF RejectOptions, PC
  <1>5. ASSUME NEW a \in Agents, LockFrame(a) PROVE TypeOK'
    BY <1>0, <1>5 DEF LockFrame, PC
  <1>6. ASSUME NEW a \in Agents, Reserve(a) PROVE TypeOK'
    BY <1>0, <1>6 DEF Reserve, PC, Statuses
  <1>7. ASSUME NEW a \in Agents, ReserveOverLimit(a) PROVE TypeOK'
    BY <1>0, <1>7, ReleaseInRange DEF ReserveOverLimit, Halt, UnwindLocks, PC
  <1>8. ASSUME NEW a \in Agents, CacheHit(a) PROVE TypeOK'
    BY <1>0, <1>8 DEF CacheHit, PC, Statuses, Results
  <1>9. ASSUME NEW a \in Agents, CacheMiss(a) PROVE TypeOK'
    <2>1. ControlTypeOK'
      BY <1>0, <1>9 DEF CacheMiss
    <2>2. CounterTypeOK'
      BY <1>0, <1>9 DEF CacheMiss
    <2>3. ThreadTypeOK'
      BY <1>0, <1>9 DEF CacheMiss, PC, Statuses
    <2>4. UsageTypeOK'
      BY <1>0, <1>9 DEF CacheMiss
    <2>5. CacheTypeOK'
      BY <1>0, <1>9, EventTyped DEF CacheMiss, Hows
    <2> QED
      BY <2>1, <2>2, <2>3, <2>4, <2>5
  <1>10. ASSUME NEW a \in Agents, ReturnCached(a) PROVE TypeOK'
    <2>1. ControlTypeOK'
      BY <1>0, <1>10 DEF ReturnCached
    <2>2. CounterTypeOK'
      BY <1>0, <1>10 DEF ReturnCached
    <2>3. ThreadTypeOK'
      BY <1>0, <1>10 DEF ReturnCached, PC
    <2>4. UsageTypeOK'
      BY <1>0, <1>10 DEF ReturnCached
    <2>5. CacheTypeOK'
      <3>1. outcome[a] \in Results /\ KeyOf[a] \in Keys
        BY <1>0, <1>10 DEF ReturnCached, RecordInv
      <3>2. Event("result", a, "cached", outcome[a]) \in Events
        BY <3>1, EventTyped DEF Hows
      <3> QED
        BY <1>0, <1>10, <3>1, <3>2, PutTyped DEF ReturnCached
    <2> QED
      BY <2>1, <2>2, <2>3, <2>4, <2>5
  <1>11. ASSUME NEW a \in Agents, AcquireSlot(a) PROVE TypeOK'
    BY <1>0, <1>11 DEF AcquireSlot, PC
  <1>12. ASSUME NEW a \in Agents, AccountTokens(a) PROVE TypeOK'
    <2>1. ControlTypeOK'
      BY <1>0, <1>12 DEF AccountTokens
    <2>2. CounterTypeOK'
      BY <1>0, <1>12, ChargeIsNat DEF AccountTokens, Charge
    <2>3. ThreadTypeOK'
      BY <1>0, <1>12 DEF AccountTokens, PC
    <2>4. UsageTypeOK'
      BY <1>0, <1>12 DEF AccountTokens, Charge
    <2>5. CacheTypeOK'
      BY <1>0, <1>12 DEF AccountTokens
    <2> QED
      BY <2>1, <2>2, <2>3, <2>4, <2>5
  <1>13. ASSUME NEW a \in Agents, Publish(a) PROVE TypeOK'
    <2>1. ControlTypeOK'
      BY <1>0, <1>13 DEF Publish
    <2>2. CounterTypeOK'
      BY <1>0, <1>13 DEF Publish
    <2>3. ThreadTypeOK'
      BY <1>0, <1>13 DEF Publish, PC, Statuses, Results
    <2>4. UsageTypeOK'
      BY <1>0, <1>13 DEF Publish
    <2>5. CacheTypeOK'
      <3>1. a \in Results /\ KeyOf[a] \in Keys
        BY DEF Results
      <3>2. Event("result", a, "live", a) \in Events
        BY <3>1, EventTyped DEF Hows
      <3> QED
        BY <1>0, <1>13, <3>1, <3>2, PutTyped DEF Publish
    <2> QED
      BY <2>1, <2>2, <2>3, <2>4, <2>5
  <1>14. ASSUME NEW a \in Agents, Fail(a) PROVE TypeOK'
    <2>1. ControlTypeOK'
      BY <1>0, <1>14 DEF Fail
    <2>2. CounterTypeOK'
      BY <1>0, <1>14, ChargeIsNat DEF Fail, Charge
    <2>3. ThreadTypeOK'
      BY <1>0, <1>14 DEF Fail, PC, Statuses
    <2>4. UsageTypeOK'
      BY <1>0, <1>14 DEF Fail, Charge
    <2>5. CacheTypeOK'
      BY <1>0, <1>14, EventTyped DEF Fail, Hows
    <2> QED
      BY <2>1, <2>2, <2>3, <2>4, <2>5
  <1>15. ASSUME NEW a \in Agents, Skip(a) PROVE TypeOK'
    <2>1. ControlTypeOK'
      BY <1>0, <1>15 DEF Skip
    <2>2. CounterTypeOK'
      BY <1>0, <1>15 DEF Skip
    <2>3. ThreadTypeOK'
      BY <1>0, <1>15 DEF Skip, PC, Statuses
    <2>4. UsageTypeOK'
      BY <1>0, <1>15 DEF Skip
    <2>5. CacheTypeOK'
      BY <1>0, <1>15, EventTyped DEF Skip, Hows
    <2> QED
      BY <2>1, <2>2, <2>3, <2>4, <2>5
  <1>16. ASSUME NEW a \in Agents, ChildReports(a) PROVE TypeOK'
    BY <1>0, <1>16, ReleaseInRange DEF ChildReports, ChildEnds, PC, Attempts
  <1>17. ASSUME NEW a \in Agents, ChildCrashes(a) PROVE TypeOK'
    BY <1>0, <1>17, ReleaseInRange DEF ChildCrashes, ChildEnds, PC, Attempts
  <1>18. CASE ScriptReturns \/ ScriptRaises \/ ScriptHalts \/ RunReturns
    BY <1>0, <1>18 DEF ScriptReturns, ScriptRaises, ScriptHalts, RunReturns, FrameStatusOnError
  <1>19. CASE SetStop \/ PauseGateCloses \/ PauseGateOpens \/ DeadlinePasses
    BY <1>0, <1>19 DEF SetStop, PauseGateCloses, PauseGateOpens, DeadlinePasses
  <1>20. CASE UNCHANGED vars
    BY <1>0, <1>20 DEF vars
  <1> QED
    BY <1>1, <1>2, <1>3, <1>4, <1>5, <1>6, <1>7, <1>8, <1>9, <1>10, <1>11, <1>12, <1>13, <1>14, <1>15, <1>16, <1>17, <1>18, <1>19, <1>20
    DEF Next, ThreadStep, RunEnd, Outside
-----------------------------------------------------------------------------
(* The records and the charges, thread by thread.                          *)
LEMMA NextRecordInv == IInv /\ [Next]_vars => (RecordInv /\ ChargeInv)'
  <1> SUFFICES ASSUME IInv, [Next]_vars PROVE (RecordInv /\ ChargeInv)'
    OBVIOUS
  <1> USE EngineAssumption DEF RecordInv, ChargeInv, BeforeReserve, Goto, usageVars
  <1>0. ThreadTypeOK /\ UsageTypeOK /\ CacheTypeOK /\ RecordInv /\ ChargeInv
    BY DEF IInv, TypeOK
  <1> USE DEF ThreadTypeOK, UsageTypeOK, CacheTypeOK
  <1>1. ASSUME NEW a \in Agents, Call(a) PROVE (RecordInv /\ ChargeInv)'
    BY <1>0, <1>1 DEF Call
  <1>2. ASSUME NEW a \in Agents, CheckPasses(a) PROVE (RecordInv /\ ChargeInv)'
    <2>1. /\ pc[a] \in {"called", "locked", "queued", "acquired"}
          /\ pc' = [pc EXCEPT ![a] = CheckAt[pc[a]]]
          /\ UNCHANGED <<status, attempt, usageVars, outcome>>
      BY <1>2 DEF CheckPasses, CheckAt
    <2>2. CASE pc[a] = "called"
      <3>1. pc' = [pc EXCEPT ![a] = "validated"]
        BY <2>1, <2>2 DEF CheckAt
      <3> QED
        BY <1>0, <2>1, <2>2, <3>1
    <2>3. CASE pc[a] = "locked"
      <3>1. pc' = [pc EXCEPT ![a] = "reserving"]
        BY <2>1, <2>3 DEF CheckAt
      <3> QED
        BY <1>0, <2>1, <2>3, <3>1
    <2>4. CASE pc[a] = "queued"
      <3>1. pc' = [pc EXCEPT ![a] = "acquiring"]
        BY <2>1, <2>4 DEF CheckAt
      <3> QED
        BY <1>0, <2>1, <2>4, <3>1
    <2>5. CASE pc[a] = "acquired"
      <3>1. pc' = [pc EXCEPT ![a] = "child"]
        BY <2>1, <2>5 DEF CheckAt
      <3> QED
        BY <1>0, <2>1, <2>5, <3>1
    <2> QED
      BY <2>1, <2>2, <2>3, <2>4, <2>5
  <1>3. ASSUME NEW a \in Agents, CheckHalts(a) PROVE (RecordInv /\ ChargeInv)'
    BY <1>0, <1>3 DEF CheckHalts, CheckAt, Halt, UnwindLocks
  <1>4. ASSUME NEW a \in Agents, RejectOptions(a) PROVE (RecordInv /\ ChargeInv)'
    BY <1>0, <1>4 DEF RejectOptions
  <1>5. ASSUME NEW a \in Agents, LockFrame(a) PROVE (RecordInv /\ ChargeInv)'
    BY <1>0, <1>5 DEF LockFrame
  <1>6. ASSUME NEW a \in Agents, Reserve(a) PROVE (RecordInv /\ ChargeInv)'
    BY <1>0, <1>6 DEF Reserve
  <1>7. ASSUME NEW a \in Agents, ReserveOverLimit(a) PROVE (RecordInv /\ ChargeInv)'
    BY <1>0, <1>7 DEF ReserveOverLimit, Halt, UnwindLocks
  <1>8. ASSUME NEW a \in Agents, CacheHit(a) PROVE (RecordInv /\ ChargeInv)'
    BY <1>0, <1>8 DEF CacheHit
  <1>9. ASSUME NEW a \in Agents, CacheMiss(a) PROVE (RecordInv /\ ChargeInv)'
    BY <1>0, <1>9 DEF CacheMiss
  <1>10. ASSUME NEW a \in Agents, ReturnCached(a) PROVE (RecordInv /\ ChargeInv)'
    BY <1>0, <1>10 DEF ReturnCached
  <1>11. ASSUME NEW a \in Agents, AcquireSlot(a) PROVE (RecordInv /\ ChargeInv)'
    BY <1>0, <1>11 DEF AcquireSlot
  <1>12. ASSUME NEW a \in Agents, AccountTokens(a) PROVE (RecordInv /\ ChargeInv)'
    BY <1>0, <1>12 DEF AccountTokens, Charge
  <1>13. ASSUME NEW a \in Agents, Publish(a) PROVE (RecordInv /\ ChargeInv)'
    BY <1>0, <1>13 DEF Publish
  <1>14. ASSUME NEW a \in Agents, Fail(a) PROVE (RecordInv /\ ChargeInv)'
    BY <1>0, <1>14 DEF Fail, Charge
  <1>15. ASSUME NEW a \in Agents, Skip(a) PROVE (RecordInv /\ ChargeInv)'
    BY <1>0, <1>15 DEF Skip
  <1>16. ASSUME NEW a \in Agents, ChildReports(a) PROVE (RecordInv /\ ChargeInv)'
    <2>1. PICK how \in {"value", "uncaptured", "skip", "error"}, n \in Usage :
            ChildEnds(a, how, n, n)
      BY <1>16 DEF ChildReports
    <2>2. RecordInv'
      BY <1>0, <2>1 DEF ChildEnds
    <2>3. ChargeInv'
      BY <1>0, <2>1 DEF ChildEnds
    <2> QED
      BY <2>2, <2>3
  <1>17. ASSUME NEW a \in Agents, ChildCrashes(a) PROVE (RecordInv /\ ChargeInv)'
    BY <1>0, <1>17 DEF ChildCrashes, ChildEnds
  <1>18. CASE ScriptReturns \/ ScriptRaises \/ ScriptHalts \/ RunReturns
    BY <1>0, <1>18 DEF ScriptReturns, ScriptRaises, ScriptHalts, RunReturns
  <1>19. CASE SetStop \/ PauseGateCloses \/ PauseGateOpens \/ DeadlinePasses
    BY <1>0, <1>19 DEF SetStop, PauseGateCloses, PauseGateOpens, DeadlinePasses
  <1>20. CASE UNCHANGED vars
    BY <1>0, <1>20 DEF vars
  <1> QED
    BY <1>1, <1>2, <1>3, <1>4, <1>5, <1>6, <1>7, <1>8, <1>9, <1>10, <1>11, <1>12, <1>13, <1>14, <1>15, <1>16, <1>17, <1>18, <1>19, <1>20
    DEF Next, ThreadStep, RunEnd, Outside
-----------------------------------------------------------------------------
(* The slots.                                                              *)
HoldsSlot == {"acquired", "child"}

LEMMA HoldersAfterGoto ==
  ASSUME ThreadTypeOK, NEW a \in Agents, NEW where, Goto(a, where)
  PROVE  Holders' = IF where \in HoldsSlot THEN Holders \cup {a} ELSE Holders \ {a}
  BY DEF ThreadTypeOK, Goto, Holders, HoldsSlot

\* A thread that takes, keeps or releases its slot as it moves.
LEMMA SlotStep ==
  ASSUME IInv, NEW a \in Agents, NEW where, Goto(a, where),
         freeSlots' = freeSlots + (IF pc[a] \in HoldsSlot THEN 1 ELSE 0)
                                - (IF where \in HoldsSlot THEN 1 ELSE 0)
  PROVE  SlotConservation'
  <1>1. a \in Holders <=> pc[a] \in HoldsSlot
    BY DEF Holders, HoldsSlot
  <1>2. Holders' = IF where \in HoldsSlot THEN Holders \cup {a} ELSE Holders \ {a}
    BY HoldersAfterGoto DEF IInv, TypeOK
  <1>3. Cardinality(Holders') = Cardinality(Holders)
                                + (IF where \in HoldsSlot THEN 1 ELSE 0)
                                - (IF pc[a] \in HoldsSlot THEN 1 ELSE 0)
    <2>1. IsFiniteSet(Holders) /\ Cardinality(Holders) \in Nat
      BY HoldersFinite, FS_CardinalityType
    <2>2. CASE where \in HoldsSlot
      <3>1. Cardinality(Holders \cup {a})
              = IF a \in Holders THEN Cardinality(Holders) ELSE Cardinality(Holders) + 1
        BY <2>1, FS_AddElement
      <3> QED
        BY <1>1, <1>2, <2>1, <2>2, <3>1
    <2>3. CASE where \notin HoldsSlot
      <3>1. Cardinality(Holders \ {a})
              = IF a \in Holders THEN Cardinality(Holders) - 1 ELSE Cardinality(Holders)
        BY <2>1, FS_RemoveElement
      <3> QED
        BY <1>1, <1>2, <2>1, <2>3, <3>1
    <2> QED
      BY <2>2, <2>3
  <1>4. freeSlots \in Int /\ Slots \in Int /\ freeSlots + Cardinality(Holders) = Slots
    BY EngineAssumption DEF IInv, TypeOK, CounterTypeOK, SlotConservation
  <1>5. freeSlots' + Cardinality(Holders') = Slots
    BY <1>3, <1>4, HoldersFinite
  <1> QED
    BY <1>5 DEF SlotConservation

LEMMA NextSlotConservation == IInv /\ [Next]_vars => SlotConservation'
  <1> SUFFICES ASSUME IInv, [Next]_vars PROVE SlotConservation'
    OBVIOUS
  <1>0. freeSlots \in Int /\ ThreadTypeOK /\ SlotConservation
    BY EngineAssumption DEF IInv, TypeOK, CounterTypeOK
  <1>1. ASSUME NEW a \in Agents, Call(a) PROVE SlotConservation'
    <2>1. /\ Goto(a, "called")
          /\ freeSlots' = freeSlots + (IF pc[a] \in HoldsSlot THEN 1 ELSE 0)
                                    - (IF "called" \in HoldsSlot THEN 1 ELSE 0)
      BY <1>0, <1>1 DEF Call, HoldsSlot
    <2> QED
      BY <2>1, SlotStep
  <1>2. ASSUME NEW a \in Agents, CheckPasses(a) PROVE SlotConservation'
    <2>1. /\ Goto(a, CheckAt[pc[a]])
          /\ freeSlots' = freeSlots + (IF pc[a] \in HoldsSlot THEN 1 ELSE 0)
                                    - (IF CheckAt[pc[a]] \in HoldsSlot THEN 1 ELSE 0)
      BY <1>0, <1>2 DEF CheckPasses, CheckAt, HoldsSlot
    <2> QED
      BY <2>1, SlotStep
  <1>3. ASSUME NEW a \in Agents, CheckHalts(a) PROVE SlotConservation'
    <2>1. /\ Goto(a, "halted")
          /\ freeSlots' = freeSlots + (IF pc[a] \in HoldsSlot THEN 1 ELSE 0)
                                    - (IF "halted" \in HoldsSlot THEN 1 ELSE 0)
      BY <1>0, <1>3 DEF CheckHalts, CheckAt, Halt, UnwindLocks, HoldsSlot
    <2> QED
      BY <2>1, SlotStep
  <1>4. ASSUME NEW a \in Agents, RejectOptions(a) PROVE SlotConservation'
    <2>1. /\ Goto(a, "done")
          /\ freeSlots' = freeSlots + (IF pc[a] \in HoldsSlot THEN 1 ELSE 0)
                                    - (IF "done" \in HoldsSlot THEN 1 ELSE 0)
      BY <1>0, <1>4 DEF RejectOptions, HoldsSlot
    <2> QED
      BY <2>1, SlotStep
  <1>5. ASSUME NEW a \in Agents, LockFrame(a) PROVE SlotConservation'
    <2>1. /\ Goto(a, "locked")
          /\ freeSlots' = freeSlots + (IF pc[a] \in HoldsSlot THEN 1 ELSE 0)
                                    - (IF "locked" \in HoldsSlot THEN 1 ELSE 0)
      BY <1>0, <1>5 DEF LockFrame, HoldsSlot
    <2> QED
      BY <2>1, SlotStep
  <1>6. ASSUME NEW a \in Agents, Reserve(a) PROVE SlotConservation'
    <2>1. /\ Goto(a, "lookup")
          /\ freeSlots' = freeSlots + (IF pc[a] \in HoldsSlot THEN 1 ELSE 0)
                                    - (IF "lookup" \in HoldsSlot THEN 1 ELSE 0)
      BY <1>0, <1>6 DEF Reserve, HoldsSlot
    <2> QED
      BY <2>1, SlotStep
  <1>7. ASSUME NEW a \in Agents, ReserveOverLimit(a) PROVE SlotConservation'
    <2>1. /\ Goto(a, "halted")
          /\ freeSlots' = freeSlots + (IF pc[a] \in HoldsSlot THEN 1 ELSE 0)
                                    - (IF "halted" \in HoldsSlot THEN 1 ELSE 0)
      BY <1>0, <1>7 DEF ReserveOverLimit, Halt, UnwindLocks, HoldsSlot
    <2> QED
      BY <2>1, SlotStep
  <1>8. ASSUME NEW a \in Agents, CacheHit(a) PROVE SlotConservation'
    <2>1. /\ Goto(a, "hit")
          /\ freeSlots' = freeSlots + (IF pc[a] \in HoldsSlot THEN 1 ELSE 0)
                                    - (IF "hit" \in HoldsSlot THEN 1 ELSE 0)
      BY <1>0, <1>8 DEF CacheHit, HoldsSlot
    <2> QED
      BY <2>1, SlotStep
  <1>9. ASSUME NEW a \in Agents, CacheMiss(a) PROVE SlotConservation'
    <2>1. /\ Goto(a, "queued")
          /\ freeSlots' = freeSlots + (IF pc[a] \in HoldsSlot THEN 1 ELSE 0)
                                    - (IF "queued" \in HoldsSlot THEN 1 ELSE 0)
      BY <1>0, <1>9 DEF CacheMiss, HoldsSlot
    <2> QED
      BY <2>1, SlotStep
  <1>10. ASSUME NEW a \in Agents, ReturnCached(a) PROVE SlotConservation'
    <2>1. /\ Goto(a, "done")
          /\ freeSlots' = freeSlots + (IF pc[a] \in HoldsSlot THEN 1 ELSE 0)
                                    - (IF "done" \in HoldsSlot THEN 1 ELSE 0)
      BY <1>0, <1>10 DEF ReturnCached, HoldsSlot
    <2> QED
      BY <2>1, SlotStep
  <1>11. ASSUME NEW a \in Agents, AcquireSlot(a) PROVE SlotConservation'
    <2>1. /\ Goto(a, "acquired")
          /\ freeSlots' = freeSlots + (IF pc[a] \in HoldsSlot THEN 1 ELSE 0)
                                    - (IF "acquired" \in HoldsSlot THEN 1 ELSE 0)
      BY <1>0, <1>11 DEF AcquireSlot, HoldsSlot
    <2> QED
      BY <2>1, SlotStep
  <1>12. ASSUME NEW a \in Agents, AccountTokens(a) PROVE SlotConservation'
    <2>1. /\ Goto(a, "accounted")
          /\ freeSlots' = freeSlots + (IF pc[a] \in HoldsSlot THEN 1 ELSE 0)
                                    - (IF "accounted" \in HoldsSlot THEN 1 ELSE 0)
      BY <1>0, <1>12 DEF AccountTokens, HoldsSlot
    <2> QED
      BY <2>1, SlotStep
  <1>13. ASSUME NEW a \in Agents, Publish(a) PROVE SlotConservation'
    <2>1. /\ Goto(a, "done")
          /\ freeSlots' = freeSlots + (IF pc[a] \in HoldsSlot THEN 1 ELSE 0)
                                    - (IF "done" \in HoldsSlot THEN 1 ELSE 0)
      BY <1>0, <1>13 DEF Publish, HoldsSlot
    <2> QED
      BY <2>1, SlotStep
  <1>14. ASSUME NEW a \in Agents, Fail(a) PROVE SlotConservation'
    <2>1. /\ Goto(a, "done")
          /\ freeSlots' = freeSlots + (IF pc[a] \in HoldsSlot THEN 1 ELSE 0)
                                    - (IF "done" \in HoldsSlot THEN 1 ELSE 0)
      BY <1>0, <1>14 DEF Fail, HoldsSlot
    <2> QED
      BY <2>1, SlotStep
  <1>15. ASSUME NEW a \in Agents, Skip(a) PROVE SlotConservation'
    <2>1. /\ Goto(a, "done")
          /\ freeSlots' = freeSlots + (IF pc[a] \in HoldsSlot THEN 1 ELSE 0)
                                    - (IF "done" \in HoldsSlot THEN 1 ELSE 0)
      BY <1>0, <1>15 DEF Skip, HoldsSlot
    <2> QED
      BY <2>1, SlotStep
  <1>16. ASSUME NEW a \in Agents, ChildReports(a) PROVE SlotConservation'
    <2>1. /\ Goto(a, "returned")
          /\ freeSlots' = freeSlots + (IF pc[a] \in HoldsSlot THEN 1 ELSE 0)
                                    - (IF "returned" \in HoldsSlot THEN 1 ELSE 0)
      BY <1>0, <1>16 DEF ChildReports, ChildEnds, HoldsSlot
    <2> QED
      BY <2>1, SlotStep
  <1>17. ASSUME NEW a \in Agents, ChildCrashes(a) PROVE SlotConservation'
    <2>1. /\ Goto(a, "returned")
          /\ freeSlots' = freeSlots + (IF pc[a] \in HoldsSlot THEN 1 ELSE 0)
                                    - (IF "returned" \in HoldsSlot THEN 1 ELSE 0)
      BY <1>0, <1>17 DEF ChildCrashes, ChildEnds, HoldsSlot
    <2> QED
      BY <2>1, SlotStep
  <1>18. CASE ScriptReturns \/ ScriptRaises \/ ScriptHalts \/ RunReturns
    BY <1>0, <1>18 DEF Holders, SlotConservation, ScriptReturns, ScriptRaises, ScriptHalts, RunReturns
  <1>19. CASE SetStop \/ PauseGateCloses \/ PauseGateOpens \/ DeadlinePasses
    BY <1>0, <1>19 DEF Holders, SlotConservation, SetStop, PauseGateCloses, PauseGateOpens, DeadlinePasses
  <1>20. CASE UNCHANGED vars
    BY <1>0, <1>20 DEF Holders, SlotConservation, vars
  <1> QED
    BY <1>1, <1>2, <1>3, <1>4, <1>5, <1>6, <1>7, <1>8, <1>9, <1>10, <1>11, <1>12, <1>13, <1>14, <1>15, <1>16, <1>17, <1>18, <1>19, <1>20
    DEF Next, ThreadStep, RunEnd, Outside
-----------------------------------------------------------------------------
(* The cap.                                                                *)
LEMMA NextAgentCap == IInv /\ [Next]_vars => AgentCap'
  <1> SUFFICES ASSUME IInv, [Next]_vars PROVE AgentCap'
    OBVIOUS
  <1>0. ThreadTypeOK /\ RecordInv /\ AgentCap /\ agentCount \in Nat /\ MaxAgents \in Nat
    BY EngineAssumption DEF IInv, TypeOK, CounterTypeOK
  \* A step that leaves the count alone and makes no record.
  <1>a. ASSUME UNCHANGED agentCount,
               \A b \in Agents : status'[b] = "none" <=> status[b] = "none"
        PROVE  AgentCap'
    <2>1. Reserved' = Reserved
      BY <1>a DEF Reserved
    <2> QED
      BY <1>0, <1>a, <2>1 DEF AgentCap
  <1>1. ASSUME NEW a \in Agents, Reserve(a) PROVE AgentCap'
    <2>1. a \notin Reserved
      BY <1>0, <1>1 DEF Reserve, Reserved, RecordInv, BeforeReserve
    <2>2. Reserved' = Reserved \cup {a}
      BY <1>0, <1>1 DEF Reserve, Reserved, ThreadTypeOK
    <2>3. Cardinality(Reserved') = Cardinality(Reserved) + 1
      BY <2>1, <2>2, ReservedFinite, FS_AddElement
    <2>4. agentCount' = agentCount + 1 /\ agentCount < MaxAgents
      BY <1>0, <1>1 DEF Reserve, AtLimit
    <2> QED
      BY <1>0, <2>3, <2>4, ReservedFinite DEF AgentCap
  <1>2. ASSUME NEW a \in Agents, Call(a) PROVE AgentCap'
    BY <1>0, <1>a, <1>2 DEF Call, ThreadTypeOK, RecordInv, BeforeReserve
  <1>3. ASSUME NEW a \in Agents, CheckPasses(a) PROVE AgentCap'
    BY <1>0, <1>a, <1>3 DEF CheckPasses, ThreadTypeOK, RecordInv, BeforeReserve
  <1>4. ASSUME NEW a \in Agents, CheckHalts(a) PROVE AgentCap'
    BY <1>0, <1>a, <1>4 DEF CheckHalts, Halt, ThreadTypeOK, RecordInv, BeforeReserve
  <1>5. ASSUME NEW a \in Agents, RejectOptions(a) PROVE AgentCap'
    BY <1>0, <1>a, <1>5 DEF RejectOptions, ThreadTypeOK, RecordInv, BeforeReserve
  <1>6. ASSUME NEW a \in Agents, LockFrame(a) PROVE AgentCap'
    BY <1>0, <1>a, <1>6 DEF LockFrame, ThreadTypeOK, RecordInv, BeforeReserve
  <1>7. ASSUME NEW a \in Agents, ReserveOverLimit(a) PROVE AgentCap'
    BY <1>0, <1>a, <1>7 DEF ReserveOverLimit, Halt, ThreadTypeOK, RecordInv, BeforeReserve
  <1>8. ASSUME NEW a \in Agents, CacheHit(a) PROVE AgentCap'
    BY <1>0, <1>a, <1>8 DEF CacheHit, ThreadTypeOK, RecordInv, BeforeReserve
  <1>9. ASSUME NEW a \in Agents, CacheMiss(a) PROVE AgentCap'
    BY <1>0, <1>a, <1>9 DEF CacheMiss, ThreadTypeOK, RecordInv, BeforeReserve
  <1>10. ASSUME NEW a \in Agents, ReturnCached(a) PROVE AgentCap'
    BY <1>0, <1>a, <1>10 DEF ReturnCached, ThreadTypeOK, RecordInv, BeforeReserve
  <1>11. ASSUME NEW a \in Agents, AcquireSlot(a) PROVE AgentCap'
    BY <1>0, <1>a, <1>11 DEF AcquireSlot, ThreadTypeOK, RecordInv, BeforeReserve
  <1>12. ASSUME NEW a \in Agents, AccountTokens(a) PROVE AgentCap'
    BY <1>0, <1>a, <1>12 DEF AccountTokens, ThreadTypeOK, RecordInv, BeforeReserve
  <1>13. ASSUME NEW a \in Agents, Publish(a) PROVE AgentCap'
    BY <1>0, <1>a, <1>13 DEF Publish, ThreadTypeOK, RecordInv, BeforeReserve
  <1>14. ASSUME NEW a \in Agents, Fail(a) PROVE AgentCap'
    BY <1>0, <1>a, <1>14 DEF Fail, ThreadTypeOK, RecordInv, BeforeReserve
  <1>15. ASSUME NEW a \in Agents, Skip(a) PROVE AgentCap'
    BY <1>0, <1>a, <1>15 DEF Skip, ThreadTypeOK, RecordInv, BeforeReserve
  <1>16. ASSUME NEW a \in Agents, ChildReports(a) PROVE AgentCap'
    BY <1>0, <1>a, <1>16 DEF ChildReports, ChildEnds, ThreadTypeOK, RecordInv, BeforeReserve
  <1>17. ASSUME NEW a \in Agents, ChildCrashes(a) PROVE AgentCap'
    BY <1>0, <1>a, <1>17 DEF ChildCrashes, ChildEnds, ThreadTypeOK, RecordInv, BeforeReserve
  <1>18. CASE ScriptReturns \/ ScriptRaises \/ ScriptHalts \/ RunReturns
    BY <1>a, <1>18 DEF ScriptReturns, ScriptRaises, ScriptHalts, RunReturns
  <1>19. CASE SetStop \/ PauseGateCloses \/ PauseGateOpens \/ DeadlinePasses
    BY <1>a, <1>19 DEF SetStop, PauseGateCloses, PauseGateOpens, DeadlinePasses
  <1>20. CASE UNCHANGED vars
    BY <1>a, <1>20 DEF vars
  <1> QED
    BY <1>1, <1>2, <1>3, <1>4, <1>5, <1>6, <1>7, <1>8, <1>9, <1>10, <1>11, <1>12, <1>13, <1>14, <1>15, <1>16, <1>17, <1>18, <1>19, <1>20
    DEF Next, ThreadStep, RunEnd, Outside
-----------------------------------------------------------------------------
\* The inductive invariant holds in every reachable state.
LEMMA InvariantHolds == Spec => []IInv
  <1>1. Init => IInv
    BY InitIInv
  <1>2. IInv /\ [Next]_vars => IInv'
    BY NextTypeOK, NextRecordInv, NextSlotConservation, NextAgentCap DEF IInv
  <1> QED
    BY <1>1, <1>2, PTL DEF Spec

\* Every variable of the engine keeps its type; the slot semaphore stays between 0
\* and the configured concurrency (WorkflowExecutionContext.agent_slot).
THEOREM TypeCorrect == Spec => []TypeOK
  <1>1. IInv => TypeOK
    BY DEF IInv
  <1> QED
    BY <1>1, InvariantHolds, PTL

\* Whatever halts, failures and returns interleave, every slot is either free or held
\* by exactly one thread inside agent_slot(): none leaks, none is released twice.
THEOREM SlotsConserved == Spec => []SlotConservation
  <1>1. IInv => SlotConservation
    BY DEF IInv
  <1> QED
    BY <1>1, InvariantHolds, PTL

\* Frames race for reservations under different locks, and still a run never creates
\* more than max_agents records (WorkflowExecutionContext.reserve_agent).
THEOREM AgentCapRespected == Spec => []AgentCap
  <1>1. IInv => AgentCap
    BY DEF IInv
  <1> QED
    BY <1>1, InvariantHolds, PTL

\* No halt, refusal or failure between the reservation's acquire and its end leaves a
\* frame's lock behind, and two threads never hold it at once (WorkflowAPI._agent_sync).
THEOREM FrameLocksReleased == Spec => []FrameLockHeld
  <1>1. Init => FrameLockHeld
    BY EngineAssumption DEF Init, FrameLockHeld
  <1>2. TypeOK /\ FrameLockHeld /\ [Next]_vars => FrameLockHeld'
    <2> SUFFICES ASSUME TypeOK, FrameLockHeld, [Next]_vars PROVE FrameLockHeld'
      OBVIOUS
    <2> USE EngineAssumption DEF FrameLockHeld, Goto
    <2>0. /\ frameLock \in [Frames -> Agents \cup {Null}]
          /\ pc \in [Agents -> PC]
      BY DEF TypeOK, ControlTypeOK, ThreadTypeOK
    <2>1. ASSUME NEW a \in Agents, NEW where, Goto(a, where), UNCHANGED frameLock,
                 pc[a] \notin {"locked", "reserving"}, where \notin {"locked", "reserving"}
          PROVE  FrameLockHeld'
      <3>1. ASSUME NEW f \in Frames, NEW b \in Agents
            PROVE  (frameLock[f] = b <=> FrameOf[b] = f /\ pc[b] \in {"locked", "reserving"})'
        BY <2>0, <2>1, <3>1
      <3> QED
        BY <3>1
    <2>2. ASSUME NEW a \in Agents, Halt(a) PROVE FrameLockHeld'
      BY <2>0, <2>2 DEF Halt, UnwindLocks
    <2>3. ASSUME NEW a \in Agents, CheckPasses(a) PROVE FrameLockHeld'
      <3>1. CASE pc[a] = "locked"
        BY <2>0, <2>3, <3>1 DEF CheckPasses, CheckAt
      <3>2. CASE pc[a] # "locked"
        BY <2>0, <2>1, <2>3, <3>2 DEF CheckPasses, CheckAt
      <3> QED
        BY <3>1, <3>2
    <2>4. ASSUME NEW a \in Agents, LockFrame(a) PROVE FrameLockHeld'
      BY <2>0, <2>4 DEF LockFrame
    <2>5. ASSUME NEW a \in Agents, Reserve(a) PROVE FrameLockHeld'
      BY <2>0, <2>5 DEF Reserve
    <2>6. ASSUME NEW a \in Agents,
                 \/ Call(a) \/ RejectOptions(a) \/ CacheHit(a) \/ CacheMiss(a)
                 \/ ReturnCached(a) \/ AcquireSlot(a) \/ AccountTokens(a)
                 \/ Publish(a) \/ Fail(a) \/ Skip(a) \/ ChildReports(a) \/ ChildCrashes(a)
          PROVE  FrameLockHeld'
      <3>1. /\ UNCHANGED frameLock
            /\ pc[a] \notin {"locked", "reserving"}
            /\ \/ Goto(a, "called") \/ Goto(a, "done") \/ Goto(a, "hit") \/ Goto(a, "queued")
               \/ Goto(a, "acquired") \/ Goto(a, "accounted") \/ Goto(a, "returned")
        BY <2>6
        DEF Call, RejectOptions, CacheHit, CacheMiss, ReturnCached, AcquireSlot,
            AccountTokens, Publish, Fail, Skip, ChildReports, ChildCrashes, ChildEnds
      <3> HIDE DEF Goto, FrameLockHeld
      <3> QED
        BY <2>1, <3>1
    <2>7. ASSUME UNCHANGED <<frameLock, pc>> PROVE FrameLockHeld'
      BY <2>7
    <2>8. CASE ScriptReturns \/ ScriptRaises \/ RunEnd \/ Outside \/ UNCHANGED vars
      BY <2>7, <2>8
      DEF ScriptReturns, ScriptRaises, RunEnd, ScriptHalts, RunReturns, Outside, SetStop,
          PauseGateCloses, PauseGateOpens, DeadlinePasses, vars
    <2> QED
      BY <2>2, <2>3, <2>4, <2>5, <2>6, <2>8 DEF Next, ThreadStep, CheckHalts, ReserveOverLimit
  <1> QED
    BY <1>1, <1>2, TypeCorrect, PTL DEF Spec

\* A child only ever starts in a step that has seen the run neither stopped, nor
\* paused, nor past its deadline, however long the thread waited for its slot.
THEOREM GateBeforeChild == Spec => NoStartPastGate
  <1>1. IInv /\ [Next]_vars =>
          [\A a \in Agents : (pc[a] # "child" /\ pc'[a] = "child")
                               => ~stop /\ ~paused /\ ~expired]_vars
    <2> SUFFICES ASSUME IInv, Next, NEW b \in Agents, pc[b] # "child", pc'[b] = "child"
                 PROVE  RuntimePasses
      BY DEF RuntimePasses
    <2>0. ThreadTypeOK
      BY DEF IInv, TypeOK
    <2>1. ASSUME NEW a \in Agents, NEW where, Goto(a, where), where # "child" PROVE FALSE
      BY <2>0, <2>1 DEF Goto, ThreadTypeOK
    <2>2. ASSUME UNCHANGED pc PROVE FALSE
      BY <2>2
    <2>3. ASSUME NEW a \in Agents, Call(a) \/ ThreadStep(a) \/ ChildReports(a) \/ ChildCrashes(a)
          PROVE  RuntimePasses
      <3>1. CASE CheckPasses(a)
        BY <3>1 DEF CheckPasses
      <3>2. CASE ~CheckPasses(a)
        BY <2>1, <2>3, <3>2
        DEF ThreadStep, Call, CheckHalts, RejectOptions, LockFrame, Reserve,
            ReserveOverLimit, CacheHit, CacheMiss, ReturnCached, AcquireSlot,
            AccountTokens, Publish, Fail, Skip, ChildReports, ChildCrashes,
            ChildEnds, Halt
      <3> QED
        BY <3>1, <3>2
    <2>4. CASE ScriptReturns \/ ScriptRaises \/ RunEnd
      BY <2>2, <2>4 DEF ScriptReturns, ScriptRaises, RunEnd, ScriptHalts, RunReturns
    <2>5. CASE Outside
      BY <2>2, <2>5 DEF Outside, SetStop, PauseGateCloses, PauseGateOpens, DeadlinePasses
    <2> QED
      BY <2>3, <2>4, <2>5 DEF Next
  <1> QED
    BY <1>1, InvariantHolds, PTL DEF Spec, NoStartPastGate
-----------------------------------------------------------------------------
(* The cache, the journal and the budget.  A call has a result only once   *)
(* it was a hit or has ended, and its attempt is known once its child has  *)
(* returned; its end is what journals its result.                          *)
Unanswered == PC \ {"hit", "done"}
Unjudged   == PC \ {"returned", "accounted", "done"}

PathInv ==
  \A a \in Agents :
    /\ pc[a] \in Unanswered => outcome[a] = Null
    /\ pc[a] \in Unjudged => attempt[a] = "none"
    /\ pc[a] \in {"returned", "accounted"} => attempt[a] # "none"

UsedInv ==
  \A a \in Agents :
    (pc[a] \in {"returned", "accounted"} /\ attempt[a] # "crash") => tokens[a] = used[a]

Harvest(k) ==
  {e \in journal : e.type = "result" /\ e.how # "skipped" /\ KeyOf[e.agent] = k}

\* TerminalCacheIsHarvest holds all the time: a result is journalled and put in the
\* cache in one step, and once for a call.
HarvestInv ==
  /\ IsFiniteSet(journal)
  /\ \A e \in journal : e.type = "result" => pc[e.agent] = "done"
  /\ \A k \in Keys : /\ Range(current[k]) = {e.result : e \in Harvest(k)}
                     /\ Len(current[k]) = Cardinality(Harvest(k))

BudgetInv == IsFiniteSet(Charged) /\ TokensChargedOnce

DataInv == PathInv /\ UsedInv /\ CachedResultsUsedOnce /\ HarvestInv /\ BudgetInv

LEMMA InitDataInv == Init => DataInv
  <1> SUFFICES ASSUME Init PROVE DataInv
    OBVIOUS
  <1> USE EngineAssumption DEF Init
  <1>1. PathInv /\ UsedInv
    BY DEF PathInv, UsedInv, Unanswered, Unjudged, PC
  <1>2. CachedResultsUsedOnce
    <2> SUFFICES ASSUME NEW k \in Keys
                 PROVE  /\ previous[k] = SubSeq(Previous[k], Len(Consumed(k)) + 1, Len(Previous[k]))
                        /\ Cardinality(Hits(k)) = Len(Consumed(k))
                        /\ {outcome[a] : a \in Hits(k)} = Range(Consumed(k))
      BY DEF CachedResultsUsedOnce
    <2>1. Previous[k] \in Seq(Old) /\ Len(Previous[k]) \in Nat
      BY LenProperties
    <2>2. Consumed(k) = << >>
      <3>1. Len(Previous[k]) - Len(previous[k]) = 0
        BY <2>1
      <3>2. SubSeq(Previous[k], 1, 0) = << >>
        BY SubSeqEmpty
      <3> QED
        BY <3>1, <3>2 DEF Consumed
    <2>3. Hits(k) = {}
      BY DEF Hits
    <2>4. SubSeq(Previous[k], 1, Len(Previous[k])) = Previous[k]
      BY <2>1, SubSeqFull
    <2>5. Len(<< >>) = 0 /\ Range(<< >>) = {}
      BY DEF Range
    <2> QED
      BY <2>2, <2>3, <2>4, <2>5, FS_EmptySet
  <1>3. HarvestInv
    <2>1. \A k \in Keys : Harvest(k) = {}
      BY DEF Harvest
    <2>2. Len(<< >>) = 0 /\ Range(<< >>) = {}
      BY DEF Range
    <2> QED
      BY <2>1, <2>2, FS_EmptySet DEF HarvestInv
  <1>4. BudgetInv
    <2>1. \A a \in Agents : {a} \X (1..accounted[a]) = {}
      OBVIOUS
    <2>2. Charged = {}
      BY <2>1 DEF Charged
    <2> QED
      BY <2>2, FS_EmptySet DEF BudgetInv, TokensChargedOnce
  <1> QED
    BY <1>1, <1>2, <1>3, <1>4 DEF DataInv

LEMMA NextPathInv == IInv /\ PathInv /\ UsedInv /\ [Next]_vars => (PathInv /\ UsedInv)'
  <1> SUFFICES ASSUME IInv, PathInv, UsedInv, [Next]_vars PROVE (PathInv /\ UsedInv)'
    OBVIOUS
  <1>0. /\ ThreadTypeOK /\ UsageTypeOK
        /\ PathInv /\ UsedInv
    BY DEF IInv, TypeOK
  <1> USE DEF PathInv, UsedInv, Unanswered, Unjudged, PC, ThreadTypeOK, UsageTypeOK, Goto, usageVars
  <1>1. ASSUME NEW a \in Agents, Call(a) PROVE (PathInv /\ UsedInv)'
    BY <1>0, <1>1 DEF Call
  <1>2. ASSUME NEW a \in Agents, CheckPasses(a) PROVE (PathInv /\ UsedInv)'
    <2>1. /\ pc[a] \in {"called", "locked", "queued", "acquired"}
          /\ pc' = [pc EXCEPT ![a] = CheckAt[pc[a]]]
          /\ UNCHANGED <<status, attempt, usageVars, outcome>>
      BY <1>2 DEF CheckPasses, CheckAt
    <2>2. CheckAt[pc[a]] \in {"validated", "reserving", "acquiring", "child"}
      BY <2>1 DEF CheckAt
    <2> QED
      BY <1>0, <2>1, <2>2
  <1>3. ASSUME NEW a \in Agents, Halt(a), pc[a] \notin {"returned", "accounted", "done", "hit"}
        PROVE  (PathInv /\ UsedInv)'
    BY <1>0, <1>3 DEF Halt
  <1>4. ASSUME NEW a \in Agents, CheckHalts(a) \/ ReserveOverLimit(a) PROVE (PathInv /\ UsedInv)'
    BY <1>3, <1>4 DEF CheckHalts, CheckAt, ReserveOverLimit
  <1>5. ASSUME NEW a \in Agents, RejectOptions(a) PROVE (PathInv /\ UsedInv)'
    BY <1>0, <1>5 DEF RejectOptions
  <1>6. ASSUME NEW a \in Agents, LockFrame(a) PROVE (PathInv /\ UsedInv)'
    BY <1>0, <1>6 DEF LockFrame
  <1>7. ASSUME NEW a \in Agents, Reserve(a) PROVE (PathInv /\ UsedInv)'
    BY <1>0, <1>7 DEF Reserve
  <1>8. ASSUME NEW a \in Agents, CacheHit(a) PROVE (PathInv /\ UsedInv)'
    BY <1>0, <1>8 DEF CacheHit
  <1>9. ASSUME NEW a \in Agents, CacheMiss(a) PROVE (PathInv /\ UsedInv)'
    BY <1>0, <1>9 DEF CacheMiss
  <1>10. ASSUME NEW a \in Agents, ReturnCached(a) PROVE (PathInv /\ UsedInv)'
    BY <1>0, <1>10 DEF ReturnCached
  <1>11. ASSUME NEW a \in Agents, AcquireSlot(a) PROVE (PathInv /\ UsedInv)'
    BY <1>0, <1>11 DEF AcquireSlot
  <1>12. ASSUME NEW a \in Agents, AccountTokens(a) PROVE (PathInv /\ UsedInv)'
    BY <1>0, <1>12 DEF AccountTokens, Charge
  <1>13. ASSUME NEW a \in Agents, Publish(a) PROVE (PathInv /\ UsedInv)'
    BY <1>0, <1>13 DEF Publish
  <1>14. ASSUME NEW a \in Agents, Fail(a) PROVE (PathInv /\ UsedInv)'
    BY <1>0, <1>14 DEF Fail, Charge
  <1>15. ASSUME NEW a \in Agents, Skip(a) PROVE (PathInv /\ UsedInv)'
    BY <1>0, <1>15 DEF Skip
  <1>16. ASSUME NEW a \in Agents, NEW how \in {"value", "uncaptured", "skip", "error"},
                NEW n \in Usage, ChildEnds(a, how, n, n)
         PROVE  (PathInv /\ UsedInv)'
    BY <1>0, <1>16 DEF ChildEnds
  <1>17. ASSUME NEW a \in Agents, ChildCrashes(a) PROVE (PathInv /\ UsedInv)'
    BY <1>0, <1>17 DEF ChildCrashes, ChildEnds
  <1>18. CASE ScriptReturns \/ ScriptRaises \/ RunEnd \/ Outside \/ UNCHANGED vars
    BY <1>0, <1>18
    DEF ScriptReturns, ScriptRaises, RunEnd, ScriptHalts, RunReturns, Outside, SetStop,
        PauseGateCloses, PauseGateOpens, DeadlinePasses, vars
  <1> QED
    BY <1>1, <1>2, <1>4, <1>5, <1>6, <1>7, <1>8, <1>9, <1>10, <1>11, <1>12, <1>13, <1>14, <1>15,
       <1>16, <1>17, <1>18
    DEF Next, ThreadStep, ChildReports
-----------------------------------------------------------------------------
(* The cached results.                                                     *)

\* Only a hit pops a result; every other step keeps what the hits hold.
LEMMA HitsChange ==
  ASSUME IInv, PathInv, [Next]_vars
  PROVE  \/ \E a \in Agents : CacheHit(a)
         \/ /\ UNCHANGED previous
            /\ \A k \in Keys : /\ Hits(k)' = Hits(k)
                               /\ \A b \in Hits(k) : outcome'[b] = outcome[b]
  <1>0. ThreadTypeOK /\ PathInv
    BY DEF IInv, TypeOK
  <1> USE DEF ThreadTypeOK, Hits, Goto, cacheVars
  <1> DEFINE Same == /\ UNCHANGED previous
                     /\ \A k \in Keys : /\ Hits(k)' = Hits(k)
                                        /\ \A b \in Hits(k) : outcome'[b] = outcome[b]
  <1>1. ASSUME UNCHANGED <<previous, outcome, attempt>> PROVE Same
    BY <1>1
  <1>2. ASSUME NEW a \in Agents, NEW how, NEW n, NEW m, how # "none", ChildEnds(a, how, n, m)
        PROVE  Same
    <2>1. outcome[a] = Null
      BY <1>0, <1>2 DEF ChildEnds, PathInv, Unanswered, PC
    <2> QED
      BY <1>0, <1>2, <2>1 DEF ChildEnds
  <1>3. ASSUME NEW a \in Agents, Publish(a) PROVE Same
    <2>1. attempt[a] = "value" /\ UNCHANGED <<attempt, previous>>
          /\ outcome' = [outcome EXCEPT ![a] = a]
      BY <1>3 DEF Publish
    <2> QED
      BY <1>0, <2>1
  <1>4. ASSUME NEW a \in Agents, Call(a) \/ ThreadStep(a), ~CacheHit(a), ~Publish(a) PROVE Same
    <2>1. UNCHANGED <<previous, outcome, attempt>>
      BY <1>4 DEF ThreadStep, Call, CheckPasses, CheckHalts, RejectOptions, LockFrame, Reserve,
           ReserveOverLimit, CacheMiss, ReturnCached, AcquireSlot, AccountTokens, Fail, Skip, Halt
    <2> QED
      BY <1>1, <2>1
  <1>5. ASSUME ScriptReturns \/ ScriptRaises \/ RunEnd \/ Outside \/ UNCHANGED vars PROVE Same
    <2>1. UNCHANGED <<previous, outcome, attempt>>
      BY <1>5 DEF ScriptReturns, ScriptRaises, RunEnd, ScriptHalts, RunReturns, Outside, SetStop,
           PauseGateCloses, PauseGateOpens, DeadlinePasses, vars
    <2> QED
      BY <1>1, <2>1
  <1> HIDE DEF Same
  <1>6. ASSUME NEW a \in Agents, ChildReports(a) \/ ChildCrashes(a) PROVE Same
    <2>1. ASSUME ChildReports(a) PROVE Same
      <3>1. PICK how \in {"value", "uncaptured", "skip", "error"}, m \in Usage :
              ChildEnds(a, how, m, m)
        BY <2>1 DEF ChildReports
      <3> QED
        BY <1>2, <3>1
    <2>2. ASSUME ChildCrashes(a) PROVE Same
      <3>1. PICK m \in Usage : ChildEnds(a, "crash", m, 0)
        BY <2>2 DEF ChildCrashes
      <3> QED
        BY <1>2, <3>1
    <2> QED
      BY <1>6, <2>1, <2>2
  <1>7. ASSUME \A a \in Agents : ~CacheHit(a) PROVE Same
    <2>1. ASSUME NEW a \in Agents, Call(a) \/ ThreadStep(a) \/ ChildReports(a) \/ ChildCrashes(a)
          PROVE  Same
      <3>1. CASE Publish(a)
        BY <1>3, <3>1
      <3>2. CASE (Call(a) \/ ThreadStep(a)) /\ ~Publish(a)
        BY <1>4, <1>7, <3>2
      <3>3. CASE ChildReports(a) \/ ChildCrashes(a)
        BY <1>6, <3>3
      <3> QED
        BY <2>1, <3>1, <3>2, <3>3
    <2> QED
      BY <1>5, <2>1 DEF Next
  <1> QED
    BY <1>7 DEF Same

\* The popped result is the next one of the resumed run.
LEMMA PopNext ==
  ASSUME NEW P \in Seq(Old), NEW p, NEW n \in 0..Len(P),
         p = SubSeq(P, n + 1, Len(P)), p # << >>
  PROVE  /\ n + 1 \in 1..Len(P)
         /\ Head(p) = P[n + 1] /\ Head(p) \in Old
         /\ Tail(p) = SubSeq(P, n + 2, Len(P))
         /\ SubSeq(P, 1, n + 1) = SubSeq(P, 1, n) \o << P[n + 1] >>
  <1>1. Len(P) \in Nat
    BY LenProperties
  <1>2. n # Len(P)
    BY <1>1, SubSeqEmpty
  <1>3. n + 1 \in 1..Len(P) /\ Len(P) \in n + 1 .. Len(P)
    BY <1>1, <1>2
  <1>4. Head(p) = P[n + 1] /\ Tail(p) = SubSeq(P, (n + 1) + 1, Len(P))
    BY <1>3, HeadTailOfSubSeq
  <1>5. SubSeq(P, 1, n + 1) = SubSeq(P, 1, (n + 1) - 1) \o << P[n + 1] >>
    <2>1. 1 \in 1..Len(P) /\ n + 1 \in 1..Len(P)
      BY <1>1, <1>3
    <2> QED
      BY <2>1, SubSeqRecursiveSecond
  <1>6. (n + 1) - 1 = n /\ (n + 1) + 1 = n + 2
    OBVIOUS
  <1>7. P[n + 1] \in Old
    BY <1>3, ElementOfSeq
  <1> QED
    BY <1>3, <1>4, <1>5, <1>6, <1>7

LEMMA PrefixLength ==
  ASSUME NEW P \in Seq(Old), NEW n \in 0..Len(P)
  PROVE  SubSeq(P, 1, n) \in Seq(Old) /\ Len(SubSeq(P, 1, n)) = n
  <1>1. Len(P) \in Nat /\ \A i \in 1..n : P[i] \in Old
    BY LenProperties, ElementOfSeq
  <1> QED
    BY <1>1, SubSeqProperties

\* In every state the number consumed is within the bucket.
LEMMA ConsumedBounds ==
  ASSUME IInv, CachedResultsUsedOnce, NEW k \in Keys
  PROVE  /\ Len(Previous[k]) - Len(previous[k]) \in 0..Len(Previous[k])
         /\ Len(Consumed(k)) = Len(Previous[k]) - Len(previous[k])
  <1>1. Previous[k] \in Seq(Old) /\ previous[k] \in Seq(Old)
    BY EngineAssumption DEF IInv, TypeOK, CacheTypeOK
  <1>2. PICK x \in Nat, y \in Nat : x = Len(Previous[k]) /\ y = Len(previous[k])
    BY <1>1, LenProperties
  <1>3. CASE y > x
    <2>1. x - y \in Int /\ x - y < 1
      BY <1>3
    <2>2. Consumed(k) = << >>
      <3>1. SubSeq(Previous[k], 1, x - y) = << >>
        BY <2>1, SubSeqEmpty
      <3> QED
        BY <1>2, <3>1 DEF Consumed
    <2>3. previous[k] = SubSeq(Previous[k], 1, Len(Previous[k]))
      BY <2>2 DEF CachedResultsUsedOnce
    <2>4. previous[k] = Previous[k]
      BY <1>1, <2>3, SubSeqFull
    <2> QED
      BY <1>2, <1>3, <2>4
  <1>4. CASE y <= x
    <2>1. x - y \in 0..x
      BY <1>4
    <2>2. Len(Consumed(k)) = x - y
      BY <1>1, <1>2, <2>1, PrefixLength DEF Consumed
    <2> QED
      BY <1>2, <2>1, <2>2
  <1>5. y > x \/ y <= x
    OBVIOUS
  <1> QED
    BY <1>3, <1>4, <1>5

LEMMA NextCachedResults ==
  IInv /\ PathInv /\ CachedResultsUsedOnce /\ [Next]_vars => CachedResultsUsedOnce'
  <1> SUFFICES ASSUME IInv, PathInv, CachedResultsUsedOnce, [Next]_vars, NEW k \in Keys
               PROVE  /\ previous'[k] = SubSeq(Previous[k], Len(Consumed(k)') + 1, Len(Previous[k]))
                      /\ Cardinality(Hits(k)') = Len(Consumed(k)')
                      /\ {outcome'[a] : a \in Hits(k)'} = Range(Consumed(k)')
    BY DEF CachedResultsUsedOnce
  <1>0. PICK n \in 0..Len(Previous[k]) : n = Len(Previous[k]) - Len(previous[k])
    BY ConsumedBounds
  <1>1. /\ previous[k] = SubSeq(Previous[k], n + 1, Len(Previous[k]))
        /\ Cardinality(Hits(k)) = n
        /\ {outcome[a] : a \in Hits(k)} = Range(Consumed(k))
        /\ n \in 0..Len(Previous[k])
    BY <1>0, ConsumedBounds DEF CachedResultsUsedOnce
  <1>2. /\ Previous[k] \in Seq(Old) /\ previous[k] \in Seq(Old)
        /\ previous \in [Keys -> Seq(Old)] /\ ThreadTypeOK
        /\ Len(Previous[k]) \in Nat /\ Len(previous[k]) \in Nat
    BY EngineAssumption, LenProperties DEF IInv, TypeOK, CacheTypeOK
  <1>3. CASE /\ UNCHANGED previous
             /\ Hits(k)' = Hits(k)
             /\ \A b \in Hits(k) : outcome'[b] = outcome[b]
    <2>1. {outcome'[b] : b \in Hits(k)'} = {outcome[b] : b \in Hits(k)}
      BY <1>3
    <2>2. Consumed(k)' = Consumed(k)
      BY <1>3 DEF Consumed
    <2> QED
      BY <1>0, <1>1, <1>3, <2>1, <2>2, ConsumedBounds
  <1>4. ASSUME NEW a \in Agents, CacheHit(a), KeyOf[a] # k
        PROVE  /\ UNCHANGED previous[k]
               /\ Hits(k)' = Hits(k)
               /\ \A b \in Hits(k) : outcome'[b] = outcome[b]
    BY <1>2, <1>4 DEF CacheHit, Hits, ThreadTypeOK
  <1>5. ASSUME NEW a \in Agents, CacheHit(a), KeyOf[a] # k
        PROVE  /\ previous'[k] = SubSeq(Previous[k], Len(Consumed(k)') + 1, Len(Previous[k]))
               /\ Cardinality(Hits(k)') = Len(Consumed(k)')
               /\ {outcome'[b] : b \in Hits(k)'} = Range(Consumed(k)')
    <2>1. /\ previous'[k] = previous[k]
          /\ Hits(k)' = Hits(k)
          /\ \A b \in Hits(k) : outcome'[b] = outcome[b]
      BY <1>4, <1>5
    <2>2. {outcome'[b] : b \in Hits(k)'} = {outcome[b] : b \in Hits(k)}
      BY <2>1
    <2>3. Consumed(k)' = Consumed(k)
      BY <2>1 DEF Consumed
    <2> QED
      BY <1>0, <1>1, <2>1, <2>2, <2>3, ConsumedBounds
  <1>6. ASSUME NEW a \in Agents, CacheHit(a), KeyOf[a] = k
        PROVE  /\ previous'[k] = SubSeq(Previous[k], Len(Consumed(k)') + 1, Len(Previous[k]))
               /\ Cardinality(Hits(k)') = Len(Consumed(k)')
               /\ {outcome'[b] : b \in Hits(k)'} = Range(Consumed(k)')
    <2>1. /\ previous[k] # << >> /\ pc[a] = "lookup"
          /\ outcome' = [outcome EXCEPT ![a] = Head(previous[k])]
          /\ previous'[k] = Tail(previous[k])
          /\ UNCHANGED attempt
      BY <1>2, <1>6 DEF CacheHit, usageVars
    <2>2. /\ n + 1 \in 1..Len(Previous[k])
          /\ Head(previous[k]) = Previous[k][n + 1] /\ Head(previous[k]) \in Old
          /\ Tail(previous[k]) = SubSeq(Previous[k], n + 2, Len(Previous[k]))
          /\ SubSeq(Previous[k], 1, n + 1) = SubSeq(Previous[k], 1, n) \o << Previous[k][n + 1] >>
      BY <1>1, <1>2, <2>1, PopNext
    <2>3. Len(previous'[k]) = Len(previous[k]) - 1
      BY <1>2, <2>1, HeadTailProperties
    <2>4. Consumed(k)' = SubSeq(Previous[k], 1, n + 1) /\ n + 1 \in 0..Len(Previous[k])
      BY <1>0, <1>2, <2>2, <2>3 DEF Consumed
    <2>5. Len(Consumed(k)') = n + 1
      BY <1>2, <2>4, PrefixLength
    <2>6. attempt[a] = "none" /\ outcome[a] = Null /\ Head(previous[k]) # Null
      BY <2>1, <2>2, EngineAssumption DEF PathInv, Unanswered, Unjudged, PC
    <2>7. Hits(k)' = Hits(k) \cup {a} /\ a \notin Hits(k)
      BY <1>2, <1>6, <2>1, <2>6 DEF Hits, ThreadTypeOK
    <2>8. Cardinality(Hits(k)') = n + 1
      <3>1. IsFiniteSet(Hits(k))
        BY EngineAssumption, FS_Subset DEF Hits
      <3> QED
        BY <1>1, <2>7, <3>1, FS_AddElement
    <2>9. {outcome'[b] : b \in Hits(k)'} = {outcome[b] : b \in Hits(k)} \cup {Previous[k][n + 1]}
      <3>1. outcome'[a] = Previous[k][n + 1]
        BY <1>2, <2>1, <2>2 DEF ThreadTypeOK
      <3>2. \A b \in Hits(k) : outcome'[b] = outcome[b]
        BY <1>2, <2>1, <2>7 DEF Hits, ThreadTypeOK
      <3> QED
        BY <2>7, <3>1, <3>2
    <2>10. Range(Consumed(k)') = Range(Consumed(k)) \cup {Previous[k][n + 1]}
      <3>1. SubSeq(Previous[k], 1, n) \in Seq(Old) /\ << Previous[k][n + 1] >> \in Seq(Old)
        <4>1. Previous[k][n + 1] \in Old
          BY <1>2, <2>2, ElementOfSeq
        <4> QED
          BY <1>2, <4>1, PrefixLength
      <3>2. Range(<< Previous[k][n + 1] >>) = {Previous[k][n + 1]}
        <4>1. DOMAIN << Previous[k][n + 1] >> = {1}
          OBVIOUS
        <4> QED
          BY <4>1 DEF Range
      <3>3. Consumed(k) = SubSeq(Previous[k], 1, n)
        BY <1>0 DEF Consumed
      <3> QED
        <4>1. Range(SubSeq(Previous[k], 1, n) \o << Previous[k][n + 1] >>)
                = Range(SubSeq(Previous[k], 1, n)) \cup Range(<< Previous[k][n + 1] >>)
          BY <3>1, RangeConcatenation
        <4> QED
          BY <2>2, <2>4, <3>2, <3>3, <4>1
    <2> QED
      <3>1. (n + 1) + 1 = n + 2
        BY <1>2
      <3> QED
        BY <1>1, <2>1, <2>2, <2>5, <2>8, <2>9, <2>10, <3>1
  <1> QED
    BY <1>3, <1>5, <1>6, HitsChange
-----------------------------------------------------------------------------
(* The harvest of the journal.                                             *)

\* resume_cache.put and the result event, in the step that ends the call.
Put(a, how, r) ==
  /\ pc[a] # "done" /\ pc' = [pc EXCEPT ![a] = "done"]
  /\ current' = [current EXCEPT ![KeyOf[a]] = Append(@, r)]
  /\ journal' = journal \cup {Event("result", a, how, r)}

\* A step that caches nothing journals nothing the harvest would restore.
Quiet(events) ==
  /\ UNCHANGED current
  /\ \A b \in Agents : pc[b] = "done" => pc'[b] = "done"
  /\ journal' = journal \cup events
  /\ IsFiniteSet(events)
  /\ \A e \in events : e.type = "result" => e.how = "skipped" /\ pc'[e.agent] = "done"

LEMMA JournalSteps ==
  ASSUME IInv, [Next]_vars
  PROVE  \/ \E a \in Agents, how \in {"live", "cached"}, r \in Results : Put(a, how, r)
         \/ \E events : Quiet(events)
  <1>0. ThreadTypeOK /\ RecordInv
    BY DEF IInv, TypeOK
  <1> DEFINE Goal == \/ \E a \in Agents, how \in {"live", "cached"}, r \in Results : Put(a, how, r)
                     \/ \E events : Quiet(events)
  <1> SUFFICES Goal
    OBVIOUS
  <1>1. ASSUME UNCHANGED <<current, journal>>,
               \A b \in Agents : pc[b] = "done" => pc'[b] = "done"
        PROVE  Goal
    <2>1. Quiet({})
      BY <1>1, FS_EmptySet DEF Quiet
    <2> QED
      BY <2>1
  <1>2. ASSUME NEW e, UNCHANGED current, journal' = journal \cup {e},
               \A b \in Agents : pc[b] = "done" => pc'[b] = "done",
               e.type = "result" => e.how = "skipped" /\ pc'[e.agent] = "done"
        PROVE  Goal
    <2>1. Quiet({e})
      BY <1>2, FS_Singleton DEF Quiet
    <2> QED
      BY <2>1
  <1>3. ASSUME NEW a \in Agents, Publish(a) PROVE Goal
    <2>1. Put(a, "live", a) /\ a \in Results
      BY <1>3 DEF Publish, Put, Goto, Results
    <2> QED
      BY <2>1
  <1>4. ASSUME NEW a \in Agents, ReturnCached(a) PROVE Goal
    <2>1. outcome[a] \in Results
      BY <1>0, <1>4 DEF ReturnCached, ThreadTypeOK, RecordInv
    <2>2. Put(a, "cached", outcome[a])
      BY <1>4 DEF ReturnCached, Put, Goto
    <2> QED
      BY <2>1, <2>2
  <1>5. ASSUME NEW a \in Agents, NEW where, Goto(a, where), pc[a] # "done",
               UNCHANGED <<current, journal>>
        PROVE  Goal
    BY <1>0, <1>1, <1>5 DEF Goto, ThreadTypeOK
  <1>6. ASSUME NEW a \in Agents, CacheMiss(a) PROVE Goal
    <2>1. /\ UNCHANGED current
          /\ journal' = journal \cup {Event("started", a, "live", Null)}
          /\ \A b \in Agents : pc[b] = "done" => pc'[b] = "done"
      BY <1>0, <1>6 DEF CacheMiss, cacheVars, Goto, ThreadTypeOK
    <2>2. Event("started", a, "live", Null).type = "started"
      BY DEF Event
    <2> QED
      BY <1>2, <2>1, <2>2
  <1>7. ASSUME NEW a \in Agents, Fail(a) PROVE Goal
    <2>1. /\ UNCHANGED current
          /\ journal' = journal \cup {Event("error", a, "live", Null)}
          /\ \A b \in Agents : pc[b] = "done" => pc'[b] = "done"
      BY <1>0, <1>7 DEF Fail, cacheVars, Goto, ThreadTypeOK
    <2>2. Event("error", a, "live", Null).type = "error"
      BY DEF Event
    <2> QED
      BY <1>2, <2>1, <2>2
  <1>8. ASSUME NEW a \in Agents, Skip(a) PROVE Goal
    <2>1. /\ UNCHANGED current
          /\ journal' = journal \cup {Event("result", a, "skipped", Null)}
          /\ \A b \in Agents : pc[b] = "done" => pc'[b] = "done"
          /\ pc'[a] = "done"
      BY <1>0, <1>8 DEF Skip, cacheVars, Goto, ThreadTypeOK
    <2>2. /\ Event("result", a, "skipped", Null).how = "skipped"
          /\ Event("result", a, "skipped", Null).agent = a
      BY DEF Event
    <2> QED
      BY <1>2, <2>1, <2>2
  <1>9. ASSUME NEW a \in Agents, Halt(a), pc[a] # "done" PROVE Goal
    BY <1>5, <1>9 DEF Halt, cacheVars
  <1>10. ASSUME NEW a \in Agents,
                \/ Call(a) \/ CheckPasses(a) \/ CheckHalts(a) \/ RejectOptions(a) \/ LockFrame(a)
                \/ Reserve(a) \/ ReserveOverLimit(a) \/ CacheHit(a) \/ AcquireSlot(a)
                \/ AccountTokens(a) \/ ChildReports(a) \/ ChildCrashes(a)
         PROVE  Goal
    <2>1. /\ pc[a] # "done"
          /\ UNCHANGED <<current, journal>>
      BY <1>10
      DEF Call, CheckPasses, CheckHalts, CheckAt, RejectOptions, LockFrame, Reserve,
          ReserveOverLimit, CacheHit, AcquireSlot, AccountTokens, ChildReports, ChildCrashes,
          ChildEnds, Halt, cacheVars
    <2>2. \E where : Goto(a, where)
      BY <1>10
      DEF Call, CheckPasses, CheckHalts, RejectOptions, LockFrame, Reserve, ReserveOverLimit,
          CacheHit, AcquireSlot, AccountTokens, ChildReports, ChildCrashes, ChildEnds, Halt
    <2> HIDE DEF Goal
    <2> QED
      BY <1>5, <2>1, <2>2
  <1>11. ASSUME ScriptReturns \/ ScriptRaises \/ RunEnd \/ Outside \/ UNCHANGED vars PROVE Goal
    <2>1. UNCHANGED <<pc, current, journal>>
      BY <1>11
      DEF ScriptReturns, ScriptRaises, RunEnd, ScriptHalts, RunReturns, Outside, SetStop,
          PauseGateCloses, PauseGateOpens, DeadlinePasses, vars, cacheVars
    <2> QED
      BY <1>1, <2>1
  <1> HIDE DEF Goal
  <1> QED
    BY <1>3, <1>4, <1>6, <1>7, <1>8, <1>10, <1>11 DEF Next, ThreadStep

LEMMA AppendRange ==
  ASSUME NEW S, NEW s \in Seq(S), NEW x \in S
  PROVE  Range(Append(s, x)) = Range(s) \cup {x}
  <1>1. Append(s, x) = s \o << x >> /\ << x >> \in Seq(S)
    BY AppendIsConcat
  <1>2. DOMAIN << x >> = {1}
    OBVIOUS
  <1>3. Range(<< x >>) = {x}
    BY <1>2 DEF Range
  <1>4. Range(s \o << x >>) = Range(s) \cup Range(<< x >>)
    BY <1>1, RangeConcatenation
  <1> QED
    BY <1>1, <1>3, <1>4

LEMMA NextHarvestInv == IInv /\ HarvestInv /\ [Next]_vars => HarvestInv'
  <1> SUFFICES ASSUME IInv, HarvestInv, [Next]_vars PROVE HarvestInv'
    OBVIOUS
  <1>0. /\ ThreadTypeOK /\ CacheTypeOK /\ IsFiniteSet(journal)
        /\ \A e \in journal : e.type = "result" => pc[e.agent] = "done"
    BY DEF IInv, TypeOK, HarvestInv
  <1>1. ASSUME NEW events, Quiet(events) PROVE HarvestInv'
    <2>1. \A e \in events : ~(e.type = "result" /\ e.how # "skipped")
      BY <1>1 DEF Quiet
    <2>2. \A k \in Keys : Harvest(k)' = Harvest(k)
      BY <1>1, <2>1 DEF Quiet, Harvest
    <2>3. IsFiniteSet(journal')
      BY <1>0, <1>1, FS_Union DEF Quiet
    <2>4. \A e \in journal' : e.type = "result" => pc'[e.agent] = "done"
      <3>1. \A e \in journal : e.type = "result" => e.agent \in Agents
        BY <1>0 DEF CacheTypeOK, Events
      <3> QED
        BY <1>0, <1>1, <3>1 DEF Quiet
    <2>5. UNCHANGED current
      BY <1>1 DEF Quiet
    <2> QED
      BY <2>2, <2>3, <2>4, <2>5 DEF HarvestInv
  <1>2. ASSUME NEW a \in Agents, NEW how \in {"live", "cached"}, NEW r \in Results, Put(a, how, r)
        PROVE  HarvestInv'
    <2> DEFINE new == Event("result", a, how, r)
    <2>1. /\ new.type = "result" /\ new.how = how /\ new.agent = a /\ new.result = r
          /\ new.how # "skipped"
      BY DEF Event
    <2>2. /\ pc[a] # "done" /\ pc' = [pc EXCEPT ![a] = "done"]
          /\ current' = [current EXCEPT ![KeyOf[a]] = Append(@, r)]
          /\ journal' = journal \cup {new}
      BY <1>2 DEF Put
    <2> HIDE DEF new
    <2>3. new \notin journal
      BY <1>0, <2>1, <2>2
    <2>4. IsFiniteSet(journal')
      BY <1>0, <2>2, FS_AddElement
    <2>5. \A e \in journal' : e.type = "result" => pc'[e.agent] = "done"
      <3>1. \A e \in journal : e.agent \in Agents
        BY <1>0 DEF CacheTypeOK, Events
      <3> QED
        BY <1>0, <2>1, <2>2, <3>1 DEF ThreadTypeOK
    <2>6. ASSUME NEW k \in Keys
          PROVE  /\ Range(current[k])' = {e.result : e \in Harvest(k)'}
                 /\ Len(current[k])' = Cardinality(Harvest(k)')
      <3>1. /\ Range(current[k]) = {e.result : e \in Harvest(k)}
            /\ Len(current[k]) = Cardinality(Harvest(k))
            /\ IsFiniteSet(Harvest(k))
        BY <1>0, FS_Subset DEF HarvestInv, Harvest
      <3>2. CASE k = KeyOf[a]
        <4>1. Harvest(k)' = Harvest(k) \cup {new} /\ new \notin Harvest(k)
          BY <2>1, <2>2, <2>3, <3>2 DEF Harvest
        <4>2. current[k] \in Seq(Results) /\ current'[k] = Append(current[k], r)
          BY <1>0, <2>2, <3>2 DEF CacheTypeOK
        <4>3. Range(Append(current[k], r)) = Range(current[k]) \cup {r}
          BY <4>2, AppendRange
        <4>4. Len(Append(current[k], r)) = Len(current[k]) + 1
          BY <4>2, AppendProperties
        <4>5. Cardinality(Harvest(k)') = Cardinality(Harvest(k)) + 1
          BY <3>1, <4>1, FS_AddElement
        <4>6. {e.result : e \in Harvest(k)'} = {e.result : e \in Harvest(k)} \cup {r}
          BY <2>1, <4>1
        <4> QED
          BY <3>1, <4>2, <4>3, <4>4, <4>5, <4>6
      <3>3. CASE k # KeyOf[a]
        <4>1. Harvest(k)' = Harvest(k)
          BY <2>1, <2>2, <3>3 DEF Harvest
        <4>2. current'[k] = current[k]
          BY <1>0, <2>2, <3>3 DEF CacheTypeOK
        <4> QED
          BY <3>1, <4>1, <4>2
      <3> QED
        BY <3>2, <3>3
    <2> QED
      BY <2>4, <2>5, <2>6 DEF HarvestInv
  <1> QED
    BY <1>1, <1>2, JournalSteps
-----------------------------------------------------------------------------
(* The budget.                                                             *)

\* A call's first charge adds its tokens and nobody else's.
LEMMA FirstCharge ==
  ASSUME UsageTypeOK, IsFiniteSet(Charged), NEW a \in Agents, NEW n \in Nat,
         accounted[a] = 0, accounted' = [accounted EXCEPT ![a] = n]
  PROVE  IsFiniteSet(Charged') /\ Cardinality(Charged') = Cardinality(Charged) + n
  <1> DEFINE own == {a} \X (1..n)
  <1>1. Charged' = Charged \cup own
    BY DEF Charged, UsageTypeOK
  <1>2. Charged \cap own = {}
    BY DEF Charged
  <1>3. IsFiniteSet(own) /\ Cardinality(own) = n
    <2>1. IsFiniteSet({a}) /\ Cardinality({a}) = 1
      BY FS_Singleton
    <2>2. IsFiniteSet(1..n) /\ Cardinality(1..n) = n
      BY FS_Interval
    <2>3. IsFiniteSet(own) /\ Cardinality(own) = Cardinality({a}) * Cardinality(1..n)
      BY <2>1, <2>2, FS_Product
    <2> QED
      BY <2>1, <2>2, <2>3
  <1> HIDE DEF own
  <1>4. /\ IsFiniteSet(Charged \cup own)
        /\ Cardinality(Charged \cup own)
             = Cardinality(Charged) + Cardinality(own) - Cardinality(Charged \cap own)
    BY <1>3, FS_Union
  <1>5. Cardinality(Charged) \in Nat /\ Cardinality(Charged \cap own) = 0
    BY <1>2, FS_CardinalityType, FS_EmptySet
  <1> QED
    BY <1>1, <1>3, <1>4, <1>5

LEMMA NextBudgetInv ==
  IInv /\ PathInv /\ UsedInv /\ BudgetInv /\ [Next]_vars => BudgetInv'
  <1> SUFFICES ASSUME IInv, PathInv, UsedInv, BudgetInv, [Next]_vars PROVE BudgetInv'
    OBVIOUS
  <1> DEFINE Settled(a) == (pc[a] = "done" /\ attempt[a] \in {"value", "uncaptured", "error"})
                             => accounted[a] = used[a]
  <1>0. /\ ThreadTypeOK /\ UsageTypeOK /\ ChargeInv /\ spent \in Nat
        /\ IsFiniteSet(Charged) /\ spent = Cardinality(Charged)
        /\ \A a \in Agents : Settled(a)
    BY DEF IInv, TypeOK, CounterTypeOK, BudgetInv, TokensChargedOnce
  <1>1. ASSUME UNCHANGED <<spent, accounted>>, \A a \in Agents : Settled(a)'
        PROVE  BudgetInv'
    <2>1. Charged' = Charged
      BY <1>1 DEF Charged
    <2> QED
      BY <1>0, <1>1, <2>1 DEF BudgetInv, TokensChargedOnce
  <1>2. ASSUME NEW a \in Agents, Charge(a), pc[a] \in {"returned", "accounted"},
               \A b \in Agents : Settled(b)'
        PROVE  BudgetInv'
    <2>1. CASE pc[a] = "returned"
      <3>1. accounted[a] = 0 /\ tokens[a] \in Nat
        BY <1>0, <2>1 DEF ChargeInv, UsageTypeOK
      <3>2. /\ spent' = spent + tokens[a]
            /\ accounted' = [accounted EXCEPT ![a] = tokens[a]]
        BY <1>0, <1>2, <3>1 DEF Charge
      <3>3. IsFiniteSet(Charged') /\ Cardinality(Charged') = Cardinality(Charged) + tokens[a]
        BY <1>0, <3>1, <3>2, FirstCharge
      <3> QED
        BY <1>0, <1>2, <3>2, <3>3 DEF BudgetInv, TokensChargedOnce
    <2>2. CASE pc[a] = "accounted"
      <3>1. accounted[a] = tokens[a]
        BY <1>0, <2>2 DEF ChargeInv
      <3>2. UNCHANGED <<spent, accounted>>
        BY <1>0, <1>2, <3>1 DEF Charge, UsageTypeOK
      <3> QED
        BY <1>1, <1>2, <3>2
    <2> QED
      BY <1>2, <2>1, <2>2
  <1>3. ASSUME NEW a \in Agents, AccountTokens(a) PROVE BudgetInv'
    <2>1. \A b \in Agents : Settled(b)'
      BY <1>0, <1>3 DEF AccountTokens, Charge, Goto, ThreadTypeOK, UsageTypeOK
    <2> QED
      BY <1>2, <1>3, <2>1 DEF AccountTokens
  <1>4. ASSUME NEW a \in Agents, Fail(a) PROVE BudgetInv'
    <2>1. attempt[a] # "crash" => tokens[a] = used[a]
      BY <1>4 DEF Fail, UsedInv
    <2>2. \A b \in Agents : Settled(b)'
      BY <1>0, <1>4, <2>1 DEF Fail, Charge, Goto, ThreadTypeOK, UsageTypeOK
    <2> QED
      BY <1>2, <1>4, <2>2 DEF Fail
  <1>5. ASSUME NEW a \in Agents, Publish(a) PROVE BudgetInv'
    <2>1. accounted[a] = used[a]
      BY <1>0, <1>5 DEF Publish, UsedInv, ChargeInv
    <2>2. \A b \in Agents : Settled(b)'
      BY <1>0, <1>5, <2>1 DEF Publish, Goto, ThreadTypeOK, usageVars
    <2> QED
      BY <1>1, <1>5, <2>2 DEF Publish, usageVars
  <1>6. ASSUME NEW a \in Agents, ReturnCached(a) \/ RejectOptions(a) PROVE BudgetInv'
    <2>1. attempt[a] = "none"
      BY <1>6 DEF ReturnCached, RejectOptions, PathInv, Unjudged, PC
    <2>2. \A b \in Agents : Settled(b)'
      BY <1>0, <1>6, <2>1 DEF ReturnCached, RejectOptions, Goto, ThreadTypeOK, usageVars
    <2> QED
      BY <1>1, <1>6, <2>2 DEF ReturnCached, RejectOptions, usageVars
  <1>7. ASSUME NEW a \in Agents, Skip(a) PROVE BudgetInv'
    <2>1. \A b \in Agents : Settled(b)'
      BY <1>0, <1>7 DEF Skip, Goto, ThreadTypeOK
    <2> QED
      BY <1>1, <1>7, <2>1 DEF Skip
  <1>8. ASSUME NEW a \in Agents, NEW how, NEW n, NEW m, ChildEnds(a, how, n, m) PROVE BudgetInv'
    <2>1. \A b \in Agents : Settled(b)'
      BY <1>0, <1>8 DEF ChildEnds, Goto, ThreadTypeOK, UsageTypeOK
    <2> QED
      BY <1>1, <1>8, <2>1 DEF ChildEnds
  <1>9. ASSUME NEW a \in Agents, NEW where, Goto(a, where), where # "done",
               UNCHANGED <<spent, accounted, used, attempt>>
        PROVE  BudgetInv'
    <2>1. \A b \in Agents : Settled(b)'
      BY <1>0, <1>9 DEF Goto, ThreadTypeOK
    <2> QED
      BY <1>1, <1>9, <2>1
  <1>10. ASSUME NEW a \in Agents, CheckPasses(a) PROVE BudgetInv'
    <2>1. /\ Goto(a, CheckAt[pc[a]]) /\ CheckAt[pc[a]] # "done"
          /\ UNCHANGED <<spent, accounted, used, attempt>>
      BY <1>10 DEF CheckPasses, CheckAt, usageVars
    <2> QED
      BY <1>9, <2>1
  <1>11. ASSUME NEW a \in Agents,
                \/ Call(a) \/ CheckHalts(a) \/ LockFrame(a) \/ Reserve(a) \/ ReserveOverLimit(a)
                \/ CacheHit(a) \/ CacheMiss(a) \/ AcquireSlot(a)
         PROVE  BudgetInv'
    <2>1. /\ UNCHANGED <<spent, accounted, used, attempt>>
          /\ \/ Goto(a, "called") \/ Goto(a, "halted") \/ Goto(a, "locked") \/ Goto(a, "lookup")
             \/ Goto(a, "hit") \/ Goto(a, "queued") \/ Goto(a, "acquired")
      BY <1>11
      DEF Call, CheckHalts, LockFrame, Reserve, ReserveOverLimit, CacheHit, CacheMiss, AcquireSlot,
          Halt, usageVars
    <2> QED
      BY <1>9, <2>1
  <1>12. ASSUME ScriptReturns \/ ScriptRaises \/ RunEnd \/ Outside \/ UNCHANGED vars
         PROVE  BudgetInv'
    <2>1. UNCHANGED <<pc, attempt, used, accounted, spent>>
      BY <1>12
      DEF ScriptReturns, ScriptRaises, RunEnd, ScriptHalts, RunReturns, Outside, SetStop,
          PauseGateCloses, PauseGateOpens, DeadlinePasses, vars, usageVars
    <2> QED
      BY <1>0, <1>1, <2>1
  <1> QED
    BY <1>3, <1>4, <1>5, <1>6, <1>7, <1>8, <1>10, <1>11, <1>12
    DEF Next, ThreadStep, ChildReports, ChildCrashes
-----------------------------------------------------------------------------
LEMMA DataInvHolds == Spec => []DataInv
  <1>1. Init => DataInv
    BY InitDataInv
  <1>2. IInv /\ DataInv /\ [Next]_vars => DataInv'
    BY NextPathInv, NextCachedResults, NextHarvestInv, NextBudgetInv DEF DataInv
  <1> QED
    BY <1>1, <1>2, InvariantHolds, PTL DEF Spec

\* Calls race for the resume cache and two of them never share an entry: what the hits
\* hold is what was popped, in the order the resumed run stored it (ResumeCache.get).
THEOREM CachedResultsTaken == Spec => []CachedResultsUsedOnce
  <1>1. DataInv => CachedResultsUsedOnce
    BY DEF DataInv
  <1> QED
    BY <1>1, DataInvHolds, PTL

\* A run that crashes and a run that ends offer the same results to the next resume:
\* the cache a terminal save stores is the one the journal's harvest rebuilds, skips
\* apart (WorkflowAPI._agent_sync, harvest_journal_results).
THEOREM HarvestAgrees == Spec => []TerminalCacheIsHarvest
  <1>1. DataInv => TerminalCacheIsHarvest
    BY DEF DataInv, HarvestInv, Harvest, TerminalCacheIsHarvest
  <1> QED
    BY <1>1, DataInvHolds, PTL

\* Whatever order children return, fail and are accounted for in, the budget counter is
\* the sum of the charges, and a call that reported is charged once and in full
\* (WorkflowExecutionContext.record_tokens, attempt_accounted_tokens).
THEOREM TokensCharged == Spec => []TokensChargedOnce
  <1>1. DataInv => TokensChargedOnce
    BY DEF DataInv, BudgetInv
  <1> QED
    BY <1>1, DataInvHolds, PTL
=============================================================================
