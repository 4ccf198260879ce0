--------------------------- MODULE ScriptCallsProofs ---------------------------
(***************************************************************************)
(* Proofs about ScriptCalls, for any number of lanes, stages and slots.     *)
(***************************************************************************)
EXTENDS ScriptCalls, FiniteSetTheorems, SequenceTheorems, TLAPS

Statuses == {"queued", "running", "done", "error"}
Pending  == {"queued", "running"}
Staged   == {"looking", "starting", "acquiring", "acquired", "polling"}
Owning   == Staged \cup {"halted"}

SpotTypes ==
  /\ stopSet \in BOOLEAN /\ held \in BOOLEAN /\ late \in BOOLEAN /\ chainOpen \in BOOLEAN
  /\ spot \in {"script", "direct", "helper", "over"} /\ helper \in Helpers
  /\ steps \in 0..MaxSteps
  /\ lane \in [Lanes -> {"out", "checking", "working", "value", "none", "halted"}]
  /\ callAt \in [Callers -> CallSpots]
  /\ ending \in {"running", "completed", "stopped", "error"}

RecordTypes ==
  /\ records \in Seq(Statuses) /\ Len(records) <= MaxStages
  /\ stageOf \in [Callers -> 0..MaxStages]

\* Which coroutine can have a call under way, and where a halt can be.
SpotInv ==
  /\ ending = "running" <=> spot # "over"
  /\ \A l \in Lanes :
       /\ callAt[l] # "none" => lane[l] \in {"working", "halted"}
       /\ lane[l] = "halted" => callAt[l] \in {"none", "halted"}
       /\ spot \in {"script", "direct"} => callAt[l] = "none" /\ lane[l] # "halted"
       /\ (spot = "over" /\ ~Halted) => callAt[l] = "none"
  /\ callAt[Main] \notin {"none", "halted"} => spot = "direct"
  /\ callAt[Main] = "halted" => spot \in {"direct", "over"}
  /\ spot = "direct" => callAt[Main] # "none"

\* Every pending record is the stage of a call that goes on, or was halted, and of no other.
RecordInv ==
  /\ \A c \in Callers : callAt[c] \in Staged =>
       stageOf[c] \in 1..Len(records) /\ records[stageOf[c]] \in Pending
  /\ \A c, d \in Callers :
       (c # d /\ callAt[c] \in Staged /\ callAt[d] \in Staged) => stageOf[c] # stageOf[d]
  /\ \A i \in 1..Len(records) : records[i] \in Pending =>
       \E c \in Callers : stageOf[c] = i /\ callAt[c] \in Owning

\* Only the last topology can be open, and is while the script is inside it.
MembersInv ==
  /\ shapes \in Seq(Shapes)
  /\ \A i \in 1..Len(shapes) : shapes[i].members \subseteq 1..Len(records)
OpenInv ==
  /\ \A i \in 1..Len(shapes) : (i # Len(shapes) \/ spot \in {"script", "over"}) => ~shapes[i].open
  /\ (spot = "helper" \/ callAt[Main] \in Working) => Len(shapes) # 0 /\ shapes[Len(shapes)].open
  /\ \A c \in Callers : callAt[c] \in Working => Len(shapes) # 0
SettledInv ==
  \A i \in 1..Len(shapes) : (~shapes[i].open /\ ~Halted) =>
    \A j \in shapes[i].members : records[j] \notin Pending
ShapeInv == MembersInv /\ OpenInv /\ SettledInv

EndInv ==
  ending = "completed" =>
    /\ ~Halted /\ \A c \in Callers : callAt[c] = "none"
    /\ \A i \in 1..Len(records) : records[i] \notin Pending

SInv == SpotTypes /\ RecordTypes /\ SpotInv /\ RecordInv /\ ShapeInv /\ EndInv
-----------------------------------------------------------------------------
LEMMA CallersAre == /\ Main \in Callers /\ Lanes \subseteq Callers /\ Callers = Lanes \cup {Main}
                    /\ Main \notin Lanes
  BY ScriptAssumption DEF Callers

LEMMA ScriptInitKeeps == ScriptInit => SInv
<1> SUFFICES ASSUME ScriptInit PROVE SInv
  OBVIOUS
<1> USE DEF ScriptInit
<1>1. records = << >> /\ shapes = << >> /\ Len(records) = 0 /\ Len(shapes) = 0
  OBVIOUS
<1>2. SpotTypes
  <2>1. steps \in 0..MaxSteps
    BY ScriptAssumption
  <2> QED
    BY <2>1 DEF SpotTypes, Helpers, CallSpots
<1>3. RecordTypes
  BY <1>1, ScriptAssumption DEF RecordTypes
<1>4. SpotInv
  BY CallersAre DEF SpotInv
<1>5. RecordInv
  BY <1>1 DEF RecordInv, Owning, Staged
<1>6. ShapeInv
  BY <1>1, CallersAre DEF ShapeInv, MembersInv, OpenInv, SettledInv, Working
<1>7. EndInv
  BY DEF EndInv
<1> QED
  BY <1>2, <1>3, <1>4, <1>5, <1>6, <1>7 DEF SInv
-----------------------------------------------------------------------------
(* Where the coroutines are.                                               *)

LEMMA SpotTypesKept == ASSUME SInv, ScriptNext PROVE SpotTypes'
<1>1. SpotTypes
  BY DEF SInv
<1> USE <1>1, CallersAre, ScriptAssumption DEF SpotTypes, CallSpots, Helpers
<1>2. CASE Environment
  BY <1>2 DEF Environment, bodyVars, callVars, frameVars
<1>3. CASE DirectReturns
  BY <1>3 DEF DirectReturns, Raise, CloseShape, clockVars
<1>4. CASE JoinHelper \/ HelperHalts
  BY <1>4 DEF JoinHelper, HelperHalts, Raise, CloseShape, clockVars, callVars
<1>5. CASE ScriptEnds
  BY <1>5 DEF ScriptEnds, Raise, clockVars, callVars, frameVars
<1>6. ASSUME NEW kind \in Helpers, BeginHelper(kind) PROVE SpotTypes'
  <2>1. steps' \in 0..MaxSteps
    BY <1>6 DEF BeginHelper
  <2>2. lane' = [l \in Lanes |-> "checking"]
    BY <1>6 DEF BeginHelper
  <2>3. /\ chainOpen' = FALSE /\ spot' = "helper" /\ helper' = kind
        /\ UNCHANGED <<stopSet, held, late, callAt, ending>>
    BY <1>6 DEF BeginHelper, OpenHelper, clockVars, callVars
  <2> QED
    BY <2>1, <2>2, <2>3
<1>7. ASSUME NEW l \in Lanes, LaneStep(l) PROVE SpotTypes'
  BY <1>7 DEF LaneStep, LaneChecks, LaneGoesOn, LaneReturns, LaneTo, CallTo, clockVars, callVars,
              frameVars
<1>8. ASSUME NEW c \in Callers, CallCodex(c) PROVE SpotTypes'
  <2>1. steps' \in 0..MaxSteps /\ spot' \in {"script", "direct", "helper", "over"}
    BY <1>8 DEF CallCodex, MayCall
  <2>2. chainOpen' \in BOOLEAN
    BY <1>8 DEF CallCodex, Stays, OpenSequential, frameVars
  <2>3. callAt' \in [Callers -> CallSpots]
    BY <1>8 DEF CallCodex, Stays, CallTo
  <2> QED
    BY <1>8, <2>1, <2>2, <2>3 DEF CallCodex, clockVars
<1>9. ASSUME NEW c \in Callers, CallStep(c) PROVE SpotTypes'
  BY <1>9 DEF CallStep, ReserveStage, LookUpStage, TakeSlot, LaunchStage, PollStage, Stays, Settle,
              CallTo, clockVars, bodyVars, frameVars
<1> QED
  BY <1>2, <1>3, <1>4, <1>5, <1>6, <1>7, <1>8, <1>9 DEF ScriptNext, BodyStep

\* What a step of a call does to the coroutines.
LEMMA CallMoves ==
  ASSUME SInv, NEW c \in Callers, CallStep(c)
  PROVE  /\ UNCHANGED bodyVars /\ UNCHANGED clockVars
         /\ callAt[c] \in Working
         /\ \E where \in (Working \cup {"ok", "failed", "halted"}) \ {"called"} :
              callAt' = [callAt EXCEPT ![c] = where]
  BY DEF CallStep, ReserveStage, LookUpStage, TakeSlot, LaunchStage, PollStage, Stays, Settle,
         CallTo, Working, CallSpots

LEMMA SpotsKept ==
  ASSUME SInv, ScriptNext PROVE SpotInv' /\ (Halted => Halted')
<1>1. SpotTypes /\ SpotInv
  BY DEF SInv
<1> USE <1>1, CallersAre DEF SpotTypes, SpotInv, Halted
<1>2. CASE Environment
  BY <1>2 DEF Environment, bodyVars, callVars, frameVars
<1>3. CASE DirectReturns
  BY <1>3 DEF DirectReturns, Raise, CloseShape, clockVars
<1>4. CASE JoinHelper
  BY <1>4 DEF JoinHelper, Raise, CloseShape, clockVars, callVars
<1>5. CASE HelperHalts
  BY <1>5 DEF HelperHalts, Raise, CloseShape, clockVars, callVars
<1>6. CASE ScriptEnds
  BY <1>6 DEF ScriptEnds, Raise, clockVars, callVars, frameVars
<1>7. ASSUME NEW kind \in Helpers, BeginHelper(kind) PROVE SpotInv' /\ (Halted => Halted')
  BY <1>7 DEF BeginHelper, OpenHelper, clockVars, callVars
<1>8. ASSUME NEW l \in Lanes, LaneStep(l) PROVE SpotInv' /\ (Halted => Halted')
  <2>1. CASE LaneChecks(l)
    BY <1>8, <2>1 DEF LaneStep, LaneChecks, LaneTo, clockVars, callVars, frameVars
  <2>2. CASE LaneGoesOn(l)
    BY <1>8, <2>2 DEF LaneStep, LaneGoesOn, LaneTo, clockVars, callVars, frameVars
  <2>3. CASE LaneReturns(l)
    BY <1>8, <2>3 DEF LaneStep, LaneReturns, LaneTo, CallTo, clockVars, frameVars
  <2> QED
    BY <1>8, <2>1, <2>2, <2>3 DEF LaneStep
<1>9. ASSUME NEW c \in Callers, CallCodex(c) PROVE SpotInv' /\ (Halted => Halted')
  <2>1. /\ callAt[c] = "none" /\ ending = "running" /\ UNCHANGED <<ending, lane>>
        /\ \E where \in {"halted", "failed", "called"} : callAt' = [callAt EXCEPT ![c] = where]
        /\ IF c = Main THEN spot = "script" /\ spot' = "direct"
                       ELSE spot = "helper" /\ lane[c] = "working" /\ spot' = spot
    BY <1>9 DEF CallCodex, MayCall, Stays, CallTo
  <2>2. CASE c = Main
    BY <2>1, <2>2
  <2>3. CASE c # Main
    BY <2>1, <2>3
  <2> QED
    BY <2>2, <2>3
<1>10. ASSUME NEW c \in Callers, CallStep(c) PROVE SpotInv' /\ (Halted => Halted')
  <2>1. UNCHANGED <<spot, lane, ending>>
    BY <1>10, CallMoves DEF bodyVars
  <2>2. PICK where \in (Working \cup {"ok", "failed", "halted"}) \ {"called"} :
          callAt' = [callAt EXCEPT ![c] = where]
    BY <1>10, CallMoves
  <2>3. callAt[c] \in Working
    BY <1>10, CallMoves
  <2>4. Halted => Halted'
    BY <2>1, <2>2, <2>3 DEF Working
  <2>5. CASE c = Main
    BY <2>1, <2>2, <2>3, <2>4, <2>5 DEF Working, CallSpots
  <2>6. CASE c # Main
    BY <2>1, <2>2, <2>3, <2>4, <2>6 DEF Working, CallSpots
  <2> QED
    BY <2>4, <2>5, <2>6
<1> QED
  BY <1>2, <1>3, <1>4, <1>5, <1>6, <1>7, <1>8, <1>9, <1>10 DEF ScriptNext, BodyStep
-----------------------------------------------------------------------------
(* Records.                                                                *)

\* The three kinds of steps of a call: it reserves a record, it leaves the records alone, or
\* it marks its own.
Reserves(c) ==
  /\ callAt[c] = "called" /\ callAt' = [callAt EXCEPT ![c] = "looking"]
  /\ Len(records) < MaxStages
  /\ records' = Append(records, "queued")
  /\ stageOf' = [stageOf EXCEPT ![c] = Len(records) + 1]
  /\ shapes' = [shapes EXCEPT ![Len(shapes)].members = @ \cup {Len(records) + 1}]

Proceeds(c) ==
  /\ \/ callAt[c] = "called" /\ callAt' = [callAt EXCEPT ![c] = "halted"]
     \/ callAt[c] \in Staged
        /\ \E where \in Owning : callAt' = [callAt EXCEPT ![c] = where]
  /\ UNCHANGED <<records, stageOf, shapes>>

Marks(c) ==
  /\ callAt[c] \in Staged
  /\ \/ /\ \E what \in {"done", "error"} : Mark(c, what)
        /\ \E where \in {"ok", "failed"} : callAt' = [callAt EXCEPT ![c] = where]
     \/ /\ Mark(c, "running")
        /\ \E where \in Owning : callAt' = [callAt EXCEPT ![c] = where]
  /\ UNCHANGED <<stageOf, shapes>>

LEMMA CallStepKinds ==
  ASSUME NEW c \in Callers, CallStep(c) PROVE Reserves(c) \/ Proceeds(c) \/ Marks(c)
<1> USE DEF Owning, Staged, Stays, CallTo, frameVars, Reserves, Proceeds, Marks
<1>1. CASE ReserveStage(c)
  BY <1>1, Zenon DEF ReserveStage
<1>2. CASE LookUpStage(c)
  BY <1>2 DEF LookUpStage
<1>3. CASE TakeSlot(c)
  BY <1>3 DEF TakeSlot
<1>4. CASE LaunchStage(c)
  BY <1>4 DEF LaunchStage, Settle
<1>5. CASE PollStage(c)
  BY <1>5 DEF PollStage, Settle
<1> QED
  BY <1>1, <1>2, <1>3, <1>4, <1>5 DEF CallStep

LEMMA MarkChanges ==
  ASSUME RecordTypes, NEW c \in Callers, stageOf[c] \in 1..Len(records),
         NEW what \in Statuses, Mark(c, what)
  PROVE  /\ records' \in Seq(Statuses) /\ Len(records') = Len(records)
         /\ \A j \in 1..Len(records) :
              records'[j] = IF j = stageOf[c] THEN what ELSE records[j]
  BY ExceptSeq DEF RecordTypes, Mark

LEMMA ReserveChanges ==
  ASSUME RecordTypes, records' = Append(records, "queued")
  PROVE  /\ records' \in Seq(Statuses) /\ Len(records') = Len(records) + 1
         /\ Len(records) \in Nat
         /\ \A j \in 1..Len(records) : records'[j] = records[j]
         /\ records'[Len(records) + 1] = "queued"
  BY AppendProperties, LenProperties DEF RecordTypes, Statuses

\* The other steps leave the records alone, and a call of theirs neither begins nor ends a
\* stage.
LEMMA OtherSteps ==
  ASSUME ScriptNext, ~\E c \in Callers : CallStep(c)
  PROVE  /\ UNCHANGED <<records, stageOf, freeStages>>
         /\ \/ UNCHANGED callAt
            \/ \E c \in Callers, where \in {"none", "called", "failed", "halted"} :
                 /\ callAt' = [callAt EXCEPT ![c] = where]
                 /\ callAt[c] \notin Owning
<1> USE CallersAre DEF Owning, Staged, frameVars, callVars
<1>1. CASE Environment
  BY <1>1 DEF Environment
<1>2. CASE DirectReturns
  BY <1>2 DEF DirectReturns
<1>3. CASE JoinHelper \/ HelperHalts \/ ScriptEnds \/ \E kind \in Helpers : BeginHelper(kind)
  BY <1>3 DEF JoinHelper, HelperHalts, ScriptEnds, BeginHelper
<1>4. ASSUME NEW l \in Lanes, LaneStep(l)
      PROVE  /\ UNCHANGED <<records, stageOf, freeStages>>
             /\ \/ UNCHANGED callAt
                \/ \E c \in Callers, where \in {"none", "called", "failed", "halted"} :
                     /\ callAt' = [callAt EXCEPT ![c] = where]
                     /\ callAt[c] \notin Owning
  BY <1>4 DEF LaneStep, LaneChecks, LaneGoesOn, LaneReturns, CallTo
<1>5. ASSUME NEW c \in Callers, CallCodex(c)
      PROVE  /\ UNCHANGED <<records, stageOf, freeStages>>
             /\ \E where \in {"none", "called", "failed", "halted"} :
                  /\ callAt' = [callAt EXCEPT ![c] = where]
                  /\ callAt[c] \notin Owning
  BY <1>5 DEF CallCodex, MayCall, Stays, CallTo
<1> QED
  BY <1>1, <1>2, <1>3, <1>4, <1>5 DEF ScriptNext, BodyStep

\* A step that keeps the stages and which records are pending, and lets no stage begin.
LeavesRecords ==
  /\ stageOf' = stageOf /\ Len(records') = Len(records)
  /\ \A i \in 1..Len(records) : records'[i] \in Pending <=> records[i] \in Pending
  /\ \A c \in Callers : /\ callAt'[c] \in Staged => callAt[c] \in Staged
                        /\ callAt[c] \in Owning =>
                             callAt'[c] \in Owning

LEMMA SameRecords ==
  ASSUME RecordInv, LeavesRecords PROVE RecordInv'
<1> USE DEF LeavesRecords, Owning
<1>1. \A c \in Callers : callAt'[c] \in Staged =>
        stageOf'[c] \in 1..Len(records') /\ records'[stageOf'[c]] \in Pending
  BY DEF RecordInv
<1>2. \A c, d \in Callers :
        (c # d /\ callAt'[c] \in Staged /\ callAt'[d] \in Staged) => stageOf'[c] # stageOf'[d]
  BY DEF RecordInv
<1>3. \A i \in 1..Len(records') : records'[i] \in Pending =>
        \E c \in Callers : stageOf'[c] = i /\ callAt'[c] \in Owning
  BY DEF RecordInv
<1> QED
  BY <1>1, <1>2, <1>3 DEF RecordInv

LEMMA RecordsKept == ASSUME SInv, ScriptNext PROVE RecordTypes' /\ RecordInv'
<1>1. RecordTypes /\ RecordInv /\ callAt \in [Callers -> CallSpots]
  BY DEF SInv, SpotTypes
<1>2. CASE ~\E c \in Callers : CallStep(c)
  <2>1. records' = records /\ stageOf' = stageOf /\ RecordTypes'
    BY <1>1, <1>2, OtherSteps DEF RecordTypes
  <2>2. \A d \in Callers : /\ callAt'[d] \in Staged => callAt[d] \in Staged
                           /\ callAt[d] \in Owning => callAt'[d] \in Owning
    BY <1>1, <1>2, OtherSteps DEF Owning, Staged
  <2>3. LeavesRecords
    BY <2>1, <2>2 DEF LeavesRecords
  <2>5. RecordInv'
    BY <1>1, <2>3, SameRecords
  <2> QED
    BY <2>1, <2>5
<1>3. ASSUME NEW c \in Callers, Proceeds(c) PROVE RecordTypes' /\ RecordInv'
  <2>1. records' = records /\ stageOf' = stageOf /\ RecordTypes'
    BY <1>1, <1>3 DEF Proceeds, RecordTypes
  <2>2. \A d \in Callers : /\ callAt'[d] \in Staged => callAt[d] \in Staged
                           /\ callAt[d] \in Owning => callAt'[d] \in Owning
    BY <1>1, <1>3 DEF Proceeds, Owning, Staged
  <2>3. LeavesRecords
    BY <2>1, <2>2 DEF LeavesRecords
  <2>5. RecordInv'
    BY <1>1, <2>3, SameRecords
  <2> QED
    BY <2>1, <2>5
<1>4. ASSUME NEW c \in Callers, Marks(c) PROVE RecordTypes' /\ RecordInv'
  <2>1. PICK what \in {"done", "error", "running"} : Mark(c, what) /\
          \/ what # "running" /\ \E where \in {"ok", "failed"} : callAt' = [callAt EXCEPT ![c] = where]
          \/ what = "running"
             /\ \E where \in Owning : callAt' = [callAt EXCEPT ![c] = where]
    BY <1>4 DEF Marks
  <2>2. stageOf[c] \in 1..Len(records) /\ callAt[c] \in Staged /\ stageOf' = stageOf
    BY <1>1, <1>4 DEF Marks, RecordInv
  <2>3. /\ records' \in Seq(Statuses) /\ Len(records') = Len(records)
        /\ \A j \in 1..Len(records) : records'[j] = IF j = stageOf[c] THEN what ELSE records[j]
    BY <1>1, <2>1, <2>2, MarkChanges DEF Statuses
  <2>4. RecordTypes'
    BY <1>1, <2>2, <2>3 DEF RecordTypes
  <2>5. CASE what # "running"
    <3>1. callAt'[c] \notin Owning /\ what \notin Pending
          /\ \A d \in Callers \ {c} : callAt'[d] = callAt[d]
      BY <1>1, <2>1, <2>5 DEF Owning, Staged, Pending
    <3>2. \A i \in 1..Len(records') : records'[i] \in Pending =>
            i # stageOf[c] /\ records[i] \in Pending
      BY <2>3, <3>1
    <3>3. \A d \in Callers : callAt'[d] \in Staged => d # c /\ callAt[d] \in Staged
      BY <3>1 DEF Owning
    <3>4. \A d \in Callers : callAt'[d] \in Staged => stageOf[d] # stageOf[c]
      BY <1>1, <2>2, <3>3 DEF RecordInv
    <3>5. \A d \in Callers : callAt'[d] \in Staged =>
            stageOf'[d] \in 1..Len(records') /\ records'[stageOf'[d]] \in Pending
      BY <1>1, <2>2, <2>3, <3>3, <3>4 DEF RecordInv
    <3>6. \A i \in 1..Len(records') : records'[i] \in Pending =>
            \E d \in Callers : stageOf'[d] = i /\ callAt'[d] \in Owning
      BY <1>1, <2>2, <2>3, <3>1, <3>2 DEF RecordInv
    <3> QED
      BY <1>1, <2>2, <2>4, <3>3, <3>5, <3>6 DEF RecordInv
  <2>6. CASE what = "running"
    <3>1. \A d \in Callers : /\ callAt'[d] \in Staged => callAt[d] \in Staged
                             /\ callAt[d] \in Owning => callAt'[d] \in Owning
      BY <1>1, <2>1, <2>2, <2>6
    <3>2. \A i \in 1..Len(records) : records'[i] \in Pending <=> records[i] \in Pending
      BY <1>1, <2>2, <2>3, <2>6 DEF Pending, RecordInv
    <3>3. LeavesRecords
      BY <2>2, <2>3, <3>1, <3>2 DEF LeavesRecords
    <3>4. RecordInv'
      BY <1>1, <3>3, SameRecords
    <3> QED
      BY <2>4, <3>4
  <2> QED
    BY <2>5, <2>6
<1>5. ASSUME NEW c \in Callers, Reserves(c) PROVE RecordTypes' /\ RecordInv'
  <2>1. /\ records' \in Seq(Statuses) /\ Len(records') = Len(records) + 1
        /\ Len(records) \in Nat
        /\ \A j \in 1..Len(records) : records'[j] = records[j]
        /\ records'[Len(records) + 1] = "queued"
    BY <1>1, <1>5, ReserveChanges DEF Reserves
  <2>2. /\ stageOf' \in [Callers -> 0..MaxStages] /\ stageOf'[c] = Len(records) + 1
        /\ \A d \in Callers \ {c} : stageOf'[d] = stageOf[d]
    BY <1>1, <1>5, <2>1, ScriptAssumption DEF Reserves, RecordTypes
  <2>3. RecordTypes'
    BY <1>1, <1>5, <2>1, <2>2, ScriptAssumption DEF RecordTypes, Reserves
  <2>4. /\ callAt'[c] = "looking" /\ callAt[c] = "called"
        /\ \A d \in Callers \ {c} : callAt'[d] = callAt[d]
    BY <1>1, <1>5 DEF Reserves
  <2>5. \A d \in Callers : callAt'[d] \in Staged =>
          stageOf'[d] \in 1..Len(records') /\ records'[stageOf'[d]] \in Pending
    BY <1>1, <2>1, <2>2, <2>4 DEF RecordInv, Pending
  <2>6. \A d, e \in Callers :
          (d # e /\ callAt'[d] \in Staged /\ callAt'[e] \in Staged) => stageOf'[d] # stageOf'[e]
    BY <1>1, <2>1, <2>2, <2>4 DEF RecordInv
  <2>7. \A i \in 1..Len(records') : records'[i] \in Pending =>
          \E d \in Callers : stageOf'[d] = i /\ callAt'[d] \in Owning
    <3> SUFFICES ASSUME NEW i \in 1..Len(records'), records'[i] \in Pending
                 PROVE  \E d \in Callers : stageOf'[d] = i /\ callAt'[d] \in Owning
      OBVIOUS
    <3>1. CASE i = Len(records) + 1
      BY <2>2, <2>4, <3>1 DEF Owning, Staged
    <3>2. CASE i \in 1..Len(records)
      <4>1. PICK d \in Callers : stageOf[d] = i /\ callAt[d] \in Owning
        BY <1>1, <2>1, <3>2 DEF RecordInv
      <4>2. d # c
        BY <2>4, <4>1 DEF Owning, Staged
      <4> QED
        BY <2>2, <2>4, <4>1, <4>2
    <3> QED
      BY <2>1, <3>1, <3>2
  <2> QED
    BY <2>3, <2>5, <2>6, <2>7 DEF RecordInv
<1> QED
  BY <1>2, <1>3, <1>4, <1>5, CallStepKinds
-----------------------------------------------------------------------------
(* Topologies.                                                             *)

\* What the steps do to the last topology.
LEMMA LastReplaced ==
  ASSUME MembersInv, Len(shapes) # 0, NEW s \in Shapes, shapes' = [shapes EXCEPT ![Len(shapes)] = s]
  PROVE  /\ shapes' \in Seq(Shapes) /\ Len(shapes') = Len(shapes)
         /\ \A i \in 1..Len(shapes) : shapes'[i] = IF i = Len(shapes) THEN s ELSE shapes[i]
  BY ExceptSeq DEF MembersInv

LEMMA Opening ==
  ASSUME NEW s \in Shapes, NEW o \in BOOLEAN
  PROVE  /\ [s EXCEPT !.open = o] \in Shapes
         /\ [s EXCEPT !.open = o].open = o
         /\ [s EXCEPT !.open = o].members = s.members
  BY DEF Shapes

LEMMA Joining ==
  ASSUME NEW s \in Shapes, NEW n \in 1..MaxStages
  PROVE  /\ [s EXCEPT !.members = @ \cup {n}] \in Shapes
         /\ [s EXCEPT !.members = @ \cup {n}].open = s.open
         /\ [s EXCEPT !.members = @ \cup {n}].members = s.members \cup {n}
  BY DEF Shapes

LEMMA Reopened ==
  ASSUME MembersInv, Len(shapes) # 0, NEW o \in BOOLEAN,
         shapes' = [shapes EXCEPT ![Len(shapes)].open = o]
  PROVE  /\ shapes' \in Seq(Shapes) /\ Len(shapes') = Len(shapes)
         /\ \A i \in 1..Len(shapes) : /\ shapes'[i].members = shapes[i].members
                                      /\ i # Len(shapes) => shapes'[i].open = shapes[i].open
         /\ shapes'[Len(shapes)].open = o
<1>1. shapes[Len(shapes)] \in Shapes /\ Len(shapes) \in 1..Len(shapes)
  BY LenProperties, ElementOfSeq DEF MembersInv
<1> DEFINE s == [shapes[Len(shapes)] EXCEPT !.open = o]
<1>2. s \in Shapes /\ s.open = o /\ s.members = shapes[Len(shapes)].members
  BY <1>1, Opening
<1>3. shapes' = [shapes EXCEPT ![Len(shapes)] = s]
  BY Zenon
<1> HIDE DEF s
<1>4. /\ shapes' \in Seq(Shapes) /\ Len(shapes') = Len(shapes)
      /\ \A i \in 1..Len(shapes) : shapes'[i] = IF i = Len(shapes) THEN s ELSE shapes[i]
  BY <1>2, <1>3, LastReplaced
<1> QED
  BY <1>1, <1>2, <1>4

LEMMA Joined ==
  ASSUME MembersInv, Len(shapes) # 0, NEW n \in 1..MaxStages,
         shapes' = [shapes EXCEPT ![Len(shapes)].members = @ \cup {n}]
  PROVE  /\ shapes' \in Seq(Shapes) /\ Len(shapes') = Len(shapes)
         /\ \A i \in 1..Len(shapes) : shapes'[i].open = shapes[i].open
         /\ \A i \in 1..Len(shapes) : i # Len(shapes) => shapes'[i].members = shapes[i].members
         /\ shapes'[Len(shapes)].members = shapes[Len(shapes)].members \cup {n}
<1>1. shapes[Len(shapes)] \in Shapes /\ Len(shapes) \in 1..Len(shapes)
  BY LenProperties, ElementOfSeq DEF MembersInv
<1> DEFINE s == [shapes[Len(shapes)] EXCEPT !.members = @ \cup {n}]
<1>2. /\ s \in Shapes /\ s.open = shapes[Len(shapes)].open
      /\ s.members = shapes[Len(shapes)].members \cup {n}
  BY <1>1, Joining
<1>3. shapes' = [shapes EXCEPT ![Len(shapes)] = s]
  BY Zenon
<1> HIDE DEF s
<1>4. /\ shapes' \in Seq(Shapes) /\ Len(shapes') = Len(shapes)
      /\ \A i \in 1..Len(shapes) : shapes'[i] = IF i = Len(shapes) THEN s ELSE shapes[i]
  BY <1>2, <1>3, LastReplaced
<1> QED
  BY <1>1, <1>2, <1>4

LEMMA Added ==
  ASSUME MembersInv, NEW kind \in Helpers \cup {"sequential"},
         shapes' = Append(shapes, NewShape(kind))
  PROVE  /\ shapes' \in Seq(Shapes) /\ Len(shapes') = Len(shapes) + 1 /\ Len(shapes) \in Nat
         /\ \A i \in 1..Len(shapes) : shapes'[i] = shapes[i]
         /\ shapes'[Len(shapes) + 1].open /\ shapes'[Len(shapes) + 1].members = {}
<1>1. NewShape(kind) \in Shapes /\ NewShape(kind).open /\ NewShape(kind).members = {}
  BY DEF NewShape, Shapes
<1> QED
  BY <1>1, AppendProperties, LenProperties DEF MembersInv

\* A record that is settled stays so, and none is dropped.
LEMMA NoneRevived ==
  ASSUME SInv, ScriptNext
  PROVE  /\ Len(records) \in Nat /\ Len(records') \in Nat /\ Len(records) <= Len(records')
         /\ \A j \in 1..Len(records) : records'[j] \in Pending => records[j] \in Pending
<1>1. RecordTypes /\ RecordInv /\ RecordTypes'
  BY RecordsKept DEF SInv
<1>2. Len(records) \in Nat /\ Len(records') \in Nat
  BY <1>1, LenProperties DEF RecordTypes
<1>3. CASE records' = records
  BY <1>2, <1>3
<1>4. ASSUME NEW c \in Callers, Marks(c)
      PROVE  /\ Len(records) <= Len(records')
             /\ \A j \in 1..Len(records) : records'[j] \in Pending => records[j] \in Pending
  <2>1. stageOf[c] \in 1..Len(records) /\ records[stageOf[c]] \in Pending
    BY <1>1, <1>4 DEF Marks, RecordInv
  <2>2. PICK what \in Statuses : Mark(c, what)
    BY <1>4 DEF Marks, Statuses
  <2> QED
    BY <1>1, <1>2, <2>1, <2>2, MarkChanges
<1>5. ASSUME NEW c \in Callers, Reserves(c)
      PROVE  /\ Len(records) <= Len(records')
             /\ \A j \in 1..Len(records) : records'[j] \in Pending => records[j] \in Pending
  BY <1>1, <1>2, <1>5, ReserveChanges DEF Reserves
<1>6. CASE ~\E c \in Callers : CallStep(c)
  BY <1>3, <1>6, OtherSteps
<1> QED
  BY <1>2, <1>3, <1>4, <1>5, <1>6, CallStepKinds DEF Proceeds

\* When no call has a stage, no record is pending.
LEMMA NoneLeft ==
  ASSUME SInv, \A c \in Callers : callAt[c] \notin Owning
  PROVE  \A i \in 1..Len(records) : records[i] \notin Pending
  BY DEF SInv, RecordInv

\* The topologies of a step that does not change their members: one that it closes has no
\* pending member, unless there is a halt.
LEMMA MembersKept ==
  ASSUME SInv, ScriptNext, shapes' \in Seq(Shapes), Len(shapes') = Len(shapes),
         \A i \in 1..Len(shapes) : shapes'[i].members = shapes[i].members,
         \A i \in 1..Len(shapes) : shapes[i].open => shapes'[i].open \/ Halted'
                                      \/ \A j \in 1..Len(records) : records[j] \notin Pending
  PROVE  MembersInv' /\ SettledInv'
<1>1. MembersInv /\ SettledInv
  BY DEF SInv, ShapeInv
<1>2. MembersInv'
  BY <1>1, NoneRevived DEF MembersInv
<1>3. SettledInv'
  <2> SUFFICES ASSUME NEW i \in 1..Len(shapes), ~shapes'[i].open, ~Halted',
                      NEW j \in shapes'[i].members
               PROVE  records'[j] \notin Pending
    BY DEF SettledInv
  <2>1. j \in 1..Len(records) /\ j \in shapes[i].members
    BY <1>1 DEF MembersInv
  <2>2. ~Halted
    BY SpotsKept
  <2>3. records[j] \notin Pending
    BY <1>1, <2>1, <2>2 DEF SettledInv
  <2> QED
    BY <2>1, <2>3, NoneRevived
<1> QED
  BY <1>2, <1>3

LEMMA AddedKept ==
  ASSUME SInv, ScriptNext, NEW kind \in Helpers \cup {"sequential"},
         shapes' = Append(shapes, NewShape(kind))
  PROVE  MembersInv' /\ SettledInv'
<1>1. MembersInv /\ SettledInv
  BY DEF SInv, ShapeInv
<1>2. /\ shapes' \in Seq(Shapes) /\ Len(shapes') = Len(shapes) + 1 /\ Len(shapes) \in Nat
      /\ \A i \in 1..Len(shapes) : shapes'[i] = shapes[i]
      /\ shapes'[Len(shapes) + 1].open /\ shapes'[Len(shapes) + 1].members = {}
  BY <1>1, Added
<1>3. MembersInv'
  <2>1. ASSUME NEW i \in 1..Len(shapes') PROVE shapes'[i].members \subseteq 1..Len(records')
    <3>1. CASE i = Len(shapes) + 1
      BY <1>2, <3>1
    <3>2. CASE i \in 1..Len(shapes)
      BY <1>1, <1>2, <3>2, NoneRevived DEF MembersInv
    <3> QED
      BY <1>2, <3>1, <3>2
  <2> QED
    BY <1>2, <2>1 DEF MembersInv
<1>4. SettledInv'
  <2> SUFFICES ASSUME NEW i \in 1..Len(shapes'), ~shapes'[i].open, ~Halted',
                      NEW j \in shapes'[i].members
               PROVE  records'[j] \notin Pending
    BY DEF SettledInv
  <2>1. i \in 1..Len(shapes)
    BY <1>2
  <2>2. j \in 1..Len(records) /\ j \in shapes[i].members /\ ~shapes[i].open
    BY <1>1, <1>2, <2>1 DEF MembersInv
  <2>3. ~Halted
    BY SpotsKept
  <2>4. records[j] \notin Pending
    BY <1>1, <2>1, <2>2, <2>3 DEF SettledInv
  <2> QED
    BY <2>2, <2>4, NoneRevived
<1> QED
  BY <1>3, <1>4

LEMMA ShapesKept == ASSUME SInv, ScriptNext PROVE ShapeInv'
<1>1. /\ MembersInv /\ OpenInv /\ SettledInv /\ SpotInv /\ SpotTypes /\ RecordInv /\ RecordTypes
      /\ Len(shapes) \in Nat
  BY LenProperties DEF SInv, ShapeInv, MembersInv
<1> USE CallersAre
<1>2. ASSUME shapes' = shapes PROVE MembersInv' /\ SettledInv'
  BY <1>1, <1>2, MembersKept DEF MembersInv
<1>3. CASE Environment \/ ScriptEnds \/ \E l \in Lanes : LaneStep(l)
  <2>1. shapes' = shapes /\ (spot' = spot \/ spot = "script")
    BY <1>3 DEF Environment, ScriptEnds, LaneStep, LaneChecks, LaneGoesOn, LaneReturns, bodyVars,
                frameVars
  <2>2. spot' \in {"helper", "script"} => spot' = spot
    BY <1>3 DEF Environment, ScriptEnds, Raise, LaneStep, LaneChecks, LaneGoesOn, LaneReturns, bodyVars
  <2>3. \A c \in Callers : callAt'[c] \in Working => callAt[c] \in Working
    BY <1>1, <1>3 DEF Environment, ScriptEnds, LaneStep, LaneChecks, LaneGoesOn, LaneReturns, CallTo,
                      callVars, SpotTypes, Working
  <2>4. OpenInv'
    BY <1>1, <2>1, <2>2, <2>3 DEF OpenInv
  <2> QED
    BY <1>2, <2>1, <2>4 DEF ShapeInv
<1>4. CASE DirectReturns
  <2>1. /\ spot = "direct" /\ callAt[Main] \in {"ok", "failed", "halted"}
        /\ spot' \in {"script", "over"} /\ UNCHANGED records
        /\ callAt' = IF callAt[Main] = "halted" THEN callAt ELSE [callAt EXCEPT ![Main] = "none"]
    BY <1>4 DEF DirectReturns, Raise
  <2>2. \A l \in Lanes : callAt[l] = "none"
    BY <1>1, <2>1 DEF SpotInv
  <2>3. \A c \in Callers : callAt[c] \notin Working /\ callAt'[c] \notin Working
    BY <1>1, <2>1, <2>2 DEF SpotTypes, Working
  <2>4. Halted' \/ \A c \in Callers : callAt[c] \notin Owning
    BY <1>1, <2>1, <2>2 DEF Halted, Owning, Staged
  <2>5. Halted' \/ \A j \in 1..Len(records) : records[j] \notin Pending
    BY <2>4, NoneLeft
  <2>6. CASE shapes = << >>
    <3>1. shapes' = shapes /\ Len(shapes) = 0
      BY <1>4, <2>6 DEF DirectReturns
    <3>2. OpenInv'
      BY <2>1, <2>3, <3>1 DEF OpenInv
    <3> QED
      BY <1>2, <3>1, <3>2 DEF ShapeInv
  <2>7. CASE shapes # << >>
    <3>1. Len(shapes) # 0
      BY <1>1, <2>7, EmptySeq DEF MembersInv
    <3>2. shapes' = [shapes EXCEPT ![Len(shapes)].open = FALSE]
      BY <1>4, <2>7 DEF DirectReturns, CloseShape
    <3>3. /\ shapes' \in Seq(Shapes) /\ Len(shapes') = Len(shapes)
          /\ \A i \in 1..Len(shapes) : /\ shapes'[i].members = shapes[i].members
                                       /\ i # Len(shapes) => shapes'[i].open = shapes[i].open
          /\ shapes'[Len(shapes)].open = FALSE
      BY <1>1, <3>1, <3>2, Reopened
    <3>4. MembersInv' /\ SettledInv'
      BY <2>5, <3>3, MembersKept
    <3>5. \A i \in 1..Len(shapes') : ~shapes'[i].open
      BY <1>1, <3>3 DEF OpenInv
    <3>6. OpenInv'
      BY <2>1, <2>3, <3>5 DEF OpenInv
    <3> QED
      BY <3>4, <3>6 DEF ShapeInv
  <2> QED
    BY <2>6, <2>7
<1>5. CASE JoinHelper \/ HelperHalts
  <2>1. /\ spot = "helper" /\ spot' \in {"script", "over"} /\ UNCHANGED callVars
        /\ shapes' = [shapes EXCEPT ![Len(shapes)].open = FALSE]
    BY <1>5 DEF JoinHelper, HelperHalts, Raise, CloseShape
  <2>2. Len(shapes) # 0
    BY <1>1, <2>1 DEF OpenInv
  <2>3. Halted' \/ \A c \in Callers : callAt[c] \notin Owning
    <3>1. CASE HelperHalts
      BY <3>1 DEF HelperHalts, Halted
    <3>2. CASE JoinHelper
      BY <1>1, <2>1, <3>2 DEF JoinHelper, SpotInv, Owning, Staged
    <3> QED
      BY <1>5, <3>1, <3>2
  <2>4. Halted' \/ \A j \in 1..Len(records) : records[j] \notin Pending
    BY <2>3, NoneLeft
  <2>5. /\ shapes' \in Seq(Shapes) /\ Len(shapes') = Len(shapes)
        /\ \A i \in 1..Len(shapes) : /\ shapes'[i].members = shapes[i].members
                                     /\ i # Len(shapes) => shapes'[i].open = shapes[i].open
        /\ shapes'[Len(shapes)].open = FALSE
    BY <1>1, <2>1, <2>2, Reopened
  <2>6. MembersInv' /\ SettledInv'
    BY <2>4, <2>5, MembersKept
  <2>7. \A i \in 1..Len(shapes') : ~shapes'[i].open
    BY <1>1, <2>5 DEF OpenInv
  <2>8. callAt'[Main] \notin Working
    BY <1>1, <2>1 DEF SpotInv, callVars, Working
  <2>9. OpenInv'
    BY <2>1, <2>2, <2>5, <2>7, <2>8 DEF OpenInv
  <2> QED
    BY <2>6, <2>9 DEF ShapeInv
<1>6. ASSUME NEW kind \in Helpers, BeginHelper(kind) PROVE ShapeInv'
  <2>1. /\ spot = "script" /\ spot' = "helper" /\ UNCHANGED callAt
        /\ shapes' = Append(shapes, NewShape(kind))
    BY <1>6 DEF BeginHelper, OpenHelper, callVars
  <2>2. MembersInv' /\ SettledInv'
    BY <2>1, AddedKept
  <2>3. /\ Len(shapes') = Len(shapes) + 1
        /\ \A i \in 1..Len(shapes) : shapes'[i] = shapes[i]
        /\ shapes'[Len(shapes) + 1].open
    BY <1>1, <2>1, Added
  <2>4. OpenInv'
    BY <1>1, <2>1, <2>3 DEF OpenInv
  <2> QED
    BY <2>2, <2>4 DEF ShapeInv
<1>7. ASSUME NEW c \in Callers, CallCodex(c) PROVE ShapeInv'
  <2>1. /\ IF c = Main THEN spot = "script" /\ spot' = "direct" ELSE spot = "helper" /\ spot' = spot
        /\ \E where \in {"halted", "failed", "called"} : callAt' = [callAt EXCEPT ![c] = where]
    BY <1>7 DEF CallCodex, MayCall, Stays, CallTo
  <2>2. \A d \in Callers \ {c} : callAt'[d] = callAt[d]
    BY <1>1, <2>1 DEF SpotTypes
  <2>3. CASE shapes' = shapes /\ callAt'[c] \notin Working
    <3>1. OpenInv'
      BY <1>1, <2>1, <2>2, <2>3 DEF OpenInv
    <3> QED
      BY <1>2, <2>3, <3>1 DEF ShapeInv
  <2>4. CASE shapes' = shapes /\ c # Main
    <3>1. OpenInv'
      BY <1>1, <2>1, <2>2, <2>4 DEF OpenInv
    <3> QED
      BY <1>2, <2>4, <3>1 DEF ShapeInv
  <2>5. CASE c = Main /\ shapes' = Append(shapes, NewShape("sequential"))
    <3>1. MembersInv' /\ SettledInv'
      BY <2>5, AddedKept
    <3>2. /\ Len(shapes') = Len(shapes) + 1
          /\ \A i \in 1..Len(shapes) : shapes'[i] = shapes[i]
          /\ shapes'[Len(shapes) + 1].open
      BY <1>1, <2>5, Added
    <3>3. OpenInv'
      BY <1>1, <2>1, <2>5, <3>2 DEF OpenInv
    <3> QED
      BY <3>1, <3>3 DEF ShapeInv
  <2>6. CASE c = Main /\ shapes # << >> /\ shapes' = [shapes EXCEPT ![Len(shapes)].open = TRUE]
    <3>1. Len(shapes) # 0
      BY <1>1, <2>6, EmptySeq DEF MembersInv
    <3>2. /\ shapes' \in Seq(Shapes) /\ Len(shapes') = Len(shapes)
          /\ \A i \in 1..Len(shapes) : /\ shapes'[i].members = shapes[i].members
                                       /\ i # Len(shapes) => shapes'[i].open = shapes[i].open
          /\ shapes'[Len(shapes)].open = TRUE
      BY <1>1, <2>6, <3>1, Reopened
    <3>3. \A i \in 1..Len(shapes) : shapes[i].open => shapes'[i].open
      BY <3>2
    <3>4. MembersInv' /\ SettledInv'
      BY <3>2, <3>3, MembersKept
    <3>5. OpenInv'
      BY <1>1, <2>1, <2>6, <3>1, <3>2 DEF OpenInv
    <3> QED
      BY <3>4, <3>5 DEF ShapeInv
  <2>7. \/ shapes' = shapes /\ callAt'[c] \notin Working
        \/ shapes' = shapes /\ c # Main
        \/ c = Main /\ OpenSequential
    BY <1>1, <1>7 DEF CallCodex, Stays, CallTo, frameVars, SpotTypes, Working
  <2>8. OpenSequential =>
          \/ shapes' = Append(shapes, NewShape("sequential"))
          \/ shapes # << >> /\ shapes' = [shapes EXCEPT ![Len(shapes)].open = TRUE]
    BY Zenon DEF OpenSequential
  <2> QED
    BY <2>3, <2>4, <2>5, <2>6, <2>7, <2>8
<1>8. ASSUME NEW c \in Callers, CallStep(c) PROVE ShapeInv'
  <2>1. UNCHANGED <<spot, lane>> /\ callAt[c] \in Working
    BY <1>8, CallMoves DEF bodyVars
  <2>2. \A d \in Callers : callAt'[d] \in Working => callAt[d] \in Working
    BY <1>1, <1>8, CallMoves DEF SpotTypes
  <2>3. CASE shapes' = shapes
    <3>1. OpenInv'
      BY <1>1, <2>1, <2>2, <2>3 DEF OpenInv
    <3> QED
      BY <1>2, <2>3, <3>1 DEF ShapeInv
  <2>4. CASE Reserves(c)
    <3>1. Len(shapes) # 0
      BY <1>1, <2>1 DEF OpenInv
    <3>2. Len(records') = Len(records) + 1 /\ Len(records) \in Nat
      BY <1>1, <2>4, ReserveChanges DEF Reserves
    <3>3. Len(records) + 1 \in 1..MaxStages
      BY <2>4, <3>2, ScriptAssumption DEF Reserves
    <3>4. /\ shapes' \in Seq(Shapes) /\ Len(shapes') = Len(shapes)
          /\ \A i \in 1..Len(shapes) : shapes'[i].open = shapes[i].open
          /\ \A i \in 1..Len(shapes) : i # Len(shapes) => shapes'[i].members = shapes[i].members
          /\ shapes'[Len(shapes)].members = shapes[Len(shapes)].members \cup {Len(records) + 1}
      BY <1>1, <2>4, <3>1, <3>3, Joined DEF Reserves
    <3>5. OpenInv'
      BY <1>1, <2>1, <2>2, <3>1, <3>4 DEF OpenInv
    <3>6. MembersInv'
      <4>1. \A i \in 1..Len(shapes) : shapes[i].members \subseteq 1..Len(records)
        BY <1>1 DEF MembersInv
      <4>2. \A i \in 1..Len(shapes) : shapes'[i].members \subseteq 1..Len(records')
        BY <3>2, <3>4, <4>1
      <4> QED
        BY <3>4, <4>2 DEF MembersInv
    <3>7. Halted' \/ shapes[Len(shapes)].open
      <4>1. CASE c = Main
        BY <1>1, <2>1, <4>1 DEF OpenInv
      <4>2. CASE c # Main
        <5>1. callAt[c] # "none" /\ spot \notin {"script", "direct"}
          BY <1>1, <2>1, <4>2 DEF SpotInv, Working
        <5>2. CASE spot = "helper"
          BY <1>1, <5>2 DEF OpenInv
        <5>3. CASE spot = "over"
          BY <1>1, <4>2, <5>1, <5>3, SpotsKept DEF SpotInv
        <5> QED
          BY <1>1, <5>1, <5>2, <5>3 DEF SpotTypes
      <4> QED
        BY <4>1, <4>2
    <3>8. SettledInv'
      <4> SUFFICES ASSUME NEW i \in 1..Len(shapes), ~shapes'[i].open, ~Halted',
                          NEW j \in shapes'[i].members
                   PROVE  records'[j] \notin Pending
        BY <3>4 DEF SettledInv
      <4>1. i # Len(shapes) /\ ~shapes[i].open
        BY <3>4, <3>7
      <4>2. j \in shapes[i].members /\ j \in 1..Len(records)
        BY <1>1, <3>4, <4>1 DEF MembersInv
      <4>3. records[j] \notin Pending
        BY <1>1, <4>1, <4>2, SpotsKept DEF SettledInv
      <4> QED
        BY <4>2, <4>3, NoneRevived
    <3> QED
      BY <3>5, <3>6, <3>8 DEF ShapeInv
  <2> QED
    BY <1>8, <2>3, <2>4, CallStepKinds DEF Proceeds, Marks
<1> QED
  BY <1>3, <1>4, <1>5, <1>6, <1>7, <1>8 DEF ScriptNext, BodyStep
-----------------------------------------------------------------------------
(* The end of the script, and the slots.                                   *)

LEMMA EndKept == ASSUME SInv, ScriptNext PROVE EndInv'
<1>1. SpotTypes /\ SpotInv /\ EndInv
  BY DEF SInv
<1> USE CallersAre
<1> SUFFICES ASSUME ending' = "completed" PROVE EndInv'
  BY DEF EndInv
<1>2. CASE ending = "completed"
  <2>1. /\ spot = "over" /\ ~Halted /\ \A c \in Callers : callAt[c] = "none"
        /\ \A i \in 1..Len(records) : records[i] \notin Pending
    BY <1>1, <1>2 DEF EndInv, SpotInv
  <2>2. ~\E c \in Callers : CallStep(c)
    BY <2>1, CallMoves DEF Working
  <2>3. FALSE
    BY <1>2, <2>1, <2>2 DEF ScriptNext, BodyStep, Environment, DirectReturns, JoinHelper, HelperHalts,
                            ScriptEnds, BeginHelper, LaneStep, CallCodex, MayCall
  <2> QED
    BY <2>3
<1>3. CASE ending # "completed"
  <2>1. ASSUME NEW c \in Callers, CallStep(c) PROVE FALSE
    BY <1>3, <2>1, CallMoves DEF bodyVars
  <2>2. spot = "script" /\ UNCHANGED <<lane, callAt, records>>
    BY <1>3, <2>1 DEF ScriptNext, BodyStep, Environment, DirectReturns, JoinHelper, HelperHalts,
                      ScriptEnds, BeginHelper, LaneStep, LaneChecks, LaneGoesOn, LaneReturns,
                      CallCodex, Raise, bodyVars, callVars, frameVars
  <2>3. ~Halted /\ \A c \in Callers : callAt[c] = "none"
    BY <1>1, <2>2 DEF SpotInv, Halted
  <2>4. \A i \in 1..Len(records) : records[i] \notin Pending
    BY <2>3, NoneLeft DEF Owning, Staged
  <2> QED
    BY <2>2, <2>3, <2>4 DEF EndInv, Halted
<1> QED
  BY <1>2, <1>3

\* The calls that have a slot.
Holding == {c \in Callers : callAt[c] \in {"acquired", "polling"}}

SlotInv == freeStages \in 0..StageSlots /\ freeStages + Cardinality(Holding) = StageSlots

LEMMA HoldingFinite == IsFiniteSet(Holding)
  BY ScriptAssumption, FS_AddElement, FS_Subset DEF Holding, Callers

LEMMA SlotsKept == ASSUME SInv, SlotInv, ScriptNext PROVE SlotInv'
<1>1. callAt \in [Callers -> CallSpots] /\ freeStages \in 0..StageSlots /\ StageSlots \in Nat
  BY ScriptAssumption DEF SInv, SpotTypes, SlotInv
<1>2. Cardinality(Holding) \in Nat /\ freeStages + Cardinality(Holding) = StageSlots
  BY HoldingFinite, FS_CardinalityType DEF SlotInv
<1>3. ASSUME Holding' = Holding, freeStages' = freeStages PROVE SlotInv'
  BY <1>1, <1>2, <1>3 DEF SlotInv
<1>4. CASE ~\E c \in Callers : CallStep(c)
  <2>1. freeStages' = freeStages
    BY <1>4, OtherSteps
  <2>2. \A c \in Callers : callAt'[c] \in {"acquired", "polling"} <=> callAt[c] \in {"acquired", "polling"}
    BY <1>1, <1>4, OtherSteps DEF Owning, Staged
  <2>3. Holding' = Holding
    BY <2>2 DEF Holding
  <2> QED
    BY <1>3, <2>1, <2>3
<1>5. ASSUME NEW c \in Callers, CallStep(c) PROVE SlotInv'
  <2>1. ASSUME NEW where \in CallSpots, callAt' = [callAt EXCEPT ![c] = where], freeStages' = freeStages,
               where \in {"acquired", "polling"} <=> callAt[c] \in {"acquired", "polling"}
        PROVE  SlotInv'
    <3>1. Holding' = Holding
      BY <1>1, <2>1 DEF Holding
    <3> QED
      BY <1>3, <2>1, <3>1
  <2>2. ASSUME callAt[c] = "acquiring", freeStages > 0, freeStages' = freeStages - 1,
               callAt' = [callAt EXCEPT ![c] = "acquired"]
        PROVE  SlotInv'
    <3>1. Holding' = Holding \cup {c} /\ c \notin Holding
      BY <1>1, <2>2 DEF Holding
    <3>2. Cardinality(Holding') = Cardinality(Holding) + 1
      BY <3>1, HoldingFinite, FS_AddElement
    <3> QED
      BY <1>1, <1>2, <2>2, <3>2 DEF SlotInv
  <2>3. ASSUME NEW where \in {"ok", "failed", "halted"}, callAt[c] \in {"acquired", "polling"},
               callAt' = [callAt EXCEPT ![c] = where], freeStages' = freeStages + 1
        PROVE  SlotInv'
    <3>1. Holding' = Holding \ {c} /\ c \in Holding
      BY <1>1, <2>3 DEF Holding
    <3>2. Cardinality(Holding') = Cardinality(Holding) - 1
      BY <3>1, HoldingFinite, FS_RemoveElement
    <3>3. Cardinality(Holding') \in Nat
      BY <3>1, HoldingFinite, FS_RemoveElement, FS_CardinalityType
    <3> QED
      BY <1>1, <1>2, <2>3, <3>2, <3>3 DEF SlotInv
  <2>4. CASE ReserveStage(c) \/ LookUpStage(c)
    BY <2>1, <2>4 DEF ReserveStage, LookUpStage, Stays, CallTo, CallSpots
  <2>5. CASE TakeSlot(c)
    BY <2>1, <2>2, <2>5 DEF TakeSlot, Stays, CallTo, CallSpots
  <2>6. CASE LaunchStage(c)
    BY <2>1, <2>3, <2>6 DEF LaunchStage, Stays, Settle, CallTo, CallSpots
  <2>7. CASE PollStage(c)
    BY <2>3, <2>7 DEF PollStage, Settle, CallTo
  <2> QED
    BY <1>5, <2>4, <2>5, <2>6, <2>7 DEF CallStep
<1> QED
  BY <1>4, <1>5
-----------------------------------------------------------------------------
LEMMA InvariantsKept == ASSUME SInv, SlotInv, [ScriptNext]_scriptVars PROVE SInv' /\ SlotInv'
<1>1. CASE ScriptNext
  BY <1>1, SpotTypesKept, SpotsKept, RecordsKept, ShapesKept, EndKept, SlotsKept DEF SInv
<1>2. CASE UNCHANGED scriptVars
  <2> USE <1>2 DEF scriptVars, clockVars, bodyVars, callVars, frameVars
  <2>1. SpotTypes' /\ RecordTypes' /\ SlotInv'
    BY DEF SInv, SpotTypes, RecordTypes, SlotInv, Holding
  <2>2. SpotInv' /\ RecordInv' /\ EndInv'
    BY DEF SInv, SpotInv, RecordInv, EndInv, Halted
  <2>3. ShapeInv'
    BY DEF SInv, ShapeInv, MembersInv, OpenInv, SettledInv, Halted
  <2> QED
    BY <2>1, <2>2, <2>3 DEF SInv
<1> QED
  BY <1>1, <1>2

LEMMA InvariantsHold == ScriptSpec => [](SInv /\ SlotInv)
<1>1. ScriptInit => SInv /\ SlotInv
  <2> SUFFICES ASSUME ScriptInit PROVE SInv /\ SlotInv
    OBVIOUS
  <2>1. Holding = {}
    BY DEF ScriptInit, Holding
  <2>2. Cardinality(Holding) = 0
    BY <2>1, HoldingFinite, FS_EmptySet
  <2>3. SlotInv
    BY <2>2, ScriptAssumption DEF ScriptInit, SlotInv
  <2> QED
    BY <2>3, ScriptInitKeeps
<1> QED
  BY <1>1, InvariantsKept, PTL DEF ScriptSpec

\* Every variable has its type: no more records than config.max_agents, and the value of the
\* slot semaphore between 0 and the slots of the run.
THEOREM ScriptTypeCorrect == ScriptSpec => []ScriptTypeOK
<1>1. SInv /\ SlotInv => ScriptTypeOK
  BY DEF SInv, SpotTypes, RecordTypes, ShapeInv, MembersInv, SlotInv, ScriptTypeOK, Statuses
<1> QED
  BY <1>1, InvariantsHold, PTL

\* What _run_codex, the helpers and the topologies promise each other: a script completes only
\* when every call is settled and no halt was swallowed; a topology that is shown as done has
\* no pending member, unless there was a halt; and every way out of a stage returns its slot.
THEOREM ScriptCorrect == ScriptSpec => []ScriptHolds
<1>1. SInv => HaltsReachTheEnd
  BY DEF SInv, RecordTypes, EndInv, HaltsReachTheEnd, Busy, Working, Pending
<1>2. SInv => ShapesTell
  <2> SUFFICES ASSUME SInv PROVE ShapesTell
    OBVIOUS
  <2>1. MembersInv /\ OpenInv /\ SettledInv /\ DOMAIN shapes = 1..Len(shapes)
    BY LenProperties DEF SInv, ShapeInv, MembersInv
  <2> QED
    BY <2>1 DEF OpenInv, SettledInv, ShapesTell, Unsettled, Pending
<1>3. SlotInv => SlotsReturned
  BY DEF SlotInv, SlotsReturned, Holding
<1> QED
  BY <1>1, <1>2, <1>3, InvariantsHold, PTL DEF ScriptHolds
=============================================================================
