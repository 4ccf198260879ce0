------------------------- MODULE ChildRegistryProofs -------------------------
(***************************************************************************)
(* Skips and leases of ChildRegistry, for any number of children and of     *)
(* concurrent skips.                                                       *)
(***************************************************************************)
EXTENDS ChildRegistry, TLAPS

ChildTypeOK ==
  /\ pc \in [Children -> PC]
  /\ verdict \in [Children -> Verdicts]
  /\ active \subseteq Children /\ skipped \subseteq Children /\ leases \subseteq Children
SkipTypeOK == skipper \in [Skippers -> SkipCalls]

Registered == {"running", "returned", "raised", "judged"}
ActiveInv == \A c \in Children : c \in active <=> pc[c] \in Registered

\* A skip call marks at most once, and has a child from the moment it is routed.
CallInv ==
  \A s \in Skippers :
    /\ skipper[s].pc \in {"idle", "routed"} => skipper[s].mark = "none"
    /\ skipper[s].pc = "marked" => skipper[s].mark # "none"
    /\ skipper[s].pc # "idle" => skipper[s].child \in Children

\* Where the mark of an early skip is on its way to the verdict.
MarkCarried(c) ==
  /\ pc[c] \notin {"idle", "leased", "created"}
  /\ pc[c] \in {"running", "returned"} => c \in skipped
  /\ pc[c] = "raised" => c \in skipped \/ verdict[c] = "skipped"
  /\ pc[c] \in {"judged", "unregistered"} => verdict[c] = "skipped"
  /\ pc[c] = "done" => verdict[c] \in {"skipped", "lost"}
EarlyInv ==
  \A s \in Skippers :
    (skipper[s].mark = "early" /\ ~Withdrawn(skipper[s].child)) => MarkCarried(skipper[s].child)

Asked(c) == \E s \in Skippers : skipper[s].child = c /\ skipper[s].mark # "none"
AskedInv == \A c \in Children : c \in skipped \/ verdict[c] = "skipped" => Asked(c)

RInv == ChildTypeOK /\ SkipTypeOK /\ ActiveInv /\ CallInv /\ EarlyInv /\ AskedInv
        /\ LeasesReturned
-----------------------------------------------------------------------------
LEMMA InitRInv == Init => RInv
  <1> SUFFICES ASSUME Init PROVE RInv
    OBVIOUS
  <1>1. ChildTypeOK /\ ActiveInv /\ LeasesReturned
    BY DEF Init, ChildTypeOK, PC, Verdicts, ActiveInv, Registered, LeasesReturned
  <1>2. SkipTypeOK /\ CallInv
    BY DEF Init, SkipTypeOK, SkipCalls, CallInv
  <1>3. EarlyInv /\ AskedInv
    BY DEF Init, EarlyInv, AskedInv
  <1> QED
    BY <1>1, <1>2, <1>3 DEF RInv
-----------------------------------------------------------------------------
(* The steps of a child, with every skip call where it was.                *)
LEMMA ChildStepRInv ==
  ASSUME RInv, NEW c \in Children, Lease(c) \/ ChildStep(c)
  PROVE  RInv'
  <1> USE DEF RInv, Goto, Rule
  <1>0. UNCHANGED skipper
    BY DEF ChildStep, Lease, Create, Register, RunChild, JudgeReturn, JudgeRaise,
           Unregister, Cleanup, skipVars
  <1>1. ChildTypeOK'
    BY DEF ChildTypeOK, PC, Verdicts, ChildStep, Lease, Create, Register, RunChild,
           JudgeReturn, JudgeRaise, Unregister, Cleanup
  <1>2. (SkipTypeOK /\ CallInv)'
    BY <1>0 DEF SkipTypeOK, CallInv
  <1>3. ActiveInv'
    BY DEF ChildTypeOK, ActiveInv, Registered, ChildStep, Lease, Create, Register, RunChild,
           JudgeReturn, JudgeRaise, Unregister, Cleanup
  <1>4. ASSUME NEW d \in Children, MarkCarried(d) PROVE MarkCarried(d)'
    BY <1>4 DEF ChildTypeOK, MarkCarried, ChildStep, Lease, Create, Register, RunChild,
                JudgeReturn, JudgeRaise, Unregister, Cleanup
  <1>5. EarlyInv'
    BY <1>0, <1>4 DEF EarlyInv, CallInv, Withdrawn, SkipTypeOK, SkipCalls
  <1>6. AskedInv'
    BY <1>0 DEF AskedInv, Asked, ChildTypeOK, ChildStep, Lease, Create, Register, RunChild,
                JudgeReturn, JudgeRaise, Unregister, Cleanup
  <1>7. LeasesReturned'
    BY DEF LeasesReturned, ChildTypeOK, ChildStep, Lease, Create, Register, RunChild,
           JudgeReturn, JudgeRaise, Unregister, Cleanup
  <1> QED
    BY <1>1, <1>2, <1>3, <1>5, <1>6, <1>7
-----------------------------------------------------------------------------
(* The steps of a skip call.                                               *)
LEMMA RouteRInv ==
  ASSUME RInv, NEW s \in Skippers, NEW c \in Children, RouteSkip(s, c)
  PROVE  RInv'
  <1> USE DEF RInv, childVars
  <1>1. skipper' = [skipper EXCEPT ![s] = [@ EXCEPT !.pc = "routed", !.child = c]]
    BY DEF RouteSkip
  <1>2. UNCHANGED <<pc, verdict, leases, active, skipped>>
    BY DEF RouteSkip
  <1>3. skipper[s].pc = "idle" /\ skipper[s].mark = "none"
    BY DEF RouteSkip, CallInv
  <1>4. (ChildTypeOK /\ ActiveInv /\ LeasesReturned)'
    BY <1>2 DEF ChildTypeOK, ActiveInv, LeasesReturned
  <1>5. SkipTypeOK' /\ CallInv'
    BY <1>1, <1>3 DEF SkipTypeOK, SkipCalls, CallInv
  <1>6. ASSUME NEW d PROVE Withdrawn(d) => Withdrawn(d)'
    BY <1>1, <1>3 DEF Withdrawn, SkipTypeOK, SkipCalls
  <1>7. EarlyInv'
    BY <1>1, <1>2, <1>3, <1>6 DEF EarlyInv, MarkCarried, SkipTypeOK, SkipCalls
  <1>8. AskedInv'
    BY <1>1, <1>2, <1>3 DEF AskedInv, Asked, SkipTypeOK, SkipCalls
  <1> QED
    BY <1>4, <1>5, <1>7, <1>8

LEMMA SkipStepRInv ==
  ASSUME RInv, NEW s \in Skippers, SkipStep(s)
  PROVE  RInv'
  <1> USE DEF RInv, childVars
  <1> DEFINE c == skipper[s].child
  <1>0. /\ UNCHANGED <<pc, verdict, leases, active>>
        /\ skipper[s].pc \in {"routed", "marked"}
        /\ c \in Children
    BY DEF SkipStep, RefuseSkip, MarkSkipped, InterruptSkipped, CallInv
  <1>1. (ActiveInv /\ LeasesReturned)'
    BY <1>0 DEF ActiveInv, LeasesReturned
  <1>2. CASE RefuseSkip(s)
    <2>1. /\ skipper' = [skipper EXCEPT ![s].pc = "no"]
          /\ UNCHANGED skipped /\ skipper[s].mark = "none"
      BY <1>2 DEF RefuseSkip, CallInv
    <2>2. (ChildTypeOK /\ SkipTypeOK /\ CallInv)'
      BY <1>0, <2>1 DEF ChildTypeOK, SkipTypeOK, SkipCalls, CallInv
    <2>3. EarlyInv'
      BY <1>0, <2>1 DEF EarlyInv, MarkCarried, Withdrawn, SkipTypeOK, SkipCalls
    <2>4. AskedInv'
      BY <1>0, <2>1 DEF AskedInv, Asked, SkipTypeOK, SkipCalls
    <2> QED
      BY <1>1, <2>2, <2>3, <2>4
  <1>3. CASE MarkSkipped(s)
    <2>0. PICK m \in {"early", "late"} :
            /\ skipper' = [skipper EXCEPT ![s] = [@ EXCEPT !.pc = "marked", !.mark = m]]
            /\ m = "early" <=> pc[c] = "running"
      BY <1>3 DEF MarkSkipped
    <2>1. skipped' = skipped \cup {c} /\ skipper[s].pc = "routed"
      BY <1>3 DEF MarkSkipped
    <2>a. /\ skipper'[s].child = c /\ skipper'[s].mark = m
          /\ \A t \in Skippers : t # s => skipper'[t] = skipper[t]
      BY <2>0 DEF SkipTypeOK, SkipCalls
    <2>2. (ChildTypeOK /\ SkipTypeOK /\ CallInv)'
      BY <1>0, <2>0, <2>1 DEF ChildTypeOK, SkipTypeOK, SkipCalls, CallInv
    <2>3. ASSUME NEW d PROVE Withdrawn(d) => Withdrawn(d)'
      BY <2>1, <2>a DEF Withdrawn, SkipTypeOK, SkipCalls
    <2>4. ASSUME NEW t \in Skippers, (skipper[t].mark = "early")',
                 (~Withdrawn(skipper[t].child))'
          PROVE  MarkCarried(skipper[t].child)'
      <3>1. CASE t = s
        <4>1. pc[c] = "running" /\ skipper'[t].child = c
          BY <2>0, <2>4, <2>a, <3>1
        <4> QED
          BY <1>0, <2>1, <4>1 DEF MarkCarried
      <3>2. CASE t # s
        <4>1. skipper'[t] = skipper[t]
          BY <2>a, <3>2
        <4>2. skipper[t].mark = "early" /\ ~Withdrawn(skipper[t].child)
          BY <2>3, <2>4, <4>1
        <4>3. MarkCarried(skipper[t].child)
          BY <4>2 DEF EarlyInv
        <4> QED
          BY <1>0, <2>1, <4>1, <4>3 DEF MarkCarried
      <3> QED
        BY <3>1, <3>2
    <2>5. EarlyInv'
      BY <2>4 DEF EarlyInv
    <2>6. AskedInv'
      <3>1. ASSUME NEW d \in Children, Asked(d) \/ d = c PROVE Asked(d)'
        BY <2>0, <2>a, <3>1 DEF Asked
      <3> QED
        BY <1>0, <2>1, <3>1 DEF AskedInv
    <2> QED
      BY <1>1, <2>2, <2>5, <2>6
  <1>4. CASE InterruptSkipped(s)
    <2>1. /\ \/ skipper' = [skipper EXCEPT ![s].pc = "yes"] /\ UNCHANGED skipped
             \/ skipper' = [skipper EXCEPT ![s].pc = "no"] /\ skipped' = skipped \ {c}
          /\ skipper[s].pc = "marked"
      BY <1>4 DEF InterruptSkipped
    <2>2. (ChildTypeOK /\ SkipTypeOK /\ CallInv)'
      BY <1>0, <2>1 DEF ChildTypeOK, SkipTypeOK, SkipCalls, CallInv
    <2>3. \A t \in Skippers : /\ skipper'[t].child = skipper[t].child
                              /\ skipper'[t].mark = skipper[t].mark
      BY <2>1 DEF SkipTypeOK, SkipCalls
    <2>4. AskedInv'
      BY <1>0, <2>1, <2>3 DEF AskedInv, Asked
    <2>5. CASE skipper' = [skipper EXCEPT ![s].pc = "yes"] /\ UNCHANGED skipped
      <3>1. ASSUME NEW d PROVE Withdrawn(d) => Withdrawn(d)'
        BY <2>1, <2>3, <2>5 DEF Withdrawn, SkipTypeOK, SkipCalls
      <3>2. EarlyInv'
        BY <1>0, <2>3, <2>5, <3>1 DEF EarlyInv, MarkCarried
      <3> QED
        BY <1>1, <2>2, <2>4, <3>2
    <2>6. CASE skipper' = [skipper EXCEPT ![s].pc = "no"] /\ skipped' = skipped \ {c}
      <3>1. ASSUME NEW d PROVE Withdrawn(d) => Withdrawn(d)'
        BY <2>1, <2>3, <2>6 DEF Withdrawn, SkipTypeOK, SkipCalls
      <3>2. skipper[s].mark # "none"
        BY <2>1 DEF CallInv
      <3>3. skipper'[s].pc = "no" /\ skipper'[s].mark # "none"
        BY <2>3, <2>6, <3>2 DEF SkipTypeOK
      <3>4. ASSUME NEW t \in Skippers, (skipper[t].mark = "early")',
                 (~Withdrawn(skipper[t].child))'
            PROVE  MarkCarried(skipper[t].child)'
        <4>1. /\ skipper'[t].child = skipper[t].child
              /\ skipper[t].mark = "early"
          BY <2>3, <3>4
        <4>a. skipper[t].child # c
          BY <2>3, <3>3, <3>4, <4>1 DEF Withdrawn
        <4>2. MarkCarried(skipper[t].child)
          BY <3>1, <3>4, <4>1 DEF EarlyInv
        <4> QED
          BY <1>0, <2>6, <4>1, <4>a, <4>2 DEF MarkCarried
      <3>5. EarlyInv'
        BY <3>4 DEF EarlyInv
      <3> QED
        BY <1>1, <2>2, <2>4, <3>5
    <2> QED
      BY <2>1, <2>5, <2>6
  <1> QED
    BY <1>2, <1>3, <1>4 DEF SkipStep
-----------------------------------------------------------------------------
LEMMA NextRInv == RInv /\ [Next]_vars => RInv'
  <1> SUFFICES ASSUME RInv, [Next]_vars PROVE RInv'
    OBVIOUS
  <1>1. CASE UNCHANGED <<pc, verdict, active, skipped, leases, skipper>>
    BY <1>1 DEF RInv, ChildTypeOK, SkipTypeOK, ActiveInv, CallInv, EarlyInv, MarkCarried,
                AskedInv, Asked, Withdrawn, LeasesReturned
  <1>2. CASE Stop \/ StopStep
    BY <1>1, <1>2 DEF Stop, StopStep, CopyActive, StopReturns, InterruptNext, childVars, skipVars
  <1>3. CASE UNCHANGED vars
    BY <1>1, <1>3 DEF vars
  <1> QED
    BY <1>2, <1>3, ChildStepRInv, SkipStepRInv, RouteRInv DEF Next

LEMMA RInvHolds == Spec => []RInv
  BY InitRInv, NextRInv, PTL DEF Spec

\* Any number of skips, returns, failures and stops may race: a skip that marks a
\* running child is never lost on the way through _consume_skipped (HermesChildAgentRunner.run).
THEOREM EarlySkipsWin == Spec => []EarlySkipWins
  <1>1. RInv => EarlySkipWins
    BY DEF RInv, EarlyInv, MarkCarried, EarlySkipWins
  <1> QED
    BY <1>1, RInvHolds, PTL

\* No child resolves to a skip that named another one (skip_child).
THEOREM SkipsHitTheirTarget == Spec => []SkippedOnlyWhenAsked
  <1>1. RInv => SkippedOnlyWhenAsked
    BY DEF RInv, AskedInv, Asked, SkippedOnlyWhenAsked
  <1> QED
    BY <1>1, RInvHolds, PTL

\* Every child that was registered gives its lease back however it ends.
THEOREM LeasesComeBack == Spec => []LeasesReturned
  <1>1. RInv => LeasesReturned
    BY DEF RInv
  <1> QED
    BY <1>1, RInvHolds, PTL
-----------------------------------------------------------------------------
\* What a stop works on.
StopTypeOK ==
  /\ stopSet \in BOOLEAN
  /\ interrupted \subseteq Children
  /\ stopper \in {"idle", "stopped", "interrupting", "done"}
  /\ toInterrupt \subseteq Children

LEMMA NextStopTypeOK == RInv /\ StopTypeOK /\ [Next]_vars => StopTypeOK'
  <1> SUFFICES ASSUME RInv, StopTypeOK, [Next]_vars PROVE StopTypeOK'
    OBVIOUS
  <1> USE DEF StopTypeOK
  <1>1. ASSUME NEW c \in Children, Lease(c) \/ ChildStep(c) PROVE StopTypeOK'
    BY <1>1 DEF Lease, ChildStep, Create, Register, RunChild, JudgeReturn, JudgeRaise,
                Unregister, Cleanup, stopVars
  <1>2. ASSUME NEW s \in Skippers, SkipStep(s) PROVE StopTypeOK'
    <2>1. CASE RefuseSkip(s) \/ MarkSkipped(s)
      BY <2>1 DEF RefuseSkip, MarkSkipped, stopVars
    <2>2. CASE InterruptSkipped(s)
      <3>1. skipper[s].child \in Children
        BY <2>2 DEF RInv, CallInv, InterruptSkipped
      <3> QED
        BY <2>2, <3>1 DEF InterruptSkipped, stopVars
    <2> QED
      BY <1>2, <2>1, <2>2 DEF SkipStep
  <1>3. ASSUME NEW s \in Skippers, NEW c \in Children, RouteSkip(s, c) PROVE StopTypeOK'
    BY <1>3 DEF RouteSkip, stopVars
  <1>4. CASE Stop
    BY <1>4 DEF Stop
  <1>5. CASE StopStep
    <2>1. active \subseteq Children
      BY DEF RInv, ChildTypeOK
    <2> QED
      BY <1>5, <2>1 DEF StopStep, CopyActive, StopReturns, InterruptNext
  <1>6. CASE UNCHANGED vars
    BY <1>6 DEF vars
  <1> QED
    BY <1>1, <1>2, <1>3, <1>4, <1>5, <1>6 DEF Next

\* Every reachable state of the registry has the declared types, for any number of
\* children and skips.
THEOREM RegistryTypeCorrect == Spec => []TypeOK
  <1>1. Init => StopTypeOK
    BY DEF Init, StopTypeOK
  <1>2. RInv /\ StopTypeOK => TypeOK
    BY DEF RInv, ChildTypeOK, SkipTypeOK, StopTypeOK, TypeOK
  <1> QED
    BY <1>1, <1>2, RInvHolds, NextStopTypeOK, PTL DEF Spec
=============================================================================
