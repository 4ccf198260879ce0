-------------------------- MODULE RecoveryProofs --------------------------
(***************************************************************************)
(* The run files against the processes that write and reap them, for any   *)
(* number of processes, runs and calls (Recovery).                         *)
(***************************************************************************)
EXTENDS Recovery, FiniteSetTheorems, TLAPS

\* A run exists from its launch on.
KnownInv ==
  \A r \in Runs :
    /\ r \in Known => runner[r] \in Procs /\ mem[r] \in {"active", "over"}
    /\ r \notin Known => /\ runner[r] = Null /\ mem[r] = "none" /\ disk[r] = "none"
                         /\ saved[r] = EmptyBag /\ markedBy[r] = {}

\* The file of a run that has an owner, against the owner's memory.
FileInv ==
  \A r \in Runs : Owned(r) =>
    /\ disk[r] = "over" <=> mem[r] = "over"
    /\ disk[r] = "active" => saved[r] = EmptyBag
    /\ disk[r] = "interrupted" => CutOff(r) /\ saved[r] = journal[r]

\* What a reaper holds is cut off, and its cache is empty: the harvest adds nothing twice.
HoldInv ==
  \A p \in Procs : holding[p] # Null =>
    /\ holding[p].run \in Known
    /\ Owned(holding[p].run) => CutOff(holding[p].run) /\ holding[p].cache = EmptyBag

\* An orphan found at boot is listed, held or marked.
FoundInv ==
  \A p \in Procs : \A r \in found[p] :
    /\ r \in Known /\ CutOff(r)
    /\ proc[p] # "off"
    /\ proc[p] \in Up => \/ disk[r] # "active"
                         \/ proc[p] = "reaping" /\ r \in toReap[p]
                         \/ proc[p] = "reaping" /\ holding[p] # Null /\ holding[p].run = r

ListInv == \A p \in Procs : toReap[p] \subseteq Known

RInv == TypeOK /\ KnownInv /\ FileInv /\ HoldInv /\ FoundInv /\ ListInv
-----------------------------------------------------------------------------
LEMMA EmptyIsBag == EmptyBag \in Bags
  BY DEF EmptyBag, Bags

LEMMA NextTypeOK == TypeOK /\ [Next]_vars => TypeOK'
  <1> SUFFICES ASSUME TypeOK, [Next]_vars PROVE TypeOK'
    OBVIOUS
  <1> USE RecoveryAssumption, EmptyIsBag DEF TypeOK
  <1>0. /\ BootTypeOK /\ RunTypeOK /\ BagTypeOK /\ HistoryTypeOK
    OBVIOUS
  <1>1. ASSUME NEW p \in Procs, NEW source \in Runs \cup {Null}, LaunchEffect(p, source)
        PROVE  /\ RunTypeOK' /\ BagTypeOK'
               /\ settled' \subseteq Runs /\ late' \subseteq Runs
    <2>1. launched + 1 \in Runs /\ launched' = launched + 1
      BY <1>1 DEF LaunchEffect
    <2>2. launched' \in 0..MaxRuns
      BY <2>1, <1>0 DEF RunTypeOK, Runs
    <2>3. RunTypeOK'
      BY <1>0, <1>1, <2>1, <2>2 DEF LaunchEffect, RunTypeOK, Statuses
    <2>4. Script \in Bags
      BY DEF Bags
    <2>5. source # Null => saved[source] \in Bags
      BY <1>0 DEF BagTypeOK
    <2>6. BagTypeOK'
      BY <1>0, <1>1, <2>1, <2>4, <2>5 DEF LaunchEffect, BagTypeOK
    <2> QED
      BY <1>0, <1>1, <2>1, <2>3, <2>6 DEF LaunchEffect, HistoryTypeOK
  <1>2. ASSUME NEW p \in Procs, Launch(p) PROVE TypeOK'
    <2>1. LaunchEffect(p, Null)
      BY <1>2 DEF Launch
    <2>2. RunTypeOK' /\ BagTypeOK' /\ settled' \subseteq Runs /\ late' \subseteq Runs
      BY <1>1, <2>1
    <2> QED
      BY <1>0, <1>2, <2>1, <2>2
      DEF Launch, LaunchEffect, BootTypeOK, HistoryTypeOK, procVars
  <1>3. ASSUME NEW p \in Procs, NEW r \in Runs, Resume(p, r) PROVE TypeOK'
    <2>1. LaunchEffect(p, r)
      BY <1>3 DEF Resume
    <2>2. RunTypeOK' /\ BagTypeOK' /\ settled' \subseteq Runs /\ late' \subseteq Runs
      BY <1>1, <2>1
    <2> QED
      BY <1>0, <1>3, <2>1, <2>2
      DEF Resume, LaunchEffect, BootTypeOK, HistoryTypeOK, procVars
  <1>4. ASSUME NEW p \in Procs, NEW r \in Runs, AutoResume(p, r) PROVE TypeOK'
    <2>1. LaunchEffect(p, r)
      BY <1>4 DEF AutoResume
    <2>2. RunTypeOK' /\ BagTypeOK' /\ settled' \subseteq Runs /\ late' \subseteq Runs
      BY <1>1, <2>1
    <2> QED
      BY <1>0, <1>4, <2>1, <2>2
      DEF AutoResume, LaunchEffect, BootTypeOK, HistoryTypeOK
  <1>5. ASSUME NEW r \in Runs, RunStep(r) PROVE TypeOK'
    <2>1. ASSUME NEW k \in Keys, Reuse(r, k) \/ Compute(r, k) \/ SkipOrFail(r, k)
          PROVE  TypeOK'
      <3>1. ASSUME NEW f \in [Runs -> Bags]
            PROVE  /\ f[r][k] \in Nat
                   /\ [f EXCEPT ![r][k] = @ + 1] \in [Runs -> Bags]
                   /\ f[r][k] > 0 => [f EXCEPT ![r][k] = @ - 1] \in [Runs -> Bags]
        BY DEF Bags
      <3>2. \A f \in [Runs -> Bags] :
              f[r][k] > 0 => [f EXCEPT ![r][k] = @ - 1] \in [Runs -> Bags]
        BY <3>1
      <3>3. todo' \in [Runs -> Bags]
        BY <1>0, <2>1, <3>2 DEF Reuse, Compute, SkipOrFail, Settles, BagTypeOK
      <3>4. previous' \in [Runs -> Bags]
        BY <1>0, <2>1, <3>2 DEF Reuse, Compute, SkipOrFail, BagTypeOK
      <3>5. /\ [journal EXCEPT ![r][k] = @ + 1] \in [Runs -> Bags]
             /\ [current EXCEPT ![r][k] = @ + 1] \in [Runs -> Bags]
        BY <1>0, <3>1 DEF BagTypeOK
      <3>6. journal' \in [Runs -> Bags]
        <4>1. journal' \in {journal, [journal EXCEPT ![r][k] = @ + 1]}
          BY <2>1 DEF Reuse, Compute, SkipOrFail, Results
        <4> QED
          BY <1>0, <4>1, <3>5 DEF BagTypeOK
      <3>7. current' \in [Runs -> Bags]
        <4>1. current' \in {current, [current EXCEPT ![r][k] = @ + 1]}
          BY <2>1 DEF Reuse, Compute, SkipOrFail, Results
        <4> QED
          BY <1>0, <4>1, <3>5 DEF BagTypeOK
      <3>8. fresh' \in [Runs -> Bags]
        BY <1>0, <2>1, <3>1 DEF Reuse, Compute, SkipOrFail, BagTypeOK
      <3>9. UNCHANGED <<procVars, runVars, mem, fileVars, history>>
        BY <2>1 DEF Reuse, Compute, SkipOrFail, Settles
      <3>10. BootTypeOK' /\ RunTypeOK' /\ HistoryTypeOK'
        BY <1>0, <3>9
        DEF BootTypeOK, RunTypeOK, HistoryTypeOK, procVars, runVars, fileVars, history
      <3>11. BagTypeOK'
        BY <1>0, <3>3, <3>4, <3>6, <3>7, <3>8, <3>9 DEF BagTypeOK, fileVars
      <3> QED
        BY <3>10, <3>11
    <2>2. ASSUME Save(r) \/ Finish(r) PROVE TypeOK'
      <3>1. RunTypeOK'
        BY <1>0, <2>2 DEF Save, Finish, RunTypeOK, Statuses, runVars
      <3>2. BagTypeOK'
        <4>1. CASE Save(r)
          BY <1>0, <4>1 DEF Save, BagTypeOK, callVars
        <4>2. CASE Finish(r)
          <5>1. current[r] \in Bags
            BY <1>0 DEF BagTypeOK
          <5> QED
            BY <1>0, <4>2, <5>1 DEF Finish, BagTypeOK
        <4> QED
          BY <2>2, <4>1, <4>2
      <3>3. UNCHANGED <<procVars, history>>
        BY <2>2 DEF Save, Finish
      <3> QED
        BY <1>0, <3>1, <3>2, <3>3 DEF BootTypeOK, HistoryTypeOK, procVars, history
    <2> QED
      BY <1>5, <2>1, <2>2 DEF RunStep
  <1>6. ASSUME NEW p \in Procs, Boot(p) PROVE TypeOK'
    <2>1. Known \subseteq Runs
      BY <1>0 DEF RunTypeOK, Known, Runs
    <2> QED
      BY <1>0, <1>6, <2>1
      DEF Boot, Up, BootTypeOK, RunTypeOK, BagTypeOK, HistoryTypeOK, runVars, fileVars, callVars
  <1>7. ASSUME NEW p \in Procs, NEW r \in Runs, Reload(p, r) PROVE TypeOK'
    <2>1. [run |-> r, cache |-> saved[r]] \in [run : Runs, cache : Bags]
      BY <1>0 DEF BagTypeOK
    <2> QED
      BY <1>0, <1>7, <2>1
      DEF Reload, BootTypeOK, RunTypeOK, BagTypeOK, HistoryTypeOK, runVars, fileVars, callVars
  <1>8. ASSUME NEW p \in Procs, Mark(p) PROVE TypeOK'
    <2>1. holding[p].run \in Runs /\ holding[p].cache \in Bags
      BY <1>0, <1>8 DEF Mark, BootTypeOK
    <2>2. Plus(holding[p].cache, journal[holding[p].run]) \in Bags
      BY <1>0, <2>1 DEF Plus, Bags, BagTypeOK
    <2> QED
      BY <1>0, <1>8, <2>1, <2>2
      DEF Mark, BootTypeOK, RunTypeOK, BagTypeOK, HistoryTypeOK, Statuses, runVars, callVars
  <1>9. ASSUME NEW p \in Procs,
               \/ ReapEnds(p) \/ BootEnds(p)
               \/ \E r \in Runs : PassOver(p, r) \/ PassResume(p, r)
        PROVE  TypeOK'
    <2>1. BootTypeOK'
      BY <1>0, <1>9 DEF ReapEnds, BootEnds, PassOver, PassResume, Up, BootTypeOK
    <2>2. UNCHANGED <<runVars, mem, fileVars, callVars, history>>
      BY <1>9 DEF ReapEnds, BootEnds, PassOver, PassResume
    <2> QED
      BY <1>0, <2>1, <2>2
      DEF RunTypeOK, BagTypeOK, HistoryTypeOK, runVars, fileVars, callVars, history
  <1>10. ASSUME NEW p \in Procs, Crash(p) PROVE TypeOK'
    <2>1. BootTypeOK'
      BY <1>0, <1>10 DEF Crash, BootTypeOK
    <2>2. previous' \in [Runs -> Bags] /\ todo' \in [Runs -> Bags]
      BY <1>0, <1>10 DEF Crash, BagTypeOK
    <2> QED
      BY <1>0, <1>10, <2>1, <2>2
      DEF Crash, RunTypeOK, BagTypeOK, HistoryTypeOK, runVars, fileVars, history
  <1>11. CASE UNCHANGED vars
    BY <1>0, <1>11 DEF vars, BootTypeOK, RunTypeOK, BagTypeOK, HistoryTypeOK
  <1> QED
    BY <1>2, <1>3, <1>4, <1>5, <1>6, <1>7, <1>8, <1>9, <1>10, <1>11 DEF Next, BootStep
-----------------------------------------------------------------------------
(* What a step may do to a run, and to what a reaper holds.                *)

Born(r) ==
  /\ r = launched + 1 /\ launched' = r
  /\ runner'[r] \in Procs
  /\ mem'[r] = "active" /\ disk'[r] = "active"
  /\ saved'[r] = saved[r] /\ markedBy'[r] = markedBy[r]

Kept(r) == launched' = launched /\ runner'[r] = runner[r] /\ from'[r] = from[r]

Worked(r) ==
  /\ Live(r) /\ Kept(r)
  /\ markedBy'[r] = markedBy[r]
  /\ \/ mem'[r] = mem[r] /\ disk'[r] = disk[r] /\ saved'[r] = saved[r]
     \/ mem'[r] = mem[r] /\ disk'[r] = "active" /\ saved'[r] = EmptyBag
     \/ /\ mem'[r] = "over" /\ disk'[r] = "over"
        /\ saved'[r] = current[r] /\ current'[r] = current[r]

MarkedBy(p, r) ==
  /\ holding[p] # Null /\ holding[p].run = r
  /\ Kept(r)
  /\ UNCHANGED <<proc, raced>> /\ mem'[r] = mem[r]
  /\ journal'[r] = journal[r] /\ current'[r] = current[r]
  /\ disk'[r] = "interrupted"
  /\ saved'[r] = Plus(holding[p].cache, journal[r])
  /\ markedBy'[r] = markedBy[r] \cup {p}
  /\ holding' = [holding EXCEPT ![p] = Null]

Untouched(r) ==
  /\ runner'[r] = runner[r] /\ from'[r] = from[r]
  /\ r \in Known' <=> r \in Known
  /\ mem'[r] = mem[r] /\ disk'[r] = disk[r] /\ saved'[r] = saved[r]
  /\ journal'[r] = journal[r] /\ current'[r] = current[r] /\ markedBy'[r] = markedBy[r]

LEMMA LaunchKinds ==
  ASSUME TypeOK, NEW p \in Procs, NEW source, LaunchEffect(p, source), UNCHANGED markedBy,
         NEW r \in Runs
  PROVE  Born(r) \/ Untouched(r)
  <1> USE DEF LaunchEffect
  <1>0. launched \in Nat /\ launched' = launched + 1 /\ r \in Nat
    BY RecoveryAssumption DEF TypeOK, RunTypeOK, Runs
  <1>1. CASE r = launched + 1
    BY <1>0, <1>1 DEF Born, TypeOK, RunTypeOK
  <1>2. CASE r # launched + 1
    <2>1. r \in Known' <=> r \in Known
      BY <1>0, <1>2 DEF Known
    <2> QED
      BY <1>2, <2>1 DEF Untouched, TypeOK, RunTypeOK
  <1> QED
    BY <1>1, <1>2

LEMMA StepKinds ==
  ASSUME TypeOK, [Next]_vars, NEW r \in Runs
  PROVE  Born(r) \/ Worked(r) \/ Untouched(r) \/ \E p \in Procs : MarkedBy(p, r)
  <1>1. ASSUME NEW p \in Procs,
               Launch(p) \/ \E x \in Runs : Resume(p, x) \/ AutoResume(p, x)
        PROVE  Born(r) \/ Untouched(r)
    <2>1. PICK source : LaunchEffect(p, source) /\ UNCHANGED markedBy
      BY <1>1 DEF Launch, Resume, AutoResume
    <2> QED
      BY <2>1, LaunchKinds
  <1>2. ASSUME NEW x \in Runs, RunStep(x) PROVE Worked(r) \/ Untouched(r)
    <2>1. ASSUME NEW k \in Keys, Reuse(x, k) \/ Compute(x, k) \/ SkipOrFail(x, k)
          PROVE  Worked(r) \/ Untouched(r)
      <3>1. Live(x) /\ UNCHANGED <<runVars, mem, fileVars, markedBy>>
        BY <2>1 DEF Reuse, Compute, SkipOrFail, Settles, history
      <3>2. x # r => journal'[r] = journal[r] /\ current'[r] = current[r]
        BY <2>1 DEF Reuse, Compute, SkipOrFail, Results, TypeOK, BagTypeOK
      <3> QED
        BY <3>1, <3>2 DEF Worked, Untouched, Kept, Known, runVars, fileVars
    <2>2. ASSUME Save(x) \/ Finish(x) PROVE Worked(r) \/ Untouched(r)
      <3>1. Live(x) /\ UNCHANGED <<runVars, journal, current, markedBy>>
        BY <2>2 DEF Save, Finish, history, callVars
      <3>2. x # r => mem'[r] = mem[r] /\ disk'[r] = disk[r] /\ saved'[r] = saved[r]
        BY <2>2 DEF Save, Finish, TypeOK, RunTypeOK, BagTypeOK
      <3>3. x = r => \/ mem'[r] = mem[r] /\ disk'[r] = "active" /\ saved'[r] = EmptyBag
                     \/ mem'[r] = "over" /\ disk'[r] = "over" /\ saved'[r] = current[r]
        BY <2>2 DEF Save, Finish, TypeOK, RunTypeOK, BagTypeOK
      <3> QED
        BY <3>1, <3>2, <3>3 DEF Worked, Untouched, Kept, Known, runVars
    <2> QED
      BY <1>2, <2>1, <2>2 DEF RunStep
  <1>3. ASSUME NEW p \in Procs, Mark(p)
        PROVE  Untouched(r) \/ MarkedBy(p, r)
    <2>1. UNCHANGED <<launched, runner, from, proc, mem, journal, current, raced>>
      BY <1>3 DEF Mark, runVars, callVars
    <2>2. CASE holding[p].run = r
      BY <1>3, <2>1, <2>2 DEF Mark, MarkedBy, Kept, TypeOK, RunTypeOK, BagTypeOK, HistoryTypeOK
    <2>3. CASE holding[p].run # r
      BY <1>3, <2>1, <2>3 DEF Mark, Untouched, Known, TypeOK, RunTypeOK, BagTypeOK, HistoryTypeOK
    <2> QED
      BY <2>2, <2>3
  <1>4. ASSUME NEW p \in Procs,
               \/ Boot(p) \/ ReapEnds(p) \/ BootEnds(p) \/ Crash(p)
               \/ \E x \in Runs : Reload(p, x) \/ PassOver(p, x) \/ PassResume(p, x)
        PROVE  Untouched(r)
    <2>1. UNCHANGED <<runVars, mem, fileVars, journal, current, markedBy>>
      BY <1>4 DEF Boot, ReapEnds, BootEnds, Crash, Reload, PassOver, PassResume, callVars, history
    <2> QED
      BY <2>1 DEF Untouched, Known, runVars, fileVars
  <1>5. CASE UNCHANGED vars
    BY <1>5 DEF vars, Untouched, Known
  <1> QED
    BY <1>1, <1>2, <1>3, <1>4, <1>5 DEF Next, BootStep

\* The dead stay dead, and a reaper gets a record only by Reload.
LEMMA ProcKinds ==
  ASSUME TypeOK, [Next]_vars, NEW p \in Procs
  PROVE  /\ proc[p] = "dead" => proc'[p] = "dead"
         /\ holding'[p] \in {holding[p], Null} \/ \E r \in Runs : Reload(p, r)
  <1> USE DEF TypeOK, BootTypeOK
  <1>1. ASSUME NEW q \in Procs, Launch(q) \/ \E r \in Runs : Resume(q, r)
        PROVE  UNCHANGED <<proc, holding>>
    BY <1>1 DEF Launch, Resume, procVars
  <1>2. ASSUME NEW r \in Runs, RunStep(r) PROVE UNCHANGED <<proc, holding>>
    BY <1>2 DEF RunStep, Save, Finish, Reuse, Compute, SkipOrFail, Settles, procVars
  <1>3. ASSUME NEW q \in Procs, NEW r \in Runs,
               PassOver(q, r) \/ AutoResume(q, r) \/ PassResume(q, r)
        PROVE  UNCHANGED <<proc, holding>>
    BY <1>3 DEF PassOver, AutoResume, PassResume
  <1>4. ASSUME NEW q \in Procs, NEW r \in Runs, Reload(q, r)
        PROVE  proc' = proc /\ (p # q => holding'[p] = holding[p])
    BY <1>4 DEF Reload
  <1>5. ASSUME NEW q \in Procs, Mark(q)
        PROVE  proc' = proc /\ holding'[p] \in {holding[p], Null}
    BY <1>5 DEF Mark
  <1>6. ASSUME NEW q \in Procs, Boot(q) \/ ReapEnds(q) \/ BootEnds(q)
        PROVE  holding' = holding /\ (proc[p] = "dead" => proc'[p] = "dead")
    BY <1>6 DEF Boot, ReapEnds, BootEnds
  <1>7. ASSUME NEW q \in Procs, Crash(q)
        PROVE  holding'[p] \in {holding[p], Null} /\ (proc[p] = "dead" => proc'[p] = "dead")
    BY <1>7 DEF Crash
  <1>8. CASE UNCHANGED vars
    BY <1>8 DEF vars
  <1> QED
    BY <1>1, <1>2, <1>3, <1>4, <1>5, <1>6, <1>7, <1>8 DEF Next, BootStep
-----------------------------------------------------------------------------
\* A run that is cut off stays so, with its journal and its results.
LEMMA CutOffStays ==
  ASSUME RInv, [Next]_vars, NEW r \in Runs, r \in Known, CutOff(r)
  PROVE  /\ r \in Known' /\ CutOff(r)' /\ runner'[r] = runner[r]
         /\ journal'[r] = journal[r] /\ current'[r] = current[r]
         /\ disk'[r] \in {disk[r], "interrupted"}
  <1>1. runner[r] \in Procs /\ proc[runner[r]] = "dead"
    BY DEF CutOff, Gone
  <1>2. proc'[runner[r]] = "dead"
    BY <1>1, ProcKinds DEF RInv
  <1>3. ~Live(r) /\ ~Born(r)
    BY <1>1 DEF Live, Up, Born, Known, RInv, TypeOK, RunTypeOK
  <1>4. Untouched(r) \/ \E p \in Procs : MarkedBy(p, r)
    BY <1>3, StepKinds DEF RInv, Worked
  <1> QED
    BY <1>1, <1>2, <1>4 DEF Untouched, MarkedBy, Kept, CutOff, Gone, Owned, Known

LEMMA NextKnownInv == RInv /\ [Next]_vars => KnownInv'
  <1> SUFFICES ASSUME RInv, [Next]_vars, NEW r \in Runs
               PROVE  /\ r \in Known' => runner'[r] \in Procs /\ mem'[r] \in {"active", "over"}
                      /\ r \notin Known' =>
                           /\ runner'[r] = Null /\ mem'[r] = "none" /\ disk'[r] = "none"
                           /\ saved'[r] = EmptyBag /\ markedBy'[r] = {}
    BY DEF KnownInv
  <1>0. r \in Nat /\ launched \in Nat /\ r >= 1
    BY RecoveryAssumption DEF RInv, TypeOK, RunTypeOK, Runs
  <1>1. CASE Born(r)
    BY <1>0, <1>1 DEF Born, Known
  <1>2. CASE Worked(r)
    <2>1. r \in Known /\ Known' = Known
      BY <1>2, RecoveryAssumption DEF Worked, Kept, Live, RInv, KnownInv, Known
    <2> QED
      BY <1>2, <2>1 DEF Worked, Kept, RInv, KnownInv
  <1>3. CASE Untouched(r)
    BY <1>3 DEF Untouched, RInv, KnownInv
  <1>4. ASSUME NEW p \in Procs, MarkedBy(p, r)
        PROVE  r \in Known' /\ runner'[r] \in Procs /\ mem'[r] \in {"active", "over"}
    <2>1. r \in Known /\ Known' = Known
      BY <1>4 DEF MarkedBy, Kept, RInv, HoldInv, Known
    <2> QED
      BY <1>4, <2>1 DEF MarkedBy, Kept, RInv, KnownInv
  <1> QED
    BY <1>1, <1>2, <1>3, <1>4, StepKinds DEF RInv

LEMMA PlusEmpty == \A b \in Bags : Plus(EmptyBag, b) = b
  BY DEF Plus, EmptyBag, Bags

LEMMA NextFileInv == RInv /\ [Next]_vars => FileInv'
  <1> SUFFICES ASSUME RInv, [Next]_vars, NEW r \in Runs, Owned(r)'
               PROVE  /\ disk'[r] = "over" <=> mem'[r] = "over"
                      /\ disk'[r] = "active" => saved'[r] = EmptyBag
                      /\ disk'[r] = "interrupted" => CutOff(r)' /\ saved'[r] = journal'[r]
    BY DEF FileInv
  <1>1. CASE Born(r)
    <2>1. r \notin Known
      BY <1>1 DEF Born, Known, RInv, TypeOK, RunTypeOK
    <2> QED
      BY <1>1, <2>1 DEF Born, RInv, KnownInv
  <1>2. CASE Worked(r)
    <2>1. ~CutOff(r)
      BY <1>2 DEF Worked, Live, CutOff, Gone, Up
    <2>2. Owned(r) /\ mem[r] = "active"
      BY <1>2 DEF Worked, Live, Kept, Owned
    <2> QED
      BY <1>2, <2>1, <2>2 DEF Worked, RInv, FileInv
  <1>3. CASE Untouched(r)
    <2>1. Owned(r)
      BY <1>3 DEF Untouched, Owned
    <2>2. disk[r] = "interrupted" => CutOff(r)'
      <3>1. disk[r] = "interrupted" => CutOff(r) /\ r \in Known
        BY <2>1 DEF RInv, FileInv, KnownInv
      <3> QED
        BY <3>1, CutOffStays
    <2> QED
      BY <1>3, <2>1, <2>2 DEF Untouched, RInv, FileInv
  <1>4. ASSUME NEW p \in Procs, MarkedBy(p, r)
        PROVE  CutOff(r)' /\ saved'[r] = journal'[r] /\ disk'[r] = "interrupted"
    <2>1. Owned(r)
      BY <1>4 DEF MarkedBy, Kept, Owned
    <2>2. CutOff(r) /\ r \in Known /\ holding[p].cache = EmptyBag
      BY <1>4, <2>1 DEF MarkedBy, RInv, HoldInv
    <2>3. journal[r] \in Bags
      BY DEF RInv, TypeOK, BagTypeOK
    <2> QED
      BY <1>4, <2>2, <2>3, CutOffStays, PlusEmpty DEF MarkedBy
  <1>5. ASSUME CutOff(r)' PROVE mem'[r] = "active"
    BY <1>5 DEF CutOff
  <1> QED
    BY <1>1, <1>2, <1>3, <1>4, <1>5, StepKinds DEF RInv

LEMMA NextHoldInv == RInv /\ [Next]_vars => HoldInv'
  <1> SUFFICES ASSUME RInv, [Next]_vars, NEW p \in Procs, NEW h, h = holding'[p], h # Null
               PROVE  /\ h.run \in Known'
                      /\ runner'[h.run] \in Listening =>
                           /\ mem'[h.run] = "active" /\ runner'[h.run] \in Procs
                           /\ proc'[runner'[h.run]] = "dead" /\ h.cache = EmptyBag
    BY DEF HoldInv, Owned, CutOff, Gone
  <1>1. ASSUME NEW r \in Runs, r \in Known,
               Owned(r) => CutOff(r) /\ h.cache = EmptyBag
        PROVE  /\ r \in Known'
               /\ runner'[r] \in Listening =>
                    /\ mem'[r] = "active" /\ runner'[r] \in Procs
                    /\ proc'[runner'[r]] = "dead" /\ h.cache = EmptyBag
    <2>1. ~Born(r)
      BY <1>1 DEF Born, Known, RInv, TypeOK, RunTypeOK
    <2>2. r \in Known' /\ runner'[r] = runner[r]
      BY <1>1, <2>1, StepKinds DEF RInv, Worked, Untouched, MarkedBy, Kept, Known
    <2>3. CASE Owned(r)
      BY <1>1, <2>2, <2>3, CutOffStays DEF CutOff, Gone
    <2> QED
      BY <2>2, <2>3 DEF Owned
  <1>2. CASE h = holding[p]
    <2>1. h.run \in Runs
      BY <1>2 DEF RInv, TypeOK, BootTypeOK
    <2>2. h.run \in Known /\ (Owned(h.run) => CutOff(h.run) /\ h.cache = EmptyBag)
      BY <1>2 DEF RInv, HoldInv
    <2> QED
      BY <1>1, <2>1, <2>2
  <1>3. ASSUME NEW r \in Runs, Reload(p, r)
        PROVE  h.run = r /\ r \in Known /\ (Owned(r) => CutOff(r) /\ h.cache = EmptyBag)
    <2>1. h = [run |-> r, cache |-> saved[r]]
      BY <1>3 DEF Reload, RInv, TypeOK, BootTypeOK
    <2>2. r \in Known
      BY <1>3 DEF Reload, RInv, ListInv
    <2>3. Owned(r) => CutOff(r) /\ saved[r] = EmptyBag
      BY <1>3, <2>2 DEF Reload, MaybeOrphan, CutOff, RInv, FileInv, KnownInv
    <2> QED
      BY <2>1, <2>2, <2>3
  <1> QED
    BY <1>1, <1>2, <1>3, ProcKinds DEF RInv

LEMMA NextListInv == RInv /\ [Next]_vars => ListInv'
  <1> SUFFICES ASSUME RInv, [Next]_vars, NEW p \in Procs, NEW r \in toReap'[p]
               PROVE  r \in Known'
    BY DEF ListInv
  <1>1. Known \subseteq Known'
    <2>1. launched \in Nat /\ launched' \in {launched, launched + 1}
      BY DEF RInv, TypeOK, RunTypeOK, Next, vars, Launch, Resume, AutoResume, LaunchEffect,
             RunStep, Save, Finish, Reuse, Compute, SkipOrFail, Settles, BootStep, Boot, Reload,
             PassOver, Mark, ReapEnds, PassResume, BootEnds, Crash, runVars
    <2> QED
      BY <2>1 DEF Known
  <1>2. r \in toReap[p] \/ r \in Known
    <2> USE DEF RInv, TypeOK, BootTypeOK
    <2>1. CASE UNCHANGED toReap
      BY <2>1
    <2>2. ASSUME NEW q \in Procs, Boot(q) PROVE r \in toReap[p] \/ r \in Known
      BY <2>2 DEF Boot
    <2>3. ASSUME NEW q \in Procs, NEW x \in Runs, Reload(q, x) \/ PassOver(q, x)
          PROVE  r \in toReap[p]
      BY <2>3 DEF Reload, PassOver
    <2>4. ASSUME NEW q \in Procs, Crash(q) PROVE r \in toReap[p]
      BY <2>4 DEF Crash
    <2>5. \/ UNCHANGED toReap
          \/ \E q \in Procs : Boot(q) \/ Crash(q) \/ \E x \in Runs : Reload(q, x) \/ PassOver(q, x)
      BY DEF Next, vars, Launch, Resume, AutoResume, RunStep, Save, Finish, Reuse, Compute,
             SkipOrFail, Settles, BootStep, Mark, ReapEnds, PassResume, BootEnds, procVars
    <2> QED
      BY <2>1, <2>2, <2>3, <2>4, <2>5
  <1> QED
    BY <1>1, <1>2 DEF RInv, ListInv

LEMMA NextFoundInv == RInv /\ [Next]_vars => FoundInv'
  <1> SUFFICES ASSUME RInv, [Next]_vars, NEW p \in Procs, NEW r \in found'[p]
               PROVE  /\ r \in Known' /\ CutOff(r)' /\ proc'[p] # "off"
                      /\ proc'[p] \in Up =>
                           \/ disk'[r] # "active"
                           \/ proc'[p] = "reaping" /\ r \in toReap'[p]
                           \/ proc'[p] = "reaping" /\ holding'[p] # Null /\ holding'[p].run = r
    BY DEF FoundInv
  <1> USE DEF RInv, TypeOK, BootTypeOK, HistoryTypeOK
  <1>1. CASE Boot(p)
    <2>1. r \in Known /\ CutOff(r) /\ proc'[p] = "reaping" /\ r \in toReap'[p]
      BY <1>1 DEF Boot
    <2>2. r \in Runs
      BY <2>1, RecoveryAssumption DEF RunTypeOK, Known, Runs
    <2> QED
      BY <2>1, <2>2, CutOffStays
  <1>2. CASE ~Boot(p)
    <2>1. r \in found[p]
      BY <1>2
      DEF Next, vars, Launch, Resume, AutoResume, LaunchEffect, RunStep, Save, Finish, Reuse,
          Compute, SkipOrFail, Settles, BootStep, Boot, Reload, PassOver, Mark, ReapEnds,
          PassResume, BootEnds, Crash, history
    <2>2. r \in Known /\ CutOff(r) /\ r \in Runs /\ proc[p] # "off"
      BY <2>1 DEF FoundInv
    <2>3. r \in Known' /\ CutOff(r)' /\ disk'[r] \in {disk[r], "interrupted"}
      BY <2>2, CutOffStays
    <2>4. disk[r] # "active" => disk'[r] # "active"
      BY <2>3
    <2>5. CASE UNCHANGED <<proc, toReap, holding>>
      BY <2>1, <2>2, <2>3, <2>4, <2>5 DEF FoundInv
    <2>6. ASSUME NEW q \in Procs, Crash(q) \/ ReapEnds(q) \/ BootEnds(q) \/ Boot(q)
          PROVE  /\ proc'[p] # "off"
                 /\ proc'[p] \in Up =>
                      \/ disk'[r] # "active"
                      \/ proc'[p] = "reaping" /\ r \in toReap'[p]
                      \/ proc'[p] = "reaping" /\ holding'[p] # Null /\ holding'[p].run = r
      <3>1. CASE p = q
        BY <1>2, <2>1, <2>4, <2>6, <3>1 DEF Crash, ReapEnds, BootEnds, FoundInv, Up
      <3>2. CASE p # q
        BY <2>1, <2>2, <2>4, <2>6, <3>2 DEF Crash, ReapEnds, BootEnds, Boot, FoundInv
      <3> QED
        BY <3>1, <3>2
    <2>7. ASSUME NEW q \in Procs, NEW x \in Runs, Reload(q, x) \/ PassOver(q, x)
          PROVE  proc' = proc /\ (proc[p] \in Up =>
                      \/ disk'[r] # "active"
                      \/ proc[p] = "reaping" /\ r \in toReap'[p]
                      \/ proc[p] = "reaping" /\ holding'[p] # Null /\ holding'[p].run = r)
      <3>0. proc' = proc /\ disk' = disk
        BY <2>7 DEF Reload, PassOver, fileVars
      <3>1. CASE p # q
        BY <2>1, <2>7, <3>0, <3>1 DEF Reload, PassOver, FoundInv
      <3>2. CASE p = q /\ PassOver(q, x)
        <4>1. x = r => disk[r] # "active"
          BY <2>2, <3>2 DEF PassOver, MaybeAlive, CutOff
        <4> QED
          BY <2>1, <3>0, <3>2, <4>1 DEF PassOver, FoundInv
      <3>3. CASE p = q /\ Reload(q, x)
        <4>1. saved[x] \in Bags /\ x \in Nat
          BY DEF BagTypeOK, Runs
        <4>2. holding'[p] = [run |-> x, cache |-> saved[x]]
          BY <3>3 DEF Reload
        <4>3. holding'[p] # Null /\ holding'[p].run = x
          BY <4>1, <4>2, RecoveryAssumption DEF Bags
        <4> QED
          BY <2>1, <3>0, <3>3, <4>3 DEF Reload, FoundInv
      <3> QED
        BY <2>7, <3>1, <3>2, <3>3
    <2>8. ASSUME NEW q \in Procs, Mark(q)
          PROVE  proc' = proc /\ (proc[p] \in Up =>
                      \/ disk'[r] # "active"
                      \/ proc[p] = "reaping" /\ r \in toReap'[p]
                      \/ proc[p] = "reaping" /\ holding'[p] # Null /\ holding'[p].run = r)
      <3>1. proc' = proc /\ toReap' = toReap
        BY <2>8 DEF Mark
      <3>2. CASE p # q
        BY <2>1, <2>4, <2>8, <3>1, <3>2 DEF Mark, FoundInv
      <3>3. CASE p = q
        <4>1. holding[p].run = r => disk'[r] = "interrupted"
          BY <2>2, <2>8, <3>3 DEF Mark, RunTypeOK
        <4> QED
          BY <2>1, <2>4, <3>1, <4>1 DEF FoundInv
      <3> QED
        BY <3>2, <3>3
    <2>9. \/ UNCHANGED <<proc, toReap, holding>>
          \/ \E q \in Procs :
               \/ Crash(q) \/ ReapEnds(q) \/ BootEnds(q) \/ Boot(q) \/ Mark(q)
               \/ \E x \in Runs : Reload(q, x) \/ PassOver(q, x)
      BY DEF Next, vars, Launch, Resume, AutoResume, RunStep, Save, Finish, Reuse, Compute,
             SkipOrFail, Settles, BootStep, PassResume, procVars
    <2> QED
      BY <2>2, <2>3, <2>5, <2>6, <2>7, <2>8, <2>9
  <1> QED
    BY <1>1, <1>2
-----------------------------------------------------------------------------
LEMMA InitRInv == Init => RInv
  <1> SUFFICES ASSUME Init PROVE RInv
    OBVIOUS
  <1> USE RecoveryAssumption DEF Init
  <1>1. Known = {}
    BY DEF Known
  <1>2. TypeOK
    BY EmptyIsBag
    DEF TypeOK, BootTypeOK, RunTypeOK, BagTypeOK, HistoryTypeOK, Statuses, Runs
  <1>3. KnownInv /\ HoldInv /\ FoundInv /\ ListInv
    BY <1>1 DEF KnownInv, HoldInv, FoundInv, ListInv
  <1>4. FileInv
    BY DEF FileInv, Owned
  <1> QED
    BY <1>2, <1>3, <1>4 DEF RInv

LEMMA RInvHolds == Spec => []RInv
  <1>1. RInv /\ [Next]_vars => RInv'
    BY NextTypeOK, NextKnownInv, NextFileInv, NextHoldInv, NextFoundInv, NextListInv DEF RInv
  <1> QED
    BY InitRInv, <1>1, PTL DEF Spec

\* Every variable has its type in every reachable state.
THEOREM RecoveryTypeCorrect == Spec => []TypeOK
  <1>1. RInv => TypeOK
    BY DEF RInv
  <1> QED
    BY <1>1, RInvHolds, PTL

\* However many processes boot, none of them marks a run that a live process owns
\* (_is_orphan).
THEOREM LiveRunsAreSafe == Spec => []LiveRunsUntouched
  <1>1. RInv => LiveRunsUntouched
    BY RecoveryAssumption
    DEF RInv, FileInv, TypeOK, RunTypeOK, Known, Runs, LiveRunsUntouched, CutOff
  <1> QED
    BY <1>1, RInvHolds, PTL

\* The reaped record of a run with an owner has the journal's results, each of them once
\* (_mark_interrupted, _harvest_journal_cache).
THEOREM HarvestIsExact == Spec => []HarvestExact
  <1>1. RInv => HarvestExact
    BY RecoveryAssumption DEF RInv, FileInv, TypeOK, RunTypeOK, Known, Runs, HarvestExact
  <1> QED
    BY <1>1, RInvHolds, PTL

\* A reaper never turns a finished run into an interrupted one (the record is loaded
\* again, and its owner must be dead).
THEOREM FinishedStaysFinished == Spec => []FinishedNotReaped
  <1>1. RInv => FinishedNotReaped
    BY RecoveryAssumption DEF RInv, FileInv, TypeOK, RunTypeOK, Known, Runs, FinishedNotReaped
  <1> QED
    BY <1>1, RInvHolds, PTL

\* A process that has reaped leaves no orphan of its boot active (reap_orphans).
THEOREM BootReaps == Spec => []OrphansAreReaped
  <1>1. RInv => OrphansAreReaped
    BY DEF RInv, FoundInv, OrphansAreReaped, Up
  <1> QED
    BY <1>1, RInvHolds, PTL
-----------------------------------------------------------------------------
(* The marks of one run.                                                   *)

Holds(p, r) == holding[p] # Null /\ holding[p].run = r

MarkInv ==
  \A r \in Runs \ raced : Owned(r) =>
    /\ \A p, q \in Procs : Holds(p, r) /\ Holds(q, r) => p = q
    /\ markedBy[r] # {} => disk[r] = "interrupted" /\ \A p \in Procs : ~Holds(p, r)
    /\ \A p, q \in markedBy[r] : p = q

LEMMA NextMarkInv == RInv /\ MarkInv /\ [Next]_vars => MarkInv'
  <1> SUFFICES ASSUME RInv, MarkInv, [Next]_vars, NEW r \in Runs \ raced', Owned(r)'
               PROVE  /\ \A p, q \in Procs : Holds(p, r)' /\ Holds(q, r)' => p = q
                      /\ markedBy'[r] # {} =>
                           disk'[r] = "interrupted" /\ \A p \in Procs : ~Holds(p, r)'
                      /\ \A p, q \in markedBy'[r] : p = q
    BY DEF MarkInv
  <1>1. r \in Runs \ raced
    BY DEF Next, vars, Launch, Resume, AutoResume, LaunchEffect, RunStep, Save, Finish, Reuse,
           Compute, SkipOrFail, Settles, BootStep, Boot, Reload, PassOver, Mark, ReapEnds,
           PassResume, BootEnds, Crash, history
  <1>2. CASE \E q \in Procs, x \in Runs : Reload(q, x)
    <2>1. PICK q \in Procs, x \in Runs : Reload(q, x)
      BY <1>2
    <2>2. /\ disk' = disk /\ markedBy' = markedBy /\ Owned(r)
          /\ raced' = raced \cup {y \in {x} : \E p \in Procs : Holds(p, y)}
      BY <2>1 DEF Reload, fileVars, runVars, Owned, Holds
    <2>3. \A p \in Procs : Holds(p, r)' => Holds(p, r) \/ (p = q /\ x = r)
      BY <2>1 DEF Reload, Holds, RInv, TypeOK, BootTypeOK
    <2>4. CASE x = r
      <3>1. \A p \in Procs : ~Holds(p, r)
        BY <2>2, <2>4
      <3>2. markedBy[r] = {}
        BY <1>1, <2>1, <2>2, <2>4 DEF Reload, MarkInv
      <3> QED
        BY <2>2, <2>3, <3>1, <3>2
    <2>5. CASE x # r
      BY <1>1, <2>2, <2>3, <2>5 DEF MarkInv
    <2> QED
      BY <2>4, <2>5
  <1>3. CASE ~\E q \in Procs, x \in Runs : Reload(q, x)
    <2>1. \A p \in Procs : Holds(p, r)' => Holds(p, r)
      BY <1>3, ProcKinds DEF Holds, RInv
    <2>2. CASE Born(r)
      <3>1. r \notin Known
        BY <2>2 DEF Born, Known, RInv, TypeOK, RunTypeOK
      <3>2. markedBy'[r] = {}
        BY <2>2, <3>1 DEF Born, RInv, KnownInv
      <3>3. \A p \in Procs : ~Holds(p, r)
        BY <3>1 DEF Holds, RInv, HoldInv
      <3> QED
        BY <2>1, <3>2, <3>3
    <2>3. CASE Worked(r)
      <3>1. Owned(r) /\ ~CutOff(r) /\ markedBy'[r] = markedBy[r]
        BY <2>3 DEF Worked, Live, Kept, Owned, CutOff, Gone, Up
      <3>2. markedBy[r] = {}
        BY <1>1, <3>1 DEF MarkInv, RInv, FileInv
      <3> QED
        BY <1>1, <2>1, <3>1, <3>2 DEF MarkInv
    <2>4. CASE Untouched(r)
      <3>1. Owned(r) /\ markedBy'[r] = markedBy[r] /\ disk'[r] = disk[r]
        BY <2>4 DEF Untouched, Owned
      <3> QED
        BY <1>1, <2>1, <3>1 DEF MarkInv
    <2>5. ASSUME NEW p \in Procs, MarkedBy(p, r)
          PROVE  /\ disk'[r] = "interrupted" /\ \A q \in Procs : ~Holds(q, r)'
                 /\ \A q, s \in markedBy'[r] : q = s
      <3>1. Owned(r) /\ Holds(p, r)
        BY <2>5 DEF MarkedBy, Kept, Owned, Holds
      <3>2. markedBy[r] = {} /\ \A q \in Procs : Holds(q, r) => q = p
        BY <1>1, <3>1 DEF MarkInv
      <3>3. ~Holds(p, r)'
        BY <2>5 DEF MarkedBy, Holds, RInv, TypeOK, BootTypeOK
      <3> QED
        BY <2>1, <2>5, <3>2, <3>3 DEF MarkedBy
    <2> QED
      BY <2>2, <2>3, <2>4, <2>5, StepKinds, <1>1 DEF RInv
  <1> QED
    BY <1>2, <1>3

\* Two reapers mark the same run only when both had loaded its record before either saved
\* it (reap_orphans has no lock across processes).
THEOREM OneMarkPerOrphan == Spec => []MarkedOnce
  <1>1. Init => MarkInv
    BY RecoveryAssumption DEF Init, MarkInv, Holds, Owned
  <1>2. RInv /\ MarkInv => MarkedOnce
    <2> SUFFICES ASSUME RInv, MarkInv, NEW r \in Known \ raced, Owned(r)
                 PROVE  Cardinality(markedBy[r]) <= 1
      BY DEF MarkedOnce
    <2>1. r \in Runs
      BY RecoveryAssumption DEF Known, Runs, RInv, TypeOK, RunTypeOK
    <2>2. \A p, q \in markedBy[r] : p = q
      BY <2>1 DEF MarkInv
    <2>3. CASE markedBy[r] = {}
      <3>1. Cardinality({}) = 0
        BY FS_EmptySet
      <3> QED
        BY <2>3, <3>1
    <2>4. CASE markedBy[r] # {}
      <3>1. PICK p \in markedBy[r] : TRUE
        BY <2>4
      <3>2. markedBy[r] = {p}
        BY <2>2, <3>1
      <3>3. Cardinality({p}) = 1
        BY FS_Singleton
      <3> QED
        BY <3>2, <3>3
    <2> QED
      BY <2>3, <2>4
  <1> QED
    BY <1>1, <1>2, NextMarkInv, RInvHolds, PTL DEF Spec
-----------------------------------------------------------------------------
(* The results of a resumed run against those of the run it resumes.       *)

\* A run whose results no longer change.
Frozen(r) == Owned(r) /\ (mem[r] = "over" \/ CutOff(r))

OfferInv(r, k) ==
  r \in settled =>
    /\ from[r] \in Known /\ Frozen(from[r])
    /\ fresh[r][k] > 0 => current[r][k] - fresh[r][k] >= current[from[r]][k]
    /\ (mem[r] = "active" /\ ~Gone(runner[r])) =>
          previous[r][k] + current[r][k] - fresh[r][k] >= current[from[r]][k]

CountInv(r, k) ==
  /\ r \notin Known => r \notin settled /\ current[r][k] = 0 /\ fresh[r][k] = 0
  /\ fresh[r][k] <= current[r][k] /\ current[r][k] <= journal[r][k]
  /\ Owned(r) /\ mem[r] = "over" => saved[r] = current[r]

ReuseInv == \A r \in Runs, k \in Keys : CountInv(r, k) /\ OfferInv(r, k)

NewRun(r, k) ==
  /\ r = launched + 1 /\ launched' = r
  /\ current'[r] = current[r] /\ fresh'[r] = fresh[r] /\ journal'[r] = journal[r]
  /\ r \in settled' /\ r \notin settled =>
        from'[r] \in Runs /\ InOrder(from'[r]) /\ previous'[r] = saved[from'[r]]

Taken(r, k) ==
  /\ Live(r) /\ previous[r][k] > 0
  /\ previous'[r][k] = previous[r][k] - 1
  /\ current'[r][k] = current[r][k] + 1 /\ journal'[r][k] = journal[r][k] + 1
  /\ fresh'[r][k] = fresh[r][k]

Made(r, k) ==
  /\ Live(r) /\ previous[r][k] = 0 /\ previous'[r][k] = 0
  /\ current'[r][k] = current[r][k] + 1 /\ journal'[r][k] = journal[r][k] + 1
  /\ fresh'[r][k] = fresh[r][k] + 1

Quiet(r, k) ==
  /\ current'[r][k] = current[r][k] /\ fresh'[r][k] = fresh[r][k]
  /\ journal'[r][k] >= journal[r][k]
  /\ previous'[r][k] = previous[r][k] \/ mem'[r] = "over" \/ Gone(runner[r])'

OldRun(r) == from'[r] = from[r] /\ (r \in settled' => r \in settled)

LEMMA CallKinds ==
  ASSUME TypeOK, [Next]_vars, NEW r \in Runs, NEW k \in Keys
  PROVE  NewRun(r, k) \/ (OldRun(r) /\ (Taken(r, k) \/ Made(r, k) \/ Quiet(r, k)))
  <1>0. /\ current[r][k] \in Nat /\ fresh[r][k] \in Nat
        /\ journal[r][k] \in Nat /\ previous[r][k] \in Nat
    BY DEF TypeOK, BagTypeOK, Bags
  <1>1. ASSUME NEW source \in Runs \cup {Null}, NEW p \in Procs, LaunchEffect(p, source)
        PROVE  NewRun(r, k) \/ (OldRun(r) /\ Quiet(r, k))
    <2>1. CASE r = launched + 1
      BY <1>1, <2>1 DEF LaunchEffect, NewRun, TypeOK, RunTypeOK, BagTypeOK
    <2>2. CASE r # launched + 1
      <3>1. OldRun(r) /\ previous'[r] = previous[r]
        BY <1>1, <2>2 DEF LaunchEffect, OldRun, TypeOK, RunTypeOK, BagTypeOK
      <3>2. UNCHANGED <<current, fresh, journal>>
        BY <1>1 DEF LaunchEffect
      <3> QED
        BY <1>0, <3>1, <3>2 DEF Quiet
    <2> QED
      BY <2>1, <2>2
  <1>2. ASSUME NEW x \in Runs, NEW y \in Keys,
               Reuse(x, y) \/ Compute(x, y) \/ SkipOrFail(x, y)
        PROVE  OldRun(r) /\ (Taken(r, k) \/ Made(r, k) \/ Quiet(r, k))
    <2>1. OldRun(r)
      BY <1>2 DEF Reuse, Compute, SkipOrFail, Settles, OldRun, runVars, history
    <2>2. CASE x = r /\ y = k
      <3>1. ASSUME NEW f \in [Runs -> Bags]
            PROVE  /\ [f EXCEPT ![r][k] = @ + 1][r][k] = f[r][k] + 1
                   /\ [f EXCEPT ![r][k] = @ - 1][r][k] = f[r][k] - 1
        BY DEF Bags
      <3>2. /\ current \in [Runs -> Bags] /\ journal \in [Runs -> Bags]
            /\ fresh \in [Runs -> Bags] /\ previous \in [Runs -> Bags]
        BY DEF TypeOK, BagTypeOK
      <3>3. Reuse(r, k) => Taken(r, k)
        BY <3>1, <3>2 DEF Reuse, Settles, Results, Taken
      <3>4. Compute(r, k) => Made(r, k)
        BY <3>1, <3>2 DEF Compute, Settles, Results, Made
      <3>5. SkipOrFail(r, k) => Quiet(r, k)
        BY <1>0, <3>1, <3>2 DEF SkipOrFail, Quiet
      <3> QED
        BY <1>2, <2>1, <2>2, <3>3, <3>4, <3>5
    <2>3. CASE ~(x = r /\ y = k)
      <3>1. ASSUME NEW f \in [Runs -> Bags]
            PROVE  /\ [f EXCEPT ![x][y] = @ + 1][r][k] = f[r][k]
                   /\ [f EXCEPT ![x][y] = @ - 1][r][k] = f[r][k]
        BY <2>3 DEF Bags
      <3>2. /\ current \in [Runs -> Bags] /\ journal \in [Runs -> Bags]
            /\ fresh \in [Runs -> Bags] /\ previous \in [Runs -> Bags]
        BY DEF TypeOK, BagTypeOK
      <3>3. current'[r][k] = current[r][k] /\ journal'[r][k] = journal[r][k]
        BY <1>2, <3>1, <3>2 DEF Reuse, Compute, SkipOrFail, Results
      <3>4. fresh'[r][k] = fresh[r][k] /\ previous'[r][k] = previous[r][k]
        BY <1>2, <3>1, <3>2 DEF Reuse, Compute, SkipOrFail
      <3> QED
        BY <1>0, <2>1, <3>3, <3>4 DEF Quiet
    <2> QED
      BY <2>2, <2>3
  <1>3. ASSUME NEW x \in Runs, Finish(x) PROVE OldRun(r) /\ Quiet(r, k)
    <2>1. OldRun(r) /\ UNCHANGED <<current, fresh, journal>>
      BY <1>3 DEF Finish, OldRun, runVars, history
    <2>2. previous'[r] = previous[r] \/ mem'[r] = "over"
      BY <1>3 DEF Finish, TypeOK, RunTypeOK, BagTypeOK
    <2> QED
      BY <1>0, <2>1, <2>2 DEF Quiet
  <1>4. ASSUME NEW p \in Procs, Crash(p) PROVE OldRun(r) /\ Quiet(r, k)
    <2>1. OldRun(r) /\ UNCHANGED <<current, fresh, journal>>
      BY <1>4 DEF Crash, OldRun, runVars, history
    <2>2. previous'[r] = previous[r] \/ Gone(runner[r])'
      BY <1>4 DEF Crash, Gone, runVars, TypeOK, BootTypeOK, BagTypeOK
    <2> QED
      BY <1>0, <2>1, <2>2 DEF Quiet
  <1>5. ASSUME UNCHANGED <<from, settled, current, fresh, journal, previous>>
        PROVE  OldRun(r) /\ Quiet(r, k)
    BY <1>0, <1>5 DEF OldRun, Quiet
  <1>6. \/ \E p \in Procs, source \in Runs \cup {Null} : LaunchEffect(p, source)
        \/ \E x \in Runs, y \in Keys : Reuse(x, y) \/ Compute(x, y) \/ SkipOrFail(x, y)
        \/ \E x \in Runs : Finish(x)
        \/ \E p \in Procs : Crash(p)
        \/ UNCHANGED <<from, settled, current, fresh, journal, previous>>
    BY DEF Next, vars, Launch, Resume, AutoResume, RunStep, Save, BootStep, Boot, Reload,
           PassOver, Mark, ReapEnds, PassResume, BootEnds, runVars, callVars, history
  <1> QED
    BY <1>1, <1>2, <1>3, <1>4, <1>5, <1>6

LEMMA FrozenStays ==
  ASSUME RInv, [Next]_vars, NEW r \in Runs, r \in Known, Frozen(r)
  PROVE  r \in Known' /\ Frozen(r)' /\ current'[r] = current[r]
  <1>1. CASE CutOff(r)
    BY <1>1, CutOffStays DEF Frozen, CutOff
  <1>2. CASE mem[r] = "over" /\ ~CutOff(r)
    <2>1. ~Born(r) /\ ~Worked(r)
      BY <1>2 DEF Born, Worked, Live, Known, RInv, TypeOK, RunTypeOK
    <2>2. \A p \in Procs : ~MarkedBy(p, r)
      BY <1>2 DEF MarkedBy, Frozen, RInv, HoldInv
    <2>3. Untouched(r)
      BY <2>1, <2>2, StepKinds DEF RInv
    <2> QED
      BY <1>2, <2>3 DEF Untouched, Frozen, Owned
  <1> QED
    BY <1>1, <1>2 DEF Frozen

\* What a run in order has saved covers every result it returned.
LEMMA SavedCovers ==
  ASSUME RInv, ReuseInv, NEW r \in Runs, InOrder(r), NEW k \in Keys
  PROVE  r \in Known /\ Frozen(r) /\ saved[r][k] >= current[r][k]
  <1>1. r \in Known
    BY DEF InOrder, RInv, KnownInv
  <1>2. CountInv(r, k)
    BY DEF ReuseInv
  <1>3. current[r][k] \in Nat /\ journal[r][k] \in Nat
    BY DEF RInv, TypeOK, BagTypeOK, Bags
  <1>4. CASE disk[r] = "over"
    BY <1>1, <1>2, <1>3, <1>4 DEF InOrder, Frozen, RInv, FileInv, CountInv
  <1>5. CASE disk[r] = "interrupted"
    BY <1>1, <1>2, <1>3, <1>5 DEF InOrder, Frozen, RInv, FileInv, CountInv
  <1> QED
    BY <1>4, <1>5 DEF InOrder

LEMMA NextCountInv ==
  ASSUME RInv, ReuseInv, [Next]_vars, NEW r \in Runs, NEW k \in Keys
  PROVE  CountInv(r, k)'
  <1>0. /\ current[r][k] \in Nat /\ fresh[r][k] \in Nat /\ journal[r][k] \in Nat
        /\ current'[r][k] \in Nat /\ fresh'[r][k] \in Nat /\ journal'[r][k] \in Nat
    BY NextTypeOK DEF RInv, TypeOK, BagTypeOK, Bags
  <1>1. CountInv(r, k)
    BY DEF ReuseInv
  <1>2. fresh'[r][k] <= current'[r][k] /\ current'[r][k] <= journal'[r][k]
    BY <1>0, <1>1, CallKinds DEF CountInv, NewRun, Taken, Made, Quiet, RInv
  <1>3. r \notin Known' => r \notin settled' /\ current'[r][k] = 0 /\ fresh'[r][k] = 0
    <2>1. NewRun(r, k) => r \in Known'
      BY DEF NewRun, Known, RInv, TypeOK, RunTypeOK
    <2>2. r \in Known => r \in Known'
      BY StepKinds DEF Born, Worked, Untouched, MarkedBy, Kept, Known, RInv, TypeOK, RunTypeOK
    <2>3. Live(r) => r \in Known
      BY DEF Live, RInv, KnownInv
    <2> QED
      BY <1>1, <2>1, <2>2, <2>3, CallKinds DEF CountInv, OldRun, Taken, Made, Quiet, RInv
  <1>4. ASSUME Owned(r)', mem'[r] = "over" PROVE saved'[r] = current'[r]
    <2>1. CASE Born(r)
      BY <1>4, <2>1 DEF Born
    <2>2. CASE Worked(r)
      BY <1>4, <2>2 DEF Worked, Live
    <2>3. CASE Untouched(r)
      BY <1>1, <1>4, <2>3 DEF Untouched, CountInv, Owned
    <2>4. ASSUME NEW p \in Procs, MarkedBy(p, r) PROVE FALSE
      BY <1>4, <2>4 DEF MarkedBy, Kept, Owned, RInv, HoldInv, CutOff
    <2> QED
      BY <2>1, <2>2, <2>3, <2>4, StepKinds DEF RInv
  <1> QED
    BY <1>2, <1>3, <1>4 DEF CountInv

LEMMA NextOfferInv ==
  ASSUME RInv, ReuseInv, [Next]_vars, NEW r \in Runs, NEW k \in Keys
  PROVE  OfferInv(r, k)'
  <1> SUFFICES ASSUME r \in settled'
               PROVE  /\ from'[r] \in Known' /\ Frozen(from[r])'
                      /\ fresh'[r][k] > 0 =>
                            current'[r][k] - fresh'[r][k] >= current'[from'[r]][k]
                      /\ (mem'[r] = "active" /\ ~Gone(runner[r])') =>
                            previous'[r][k] + current'[r][k] - fresh'[r][k]
                              >= current'[from'[r]][k]
    BY DEF OfferInv
  <1>0. /\ current[r][k] \in Nat /\ fresh[r][k] \in Nat /\ previous[r][k] \in Nat
        /\ CountInv(r, k) /\ OfferInv(r, k)
    BY DEF ReuseInv, RInv, TypeOK, BagTypeOK, Bags
  <1>1. CASE NewRun(r, k)
    <2>1. r \notin Known
      BY <1>1 DEF NewRun, Known, RInv, TypeOK, RunTypeOK
    <2>2. r \notin settled /\ current'[r][k] = 0 /\ fresh'[r][k] = 0
      BY <1>0, <1>1, <2>1 DEF CountInv, NewRun
    <2> DEFINE s == from'[r]
    <2>3. s \in Runs /\ InOrder(s) /\ previous'[r][k] = saved[s][k]
      BY <1>1, <2>2 DEF NewRun
    <2>4. s \in Known /\ Frozen(s) /\ saved[s][k] >= current[s][k]
      BY <2>3, SavedCovers
    <2>5. ASSUME NEW x, x = s
          PROVE  x \in Known' /\ Frozen(x)' /\ current'[x] = current[x]
      BY <2>3, <2>4, <2>5, FrozenStays
    <2>6. saved[s][k] \in Nat /\ current[s][k] \in Nat
      BY <2>3 DEF RInv, TypeOK, BagTypeOK, Bags
    <2> QED
      BY <2>2, <2>3, <2>4, <2>5, <2>6 DEF Frozen, Owned, CutOff, Gone
  <1>2. CASE OldRun(r) /\ (Taken(r, k) \/ Made(r, k) \/ Quiet(r, k))
    <2>1. r \in settled /\ from'[r] = from[r]
      BY <1>2 DEF OldRun
    <2>2. r \in Known /\ from[r] \in Known /\ Frozen(from[r])
      BY <1>0, <2>1 DEF CountInv, OfferInv
    <2>3. from[r] \in Runs /\ current[from[r]][k] \in Nat
      <3>1. launched \in 0..MaxRuns /\ current \in [Runs -> Bags]
        BY DEF RInv, TypeOK, RunTypeOK, BagTypeOK
      <3>2. from[r] \in Runs
        BY <2>2, <3>1, RecoveryAssumption DEF Known, Runs
      <3> QED
        BY <3>1, <3>2 DEF Bags
    <2>4. from[r] \in Known' /\ Frozen(from[r])' /\ current'[from[r]] = current[from[r]]
      <3>1. ASSUME NEW x \in Runs, x = from[r]
            PROVE  x \in Known' /\ Frozen(x)' /\ current'[x] = current[x]
        BY <2>2, <3>1, FrozenStays
      <3> QED
        BY <2>1, <2>3, <3>1 DEF Frozen, Owned, CutOff, Gone
    <2>5. (mem'[r] = "active" /\ ~Gone(runner[r])') => mem[r] = "active" /\ ~Gone(runner[r])
      <3>1. ~Born(r)
        BY <2>2 DEF Born, Known, RInv, TypeOK, RunTypeOK
      <3>2. runner'[r] = runner[r] /\ (mem'[r] = "active" => mem[r] = "active")
        BY <3>1, StepKinds DEF Worked, Untouched, MarkedBy, Kept, RInv
      <3> QED
        BY <3>2, ProcKinds DEF Gone, RInv
    <2>6. Live(r) => mem[r] = "active" /\ ~Gone(runner[r])
      BY DEF Live, Gone, Up
    <2>7. CASE Taken(r, k)
      BY <1>0, <2>1, <2>3, <2>4, <2>6, <2>7 DEF Taken, OfferInv, CountInv
    <2>8. CASE Made(r, k)
      BY <1>0, <2>1, <2>3, <2>4, <2>6, <2>8 DEF Made, OfferInv, CountInv
    <2>9. CASE Quiet(r, k)
      BY <1>0, <2>1, <2>3, <2>4, <2>5, <2>9 DEF Quiet, OfferInv, CountInv
    <2> QED
      BY <1>2, <2>7, <2>8, <2>9
  <1> QED
    BY <1>1, <1>2, CallKinds DEF RInv

\* A run that resumes a finished or reaped run computes a call only when the results of
\* that run are used up (ResumeCache.get, engine/api.py).
THEOREM ResumesReuse == Spec => []ResumeReusesResults
  <1>1. Init => ReuseInv
    BY RecoveryAssumption
    DEF Init, ReuseInv, CountInv, OfferInv, EmptyBag, Owned
  <1>2. RInv /\ ReuseInv /\ [Next]_vars => ReuseInv'
    BY NextCountInv, NextOfferInv DEF ReuseInv
  <1>3. RInv /\ ReuseInv => ResumeReusesResults
    BY DEF RInv, TypeOK, HistoryTypeOK, ReuseInv, OfferInv, ResumeReusesResults
  <1> QED
    BY <1>1, <1>2, <1>3, RInvHolds, PTL DEF Spec
=============================================================================
