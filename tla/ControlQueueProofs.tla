-------------------------- MODULE ControlQueueProofs --------------------------
(***************************************************************************)
(* Proofs about ControlQueue: what dashboards are told is true, for any     *)
(* number of dashboards, requests and faults.                              *)
(***************************************************************************)
EXTENDS ControlQueue, TLAPS

\* Where the listener is, against its listing and the files.
PlaceInv ==
  /\ Queued \subseteq named /\ batch \subseteq Queued
  /\ at \in {"idle", "reading"} => on = NoRequest /\ ~acted
  /\ at \notin {"idle", "reading"} => on \in batch
  /\ at \in {"checking", "acting", "restarting"} => ~acted
  /\ at \in {"replying", "removing"} => reply \in {"yes", "no"}
  /\ \A c \in Clients : waiting[c] = NoRequest => response[c] = "none"
  /\ \A c \in Clients : waiting[c] \in named \cup {NoRequest}

Unanswered(q) ==
  /\ told[q] = "none"
  /\ \A c \in Clients : waiting[c] = q => response[c] = "none"

\* An answer that tells what the request has done.
True(q, answer) ==
  /\ answer = "yes" => effects[q] = 1
  /\ (answer = "no" /\ q \notin halfway) => effects[q] = 0

\* What a request has done and what is said of it, at each place of its way.
RequestInv(q) ==
  /\ effects[q] <= 1
  /\ (on # q /\ (q \notin named \/ q \in Queued)) => Unanswered(q) /\ effects[q] = 0
  /\ (on = q /\ at # "removing") => Unanswered(q)
  /\ (on = q /\ at \in {"checking", "acting", "restarting"}) => effects[q] = 0
  /\ (on = q /\ at \in {"joining", "launching"}) => effects[q] = IF acted THEN 1 ELSE 0
  /\ (on = q /\ at \in {"replying", "removing"}) => True(q, reply)
  /\ True(q, told[q])
  /\ \A c \in Clients : waiting[c] = q => True(q, response[c])

QInv == ControlTypeOK /\ PlaceInv /\ \A q \in Requests \ faulty : RequestInv(q)
-----------------------------------------------------------------------------
LEMMA NotARequest == NoRequest \notin Requests /\ NoFile \notin Orders
  BY ControlAssumption DEF NoFile, Orders, Actions

LEMMA ControlInitKeeps == ControlInit => QInv
<1> SUFFICES ASSUME ControlInit PROVE QInv
  OBVIOUS
<1> USE NotARequest, ControlAssumption DEF ControlInit
<1>1. ControlTypeOK
  <2>1. QueueTypeOK
    BY DEF QueueTypeOK, Answers
  <2>2. ListenerTypeOK
    <3>1. effects \in [Requests -> Nat] /\ faults \in 0..MaxFaults
      OBVIOUS
    <3>2. copy \in RunStatuses
      BY DEF RunStatuses, ActiveStatuses
    <3> QED
      BY <3>1, <3>2 DEF ListenerTypeOK, Places, Answers
  <2>3. status \in RunStatuses /\ phase = "waiting"
    BY DEF RunInit, RunStatuses, ActiveStatuses
  <2> QED
    BY <2>1, <2>2, <2>3 DEF ControlTypeOK
<1>2. PlaceInv
  BY DEF PlaceInv, Queued
<1>3. ASSUME NEW q \in Requests PROVE RequestInv(q)
  BY <1>3 DEF RequestInv, Unanswered, True, Queued
<1> QED
  BY <1>1, <1>2, <1>3 DEF QInv
-----------------------------------------------------------------------------
(* Types.                                                                  *)

LEMMA RunTyped ==
  ASSUME status \in RunStatuses, phase \in {"waiting", "executing", "ended"},
         RunNext \/ UNCHANGED runVars
  PROVE  status' \in RunStatuses /\ phase' \in {"waiting", "executing", "ended"}
  BY DEF RunNext, ThreadRun, OperateRun, BeginRun, EndRun, StopRun, PauseRun, ResumeRun, runVars,
         RunStatuses, ActiveStatuses

LEMMA RunOnlyMoves == ControlNext => RunNext \/ UNCHANGED runVars
<1> USE DEF RunNext, OperateRun
<1>1. ASSUME RunMoves \/ ClientStep \/ \E q \in Requests : Expire(q)
      PROVE  RunNext \/ UNCHANGED runVars
  BY <1>1 DEF RunMoves, ClientStep, Send, Collect, GiveUp, Expire
<1>2. ASSUME ListenerStep PROVE RunNext \/ UNCHANGED runVars
  BY <1>2 DEF ListenerStep, List, Check, Act, ActRefused, RestartPath, ActRestart, RestartStop,
              Join, LaunchNew, Respond, Remove, Take, Operation
<1> QED
  BY <1>1, <1>2 DEF ControlNext

LEMMA QueueTyped == ASSUME QInv, ControlNext PROVE QueueTypeOK'
<1>1. QueueTypeOK /\ status \in RunStatuses /\ PlaceInv /\ on \in Requests \cup {NoRequest}
      /\ reply \in Answers
  BY DEF QInv, ControlTypeOK, ListenerTypeOK
<1>2. CASE UNCHANGED <<clientVars, queueVars>>
  BY <1>1, <1>2 DEF QueueTypeOK, clientVars, queueVars
<1>3. ASSUME NEW c \in Clients, NEW q \in Requests, Send(c, q) PROVE QueueTypeOK'
  <2>1. \A a \in KeyActions(status) :
          [action |-> a, expected |-> status, old |-> FALSE] \in Orders
    BY <1>1 DEF KeyActions, Orders, Actions
  <2> QED
    BY <1>1, <1>3, <2>1 DEF Send, QueueTypeOK, queueVars, clientVars
<1>4. ASSUME NEW c \in Clients, Collect(c) PROVE QueueTypeOK'
  BY <1>1, <1>4 DEF Collect, Return, QueueTypeOK, Answers
<1>5. ASSUME NEW c \in Clients, GiveUp(c) PROVE QueueTypeOK'
  BY <1>1, <1>5 DEF GiveUp, Return, QueueTypeOK, queueVars
<1>6. ASSUME NEW q \in Requests, Expire(q) PROVE QueueTypeOK'
  <2>1. file[q] \in Orders
    BY <1>1, <1>6 DEF Expire, Queued, QueueTypeOK
  <2>2. [file[q] EXCEPT !.old = TRUE] \in Orders
    BY <2>1 DEF Orders
  <2>3. file' = [file EXCEPT ![q] = [file[q] EXCEPT !.old = TRUE]]
    BY <1>6 DEF Expire
  <2> QED
    BY <1>1, <1>6, <2>2, <2>3 DEF Expire, QueueTypeOK, clientVars
<1>7. CASE Respond
  BY <1>1, <1>7 DEF Respond, WriteResponse, QueueTypeOK, clientVars, Answers
<1>8. CASE Remove
  BY <1>1, <1>8 DEF Remove, QueueTypeOK, clientVars
<1> QED
  BY <1>2, <1>3, <1>4, <1>5, <1>6, <1>7, <1>8
  DEF ControlNext, ClientStep, RunMoves, ListenerStep, List, Check, Act, ActRefused, RestartPath,
      ActRestart, RestartStop, Join, LaunchNew, Take

LEMMA ListenerTyped == ASSUME QInv, ControlNext PROVE ListenerTypeOK'
<1>1. ListenerTypeOK /\ PlaceInv /\ status \in RunStatuses
  BY DEF QInv, ControlTypeOK
<1> USE ControlAssumption DEF ListenerTypeOK, Places, Answers
<1>2. CASE RunMoves \/ ClientStep \/ \E q \in Requests : Expire(q)
  BY <1>1, <1>2 DEF RunMoves, ClientStep, Send, Collect, GiveUp, Expire, listenerVars, ghostVars,
                    faultVars
<1>3. CASE List
  BY <1>1, <1>3 DEF List, ghostVars, faultVars, Queued
<1>4. ASSUME NEW q \in Requests, Take(q) PROVE ListenerTypeOK'
  BY <1>1, <1>4 DEF Take, ghostVars, faultVars
<1>5. CASE Check \/ ActRefused \/ ActRestart
  BY <1>1, <1>5 DEF Check, ActRefused, ActRestart, ghostVars, faultVars
<1>6. CASE Act \/ RestartStop
  <2>1. on \in Requests
    BY <1>1, <1>6 DEF Act, RestartStop, PlaceInv
  <2>2. effects' \in [Requests -> Nat]
    BY <1>1, <1>6, <2>1 DEF Act, RestartStop, Count
  <2> QED
    BY <1>1, <1>6, <2>2 DEF Act, RestartStop, faultVars
<1>7. CASE Join
  <2>1. halfway' \subseteq Requests
    BY <1>1, <1>7 DEF Join, FailRestart, PlaceInv
  <2> QED
    BY <1>1, <1>7, <2>1 DEF Join, FailRestart, faultVars
<1>8. CASE LaunchNew
  <2>1. halfway' \subseteq Requests
    BY <1>1, <1>8 DEF LaunchNew, FailRestart, PlaceInv
  <2>2. effects' \in [Requests -> Nat]
    BY <1>1, <1>8 DEF LaunchNew, Count
  <2> QED
    BY <1>1, <1>8, <2>1, <2>2 DEF LaunchNew, FailRestart, faultVars
<1>9. CASE Respond \/ Remove
  <2>0. on \in Requests
    BY <1>1, <1>9 DEF Respond, Remove, PlaceInv
  <2>1. faulty' \subseteq Requests /\ faults' \in 0..MaxFaults
    <3>1. Fault \/ UNCHANGED faultVars
      BY <1>9 DEF Respond, Remove
    <3>2. CASE UNCHANGED faultVars
      BY <1>1, <3>2 DEF faultVars
    <3>3. CASE Fault
      BY <1>1, <2>0, <3>3 DEF Fault
    <3> QED
      BY <3>1, <3>2, <3>3
  <2>2. at' \in Places /\ batch' \subseteq Requests /\ UNCHANGED ghostVars
    BY <1>1, <1>9 DEF Respond, Remove, NextInBatch
  <2>3. /\ on' \in Requests \cup {NoRequest} /\ copy' \in RunStatuses /\ reply' \in Answers
        /\ acted' \in BOOLEAN
    BY <1>1, <1>9 DEF Respond, Remove, NextInBatch, Forget, RunStatuses, ActiveStatuses
  <2> QED
    BY <1>1, <2>1, <2>2, <2>3 DEF ghostVars
<1> QED
  BY <1>2, <1>3, <1>4, <1>5, <1>6, <1>7, <1>8, <1>9 DEF ControlNext, ListenerStep, RestartPath

LEMMA ControlTyped == ASSUME QInv, ControlNext PROVE ControlTypeOK'
  BY RunTyped, RunOnlyMoves, QueueTyped, ListenerTyped DEF QInv, ControlTypeOK
-----------------------------------------------------------------------------
(* Places.                                                                 *)

LEMMA PlacesKept == ASSUME QInv, ControlNext PROVE PlaceInv'
<1>1. PlaceInv /\ QueueTypeOK /\ ListenerTypeOK
  BY DEF QInv, ControlTypeOK
<1> USE NotARequest DEF PlaceInv, QueueTypeOK
<1>2. CASE RunMoves
  BY <1>1, <1>2 DEF RunMoves, clientVars, listenerVars, queueVars, Queued
<1>3. ASSUME NEW c \in Clients, NEW q \in Requests, Send(c, q) PROVE PlaceInv'
  <2>1. Queued' = Queued \cup {q} /\ Queued \subseteq Queued'
    <3>1. \A a : [action |-> a, expected |-> status, old |-> FALSE].action = a
      OBVIOUS
    <3>2. file'[q].action \in Actions /\ \A r \in Requests \ {q} : file'[r] = file[r]
      BY <1>1, <1>3 DEF Send, KeyActions, Actions
    <3>3. file'[q] # NoFile
      BY <3>2 DEF NoFile, Actions
    <3> QED
      BY <3>2, <3>3 DEF Queued
  <2> QED
    BY <1>1, <1>3, <2>1 DEF Send, Idle, listenerVars
<1>4. ASSUME NEW c \in Clients, Collect(c) PROVE PlaceInv'
  BY <1>1, <1>4 DEF Collect, Return, listenerVars, Queued
<1>5. ASSUME NEW c \in Clients, GiveUp(c) PROVE PlaceInv'
  BY <1>1, <1>5 DEF GiveUp, Return, listenerVars, queueVars, Queued
<1>6. ASSUME NEW q \in Requests, Expire(q) PROVE PlaceInv'
  <2>1. file'[q].old = TRUE /\ \A r \in Requests \ {q} : file'[r] = file[r]
    BY <1>1, <1>6, Zenon DEF Expire, Queued, Orders
  <2>2. Queued' = Queued
    BY <1>6, <2>1 DEF Expire, Queued, NoFile
  <2> QED
    BY <1>1, <1>6, <2>2 DEF Expire, listenerVars, clientVars
<1>7. CASE List
  BY <1>1, <1>7 DEF List, clientVars, queueVars, Queued
<1>8. ASSUME NEW q \in Requests, Take(q) PROVE PlaceInv'
  BY <1>1, <1>8 DEF Take, First, clientVars, queueVars, Queued
<1>9. CASE Check \/ ActRefused \/ ActRestart
  BY <1>1, <1>9 DEF Check, ActRefused, ActRestart, clientVars, queueVars, Queued
<1>10. CASE Act \/ RestartStop
  BY <1>1, <1>10 DEF Act, RestartStop, clientVars, queueVars, Queued
<1>11. CASE Join \/ LaunchNew
  BY <1>1, <1>11 DEF Join, LaunchNew, FailRestart, clientVars, queueVars, Queued
<1>12. CASE Respond
  BY <1>1, <1>12 DEF Respond, WriteResponse, Forget, clientVars, Queued
<1>13. CASE Remove
  <2>1. Queued' \subseteq Queued /\ Queued \ {on} \subseteq Queued'
    BY <1>1, <1>13 DEF Remove, Queued
  <2> QED
    BY <1>1, <1>13, <2>1 DEF Remove, NextInBatch, Forget, clientVars
<1> QED
  BY <1>2, <1>3, <1>4, <1>5, <1>6, <1>7, <1>8, <1>9, <1>10, <1>11, <1>12, <1>13
  DEF ControlNext, ClientStep, ListenerStep, RestartPath
-----------------------------------------------------------------------------
(* Requests.                                                               *)

\* Only a fault makes a request faulty.
LEMMA FaultyGrows == ASSUME QInv, ControlNext PROVE faulty \subseteq faulty'
<1>1. CASE RunMoves \/ ClientStep \/ \E q \in Requests : Expire(q)
  BY <1>1 DEF RunMoves, ClientStep, Send, Collect, GiveUp, Expire, faultVars
<1>2. CASE ListenerStep
  BY <1>2 DEF ListenerStep, List, Check, Act, ActRefused, RestartPath, ActRestart, RestartStop,
              Join, LaunchNew, Respond, Remove, Take, Fault, faultVars
<1> QED
  BY <1>1, <1>2 DEF ControlNext

LEMMA RequestKept ==
  ASSUME QInv, ControlNext, NEW q \in Requests \ faulty' PROVE RequestInv(q)'
<1>1. /\ PlaceInv /\ QueueTypeOK /\ ListenerTypeOK /\ RequestInv(q)
      /\ PlaceInv' /\ QueueTypeOK'
  BY FaultyGrows, PlacesKept, QueueTyped DEF QInv, ControlTypeOK
<1>0. on \in Requests \cup {NoRequest} /\ effects \in [Requests -> Nat] /\ q # NoRequest
  BY <1>1, NotARequest DEF ListenerTypeOK
<1> USE NotARequest DEF RequestInv, Unanswered, True
<1>2. CASE RunMoves
  BY <1>1, <1>2 DEF RunMoves, clientVars, listenerVars, queueVars, ghostVars, Queued
<1>3. ASSUME NEW c \in Clients, NEW r \in Requests, Send(c, r) PROVE RequestInv(q)'
  <2>1. /\ UNCHANGED <<told, response, effects, halfway, on, at, acted, reply>>
        /\ named' = named \cup {r} /\ r \notin named
        /\ waiting' = [waiting EXCEPT ![c] = r]
        /\ q # r => (q \in Queued' <=> q \in Queued)
    BY <1>1, <1>3 DEF Send, listenerVars, ghostVars, Queued, QueueTypeOK
  <2>2. response[c] = "none"
    BY <1>1, <1>3 DEF Send, Idle, PlaceInv
  <2>3. q = r => on # q
    BY <1>1, <2>1 DEF PlaceInv
  <2> QED
    BY <1>1, <2>1, <2>2, <2>3 DEF QueueTypeOK
<1>4. ASSUME NEW c \in Clients, Collect(c) PROVE RequestInv(q)'
  <2>1. waiting[c] \in Requests /\ waiting[c] \in named
    BY <1>1, <1>4 DEF Collect, PlaceInv, QueueTypeOK
  <2>2. /\ UNCHANGED <<named, file, effects, halfway, on, at, acted, reply>>
        /\ told' = [told EXCEPT ![waiting[c]] = response[c]]
        /\ response' = [response EXCEPT ![c] = "none"]
        /\ waiting' = [waiting EXCEPT ![c] = NoRequest]
        /\ response[c] # "none"
    BY <1>4 DEF Collect, Return, listenerVars, ghostVars
  <2>3. Queued' = Queued
    BY <2>2 DEF Queued
  <2> QED
    BY <1>1, <2>1, <2>2, <2>3 DEF QueueTypeOK
<1>5. ASSUME NEW c \in Clients, GiveUp(c) PROVE RequestInv(q)'
  BY <1>1, <1>5 DEF GiveUp, Return, listenerVars, queueVars, ghostVars, Queued, QueueTypeOK
<1>6. ASSUME NEW r \in Requests, Expire(r) PROVE RequestInv(q)'
  <2>1. /\ UNCHANGED <<named, response, told, waiting, effects, halfway, on, at, acted, reply>>
        /\ \A p \in Requests \ {r} : file'[p] = file[p]
        /\ r \in Queued
    BY <1>1, <1>6 DEF Expire, listenerVars, ghostVars, clientVars, QueueTypeOK
  <2>2. q \in Queued' => q \in Queued
    BY <2>1 DEF Queued
  <2> QED
    BY <1>1, <2>1, <2>2
<1>7. CASE List
  BY <1>1, <1>7 DEF List, clientVars, queueVars, ghostVars, Queued, PlaceInv
<1>8. ASSUME NEW r \in Requests, Take(r) PROVE RequestInv(q)'
  <2>1. /\ UNCHANGED <<named, file, response, told, waiting, effects, halfway, acted>>
        /\ at = "reading" /\ on' = r /\ r \in Queued
        /\ (at' = "replying" /\ reply' = "no") \/ at' = "checking"
    BY <1>1, <1>8 DEF Take, First, clientVars, queueVars, ghostVars, PlaceInv
  <2>2. on = NoRequest /\ Queued' = Queued
    BY <1>1, <2>1 DEF PlaceInv, Queued
  <2> QED
    BY <1>1, <1>0, <2>1, <2>2
<1>9. CASE Check \/ ActRefused \/ ActRestart
  <2>1. /\ UNCHANGED <<named, file, response, told, waiting, effects, halfway, on, acted>>
        /\ at \in {"checking", "acting"}
        /\ (at' = "replying" /\ reply' = "no") \/ at' \in {"acting", "launching", "restarting"}
    BY <1>9 DEF Check, ActRefused, ActRestart, clientVars, queueVars, ghostVars
  <2>2. ~acted /\ Queued' = Queued
    BY <1>1, <2>1 DEF PlaceInv, Queued
  <2> QED
    BY <1>1, <1>0, <2>1, <2>2
<1>10. CASE Act \/ RestartStop
  <2>1. /\ UNCHANGED <<named, file, response, told, waiting, halfway, on>>
        /\ at \in {"acting", "restarting"}
        /\ \/ at' = "replying" /\ reply' = "yes" /\ acted' /\ Count
           \/ at' = "joining" /\ acted' /\ Count
           \/ at' = "joining" /\ UNCHANGED <<acted, effects>>
    BY <1>10 DEF Act, RestartStop, clientVars, queueVars
  <2>2. ~acted /\ Queued' = Queued /\ on \in Requests
    BY <1>1, <2>1 DEF PlaceInv, Queued, ListenerTypeOK
  <2>3. \/ UNCHANGED effects
        \/ effects' = [effects EXCEPT ![on] = @ + 1]
    BY <2>1, <2>2 DEF Count
  <2>4. q # on => effects'[q] = effects[q]
    BY <1>0, <2>2, <2>3
  <2>5. q = on => effects[q] = 0 /\ (Count => effects'[q] = 1)
    BY <1>0, <1>1, <2>1, <2>2 DEF Count
  <2> QED
    BY <1>1, <1>0, <2>1, <2>2, <2>4, <2>5
<1>11. CASE Join \/ LaunchNew
  <2>1. /\ UNCHANGED <<named, file, response, told, waiting, on>>
        /\ at \in {"joining", "launching"}
        /\ \/ at' = "launching" /\ UNCHANGED <<effects, halfway, acted>>
           \/ at' = "replying" /\ FailRestart /\ UNCHANGED <<effects, acted>>
           \/ at' = "replying" /\ reply' = "yes" /\ acted' /\ Count /\ UNCHANGED halfway
    BY <1>11 DEF Join, LaunchNew, clientVars, queueVars
  <2>2. Queued' = Queued /\ on \in Requests
    BY <1>1, <2>1 DEF PlaceInv, Queued, ListenerTypeOK
  <2>3. q # on => effects'[q] = effects[q] /\ (q \in halfway <=> q \in halfway')
    BY <1>0, <2>1, <2>2 DEF FailRestart, Count
  <2>4. q = on => (Count => effects'[q] = 1)
    BY <1>0, <1>1, <2>1, <2>2 DEF Count
  <2>5. q # on => RequestInv(q)'
    BY <1>1, <2>1, <2>2, <2>3
  <2>6. q = on => RequestInv(q)'
    BY <1>1, <1>0, <2>1, <2>2, <2>4 DEF FailRestart, ListenerTypeOK
  <2> QED
    BY <2>5, <2>6
<1>12. CASE Respond
  <2>1. /\ UNCHANGED <<named, file, told, waiting, effects, halfway>>
        /\ at = "replying"
        /\ \/ /\ WriteResponse /\ at' = "removing" /\ UNCHANGED <<on, reply, acted>>
           \/ on \in faulty' /\ at' = "idle" /\ on' = NoRequest /\ UNCHANGED response
    BY <1>12 DEF Respond, Forget, Fault, clientVars, ghostVars
  <2>2. Queued' = Queued /\ on \in Requests
    BY <1>1, <2>1 DEF PlaceInv, Queued, ListenerTypeOK
  <2>3. CASE WriteResponse /\ at' = "removing" /\ UNCHANGED <<on, reply, acted>>
    BY <1>1, <2>1, <2>2, <2>3 DEF WriteResponse, QueueTypeOK
  <2>4. CASE on \in faulty' /\ at' = "idle" /\ on' = NoRequest /\ UNCHANGED response
    BY <1>1, <1>0, <2>1, <2>2, <2>4
  <2> QED
    BY <2>1, <2>3, <2>4
<1>13. CASE Remove
  <2>1. /\ UNCHANGED <<named, response, told, waiting, effects, halfway>>
        /\ at = "removing" /\ at' \in {"idle", "reading"} /\ on' = NoRequest
        /\ \/ file' = [file EXCEPT ![on] = NoFile]
           \/ on \in faulty' /\ UNCHANGED file
    BY <1>13 DEF Remove, NextInBatch, Forget, Fault, clientVars, ghostVars
  <2>2. on \in Requests /\ on \in named
    BY <1>1, <2>1 DEF PlaceInv, Queued
  <2>3. /\ q # on => (q \in Queued' <=> q \in Queued)
        /\ q = on => q \notin Queued'
    BY <1>1, <2>1, <2>2 DEF Queued, QueueTypeOK
  <2> QED
    BY <1>1, <1>0, <2>1, <2>2, <2>3
<1> QED
  BY <1>2, <1>3, <1>4, <1>5, <1>6, <1>7, <1>8, <1>9, <1>10, <1>11, <1>12, <1>13
  DEF ControlNext, ClientStep, ListenerStep, RestartPath
-----------------------------------------------------------------------------
LEMMA ControlStepKeeps == QInv /\ [ControlNext]_controlVars => QInv'
<1> SUFFICES ASSUME QInv, [ControlNext]_controlVars PROVE QInv'
  OBVIOUS
<1>1. CASE ControlNext
  BY <1>1, ControlTyped, PlacesKept, RequestKept DEF QInv
<1>2. CASE UNCHANGED controlVars
  <2>1. ControlTypeOK'
    BY <1>2 DEF QInv, ControlTypeOK, QueueTypeOK, ListenerTypeOK, controlVars, runVars, clientVars,
                listenerVars, queueVars, ghostVars, faultVars
  <2>2. PlaceInv'
    BY <1>2 DEF QInv, PlaceInv, Queued, controlVars, clientVars, listenerVars, queueVars
  <2>3. ASSUME NEW q \in Requests \ faulty' PROVE RequestInv(q)'
    BY <1>2, <2>3 DEF QInv, RequestInv, Unanswered, True, Queued, controlVars, clientVars,
                      listenerVars, queueVars, ghostVars, faultVars
  <2> QED
    BY <2>1, <2>2, <2>3 DEF QInv
<1> QED
  BY <1>1, <1>2

\* Every reachable state of dashboards, files and listener has the declared types.
THEOREM ControlTypeCorrect == ControlSpec => []ControlTypeOK
<1>1. QInv => ControlTypeOK
  BY DEF QInv
<1> QED
  BY <1>1, ControlInitKeeps, ControlStepKeeps, PTL DEF ControlSpec

\* However many dashboards send requests, and however they expire, wait behind each other
\* and race with the run: what a dashboard was told of its request is what the request has
\* done, and that was done once at most.
THEOREM AnswersTrue == ControlSpec => []AnswersAreTrue
<1>1. QInv => AnswersAreTrue
  BY DEF QInv, AnswersAreTrue, RequestInv, True
<1> QED
  BY <1>1, ControlInitKeeps, ControlStepKeeps, PTL DEF ControlSpec
-----------------------------------------------------------------------------
(* What an action takes effect on.                                         *)

\* The handler goes on with a request only in the status its sender saw.
SeenInv ==
  at \in {"acting", "restarting", "joining", "launching"} => copy = file[on].expected

LEMMA ExpectationStays ==
  ASSUME QInv, ControlNext, on' = on, at \notin {"idle", "reading", "removing"}
  PROVE  file'[on].expected = file[on].expected
<1>1. /\ QueueTypeOK /\ on \in Requests /\ file[on] \in Orders /\ on \in named
  BY DEF QInv, ControlTypeOK, QueueTypeOK, ListenerTypeOK, PlaceInv, Queued
<1>2. CASE UNCHANGED file
  BY <1>2
<1>3. ASSUME NEW c \in Clients, NEW q \in Requests, Send(c, q)
      PROVE  file'[on].expected = file[on].expected
  BY <1>1, <1>3 DEF Send, QueueTypeOK
<1>4. ASSUME NEW q \in Requests, Expire(q) PROVE file'[on].expected = file[on].expected
  <2>1. CASE q # on
    BY <1>1, <1>4, <2>1 DEF Expire, QueueTypeOK
  <2>2. CASE q = on
    BY <1>1, <1>4, <2>2, Zenon DEF Expire, QueueTypeOK, Orders
  <2> QED
    BY <2>1, <2>2
<1> QED
  BY <1>2, <1>3, <1>4
  DEF ControlNext, ClientStep, RunMoves, ListenerStep, List, Check, Act, ActRefused, RestartPath,
      ActRestart, RestartStop, Join, LaunchNew, Take, Respond, Remove, Collect, GiveUp, queueVars

LEMMA SeenKept == ASSUME QInv, SeenInv, ControlNext PROVE SeenInv'
<1> SUFFICES ASSUME at' \in {"acting", "restarting", "joining", "launching"}
             PROVE  copy' = file'[on'].expected
  BY DEF SeenInv
<1>1. CASE Check
  BY <1>1 DEF Check, queueVars
<1>2. CASE ~Check
  <2>1. /\ UNCHANGED <<on, copy>>
        /\ at \in {"acting", "restarting", "joining", "launching"}
    BY <1>2 DEF ControlNext, ClientStep, RunMoves, ListenerStep, List, Act, ActRefused, RestartPath,
                ActRestart, RestartStop, Join, LaunchNew, Take, Respond, Remove, NextInBatch, Send,
                Collect, GiveUp, Expire, listenerVars
  <2> QED
    BY <2>1, ExpectationStays DEF SeenInv
<1> QED
  BY <1>1, <1>2

LEMMA EffectsAreOfTheHandled ==
  ASSUME QInv, SeenInv, ControlNext, NEW q \in Requests, effects'[q] # effects[q], status = copy
  PROVE  status = file[q].expected
<1>1. effects \in [Requests -> Nat]
  BY DEF QInv, ControlTypeOK, ListenerTypeOK
<1>2. Act \/ RestartStop \/ LaunchNew
  BY DEF ControlNext, ClientStep, RunMoves, ListenerStep, List, Check, ActRefused, RestartPath,
         ActRestart, Join, Take, Respond, Remove, Send, Collect, GiveUp, Expire, ghostVars
<1>3. effects' = effects \/ Count
  BY <1>2 DEF Act, RestartStop, LaunchNew
<1>4. q = on
  BY <1>1, <1>3 DEF Count
<1> QED
  BY <1>2, <1>4 DEF SeenInv, Act, RestartStop, LaunchNew

\* However long a request has waited: its action takes effect on a run only in the status
\* that its sender saw, unless the run has moved since the handler copied the status.
THEOREM ActsOnlyOnWhatWasSeen == ControlSpec => ActsOnWhatWasSeen
<1> DEFINE SInv == QInv /\ SeenInv
<1>1. ControlInit => SInv
  BY ControlInitKeeps DEF ControlInit, SeenInv
<1>2. SInv /\ [ControlNext]_controlVars => SInv'
  <2>1. CASE ControlNext
    BY <2>1, ControlStepKeeps, SeenKept
  <2>2. CASE UNCHANGED controlVars
    BY <2>2, ControlStepKeeps DEF SeenInv, controlVars, listenerVars, queueVars
  <2> QED
    BY <2>1, <2>2
<1>3. SInv /\ [ControlNext]_controlVars
        => [\A q \in Requests :
              (effects'[q] # effects[q] /\ status = copy) => status = file[q].expected]_controlVars
  BY EffectsAreOfTheHandled
<1> QED
  BY <1>1, <1>2, <1>3, PTL DEF ControlSpec, ActsOnWhatWasSeen
=============================================================================
