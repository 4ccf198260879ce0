---------------------------- MODULE ControlQueue ----------------------------
(***************************************************************************)
(* The file queue through which dashboards control a run of another process *)
(* (storage/control.py), and the manager's handler behind it                *)
(* (_handle_control_request).  A client writes a request file and waits     *)
(* 1.5 s for the response file; the listener works through a listing of the *)
(* request files in the order of their random names, executes each request  *)
(* that has not expired, writes the response and removes the request.       *)
(*                                                                         *)
(* The run is AbstractRun, which RunLifecycle implements: its thread, the   *)
(* gateway buttons and task_stop move it between any two steps here.        *)
(***************************************************************************)
EXTENDS AbstractRun, Naturals, FiniteSets

CONSTANTS Clients,    \* the dashboards
          Requests,   \* the request names, in the order of the listing
          NoRequest,  \* no request at all
          MaxFaults   \* bound: response writes and removals that fail

ASSUME ControlAssumption ==
  /\ Requests \subseteq Nat /\ NoRequest \notin Requests
  /\ MaxFaults \in Nat

VARIABLES
  named,     \* the names that have been given to requests
  file,      \* each request file: the action, the expected status, whether it has expired
  response,  \* the response each dashboard finds
  told,      \* what the sender of each request was told
  waiting,   \* the request each dashboard waits for
  at,        \* where the listener thread is
  batch,     \* the rest of its listing
  on,        \* the request it works on
  copy,      \* the record's status as the handler has copied it
  reply,     \* the answer it has computed
  acted,     \* this execution has changed the run or launched one
  effects,   \* the executions of each request that have
  halfway,   \* the restarts that have stopped the run and then failed
  faulty,    \* the requests whose response or removal has failed
  faults     \* how often that has happened

clientVars   == <<told, waiting>>
listenerVars == <<at, batch, on, copy, reply, acted>>
faultVars    == <<faulty, faults>>
queueVars    == <<named, file, response>>
ghostVars    == <<effects, halfway>>
controlVars  == <<runVars, clientVars, listenerVars, queueVars, ghostVars, faultVars>>
-----------------------------------------------------------------------------
Actions == {"stop", "pause", "resume", "restart"}
Answers == {"none", "yes", "no"}
Places  == {"idle", "reading", "checking", "acting", "restarting", "joining", "launching",
            "replying", "removing"}
NoFile  == [action |-> "none", expected |-> "none", old |-> FALSE]
Orders  == [action : Actions, expected : RunStatuses, old : BOOLEAN]

Queued == {q \in Requests : file[q] # NoFile}

ControlInit ==
  /\ RunInit
  /\ named = {}
  /\ file = [q \in Requests |-> NoFile]
  /\ response = [c \in Clients |-> "none"]
  /\ told = [q \in Requests |-> "none"]
  /\ waiting = [c \in Clients |-> NoRequest]
  /\ at = "idle" /\ batch = {} /\ on = NoRequest
  /\ copy = "queued" /\ reply = "none" /\ acted = FALSE
  /\ effects = [q \in Requests |-> 0]
  /\ halfway = {} /\ faulty = {} /\ faults = 0
-----------------------------------------------------------------------------
(* The dashboard.                                                          *)

Idle(c) == waiting[c] = NoRequest

\* The keys x, p and r, on the run as the dashboard shows it.
KeyActions(shown) == {"stop", "restart", IF shown = "paused" THEN "resume" ELSE "pause"}

\* request(): the file is written under a random name, with the status that is shown.
\* What is shown is as old as the last refresh; a change since then is seen here as one
\* that comes between the writing and the handling of the request.
Send(c, q) ==
  /\ Idle(c)
  /\ q \notin named
  /\ named' = named \cup {q}
  /\ \E a \in KeyActions(status) :
       file' = [file EXCEPT ![q] = [action |-> a, expected |-> status, old |-> FALSE]]
  /\ waiting' = [waiting EXCEPT ![c] = q]
  /\ UNCHANGED <<runVars, told, listenerVars, response, ghostVars, faultVars>>

Return(c) == waiting' = [waiting EXCEPT ![c] = NoRequest]

\* The response is read and removed.
Collect(c) ==
  /\ response[c] # "none"
  /\ told' = [told EXCEPT ![waiting[c]] = response[c]]
  /\ response' = [response EXCEPT ![c] = "none"]
  /\ Return(c)
  /\ UNCHANGED <<runVars, named, file, listenerVars, ghostVars, faultVars>>

\* After 1.5 s without a response the client returns "pending"; the request stays where
\* it is, and its response will have no reader.
GiveUp(c) ==
  /\ ~Idle(c) /\ response[c] = "none"
  /\ Return(c)
  /\ UNCHANGED <<runVars, told, listenerVars, queueVars, ghostVars, faultVars>>

\* A request is valid for 15 s, so its sender has given up long before.
Expire(q) ==
  /\ q \in Queued
  /\ \A c \in Clients : waiting[c] # q
  /\ file' = [file EXCEPT ![q].old = TRUE]
  /\ UNCHANGED <<runVars, clientVars, listenerVars, named, response, ghostVars, faultVars>>
-----------------------------------------------------------------------------
(* The listener: process_once().                                           *)

List ==
  /\ at = "idle"
  /\ Queued # {}
  /\ batch' = Queued
  /\ at' = "reading"
  /\ UNCHANGED <<runVars, clientVars, on, copy, reply, acted, queueVars, ghostVars, faultVars>>

First(q) == q \in batch /\ \A r \in batch : q <= r

\* The request is read; an expired one is refused.
Take(q) ==
  /\ at = "reading"
  /\ First(q)
  /\ on' = q
  /\ \/ file[q].old /\ at' = "replying" /\ reply' = "no"
     \/ ~file[q].old /\ at' = "checking" /\ UNCHANGED reply
  /\ UNCHANGED <<runVars, clientVars, batch, copy, acted, queueVars, ghostVars, faultVars>>

\* Mutant: any status will do.
CheckNothing ==
  /\ at = "checking"
  /\ copy' = status
  /\ at' = "acting" /\ UNCHANGED reply
  /\ UNCHANGED <<runVars, clientVars, batch, on, acted, queueVars, ghostVars, faultVars>>

\* _handle_control_request: a copy of the record is compared with what the sender saw.
\* (The run is known and owned: the sender took the owner from its record.)
Check ==
  /\ at = "checking"
  /\ \/ status = file[on].expected /\ at' = "acting" /\ copy' = status /\ UNCHANGED reply
     \/ status # file[on].expected /\ at' = "replying" /\ reply' = "no" /\ UNCHANGED copy
  /\ UNCHANGED <<runVars, clientVars, batch, on, acted, queueVars, ghostVars, faultVars>>

Count == effects' = [effects EXCEPT ![on] = IF acted THEN @ ELSE @ + 1]

\* What the action asks of the run, and its effect under managed.lock.
Operation ==
  \/ file[on].action = "stop" /\ StopRun
  \/ file[on].action = "pause" /\ PauseRun
  \/ file[on].action = "resume" /\ ResumeRun

Refused ==
  \/ file[on].action = "stop" /\ status \notin ActiveStatuses
  \/ file[on].action = "pause" /\ status \notin {"queued", "running"}
  \/ file[on].action = "resume" /\ status # "paused"

Act ==
  /\ at = "acting"
  /\ Operation
  /\ reply' = "yes" /\ at' = "replying"
  /\ acted' = TRUE /\ Count
  /\ UNCHANGED <<clientVars, batch, on, copy, queueVars, halfway, faultVars>>

\* The operation finds another status than the copy had, and answers False.
ActRefused ==
  /\ at = "acting"
  /\ Refused
  /\ reply' = "no" /\ at' = "replying"
  /\ UNCHANGED <<runVars, clientVars, batch, on, copy, acted, queueVars, ghostVars, faultVars>>

\* restart(): a second copy decides whether the run is stopped first.
ActRestart ==
  /\ at = "acting"
  /\ file[on].action = "restart"
  /\ at' = IF status \in Outcomes THEN "launching" ELSE "restarting"
  /\ UNCHANGED <<runVars, clientVars, batch, on, copy, reply, acted, queueVars, ghostVars, faultVars>>

\* self.stop(run_id), whose answer is ignored.
RestartStop ==
  /\ at = "restarting"
  /\ at' = "joining"
  /\ \/ StopRun /\ acted' = TRUE /\ Count
     \/ status \notin ActiveStatuses /\ UNCHANGED <<runVars, acted, effects>>
  /\ UNCHANGED <<clientVars, batch, on, copy, reply, queueVars, halfway, faultVars>>

FailRestart ==
  /\ reply' = "no"
  /\ halfway' = IF acted THEN halfway \cup {on} ELSE halfway

\* The join ends with the thread or after five seconds; a run that is not over makes
\* restart() raise, which is answered with ok = False.
Join ==
  /\ at = "joining"
  /\ \/ status \in Outcomes /\ at' = "launching" /\ UNCHANGED <<reply, halfway>>
     \/ status \notin Outcomes /\ at' = "replying" /\ FailRestart
  /\ UNCHANGED <<runVars, clientVars, batch, on, copy, acted, queueVars, effects, faultVars>>

\* start_from_params: the new run is launched, or its script is gone.
LaunchNew ==
  /\ at = "launching"
  /\ at' = "replying"
  /\ \/ reply' = "yes" /\ acted' = TRUE /\ Count /\ UNCHANGED halfway
     \/ FailRestart /\ UNCHANGED <<acted, effects>>
  /\ UNCHANGED <<runVars, clientVars, batch, on, copy, queueVars, faultVars>>

\* The locals of one request.
Forget == on' = NoRequest /\ copy' = "queued" /\ reply' = "none" /\ acted' = FALSE

Fault ==
  /\ faults < MaxFaults
  /\ faults' = faults + 1
  /\ faulty' = faulty \cup {on}

\* The response file; one that nobody waits for is never read.
WriteResponse ==
  response' = [c \in Clients |-> IF waiting[c] = on THEN reply ELSE response[c]]

\* Mutant: a response that cannot be written ends the listener's loop.
RespondOrDie ==
  /\ at = "replying"
  /\ \/ /\ WriteResponse
        /\ at' = "removing"
        /\ UNCHANGED <<batch, on, faultVars>>
     \/ /\ Fault
        /\ at' = "dead"
        /\ UNCHANGED <<batch, on, response>>
  /\ UNCHANGED <<runVars, clientVars, copy, reply, acted, named, file, ghostVars>>

\* The response is written; when that fails the whole pass ends and the request, with
\* all that are listed after it, is left for the next one.
Respond ==
  /\ at = "replying"
  /\ \/ /\ WriteResponse
        /\ at' = "removing"
        /\ UNCHANGED <<batch, on, copy, reply, acted, faultVars>>
     \/ /\ Fault
        /\ at' = "idle" /\ batch' = {} /\ Forget
        /\ UNCHANGED response
  /\ UNCHANGED <<runVars, clientVars, named, file, ghostVars>>

NextInBatch ==
  /\ batch' = batch \ {on}
  /\ at' = IF batch = {on} THEN "idle" ELSE "reading"
  /\ Forget

\* Mutant: a refused request is left for a better moment.
RemoveAccepted ==
  /\ at = "removing"
  /\ file' = IF reply = "yes" THEN [file EXCEPT ![on] = NoFile] ELSE file
  /\ NextInBatch
  /\ UNCHANGED <<runVars, clientVars, named, response, ghostVars, faultVars>>

\* The request is removed, or the error is swallowed and it stays.
Remove ==
  /\ at = "removing"
  /\ \/ file' = [file EXCEPT ![on] = NoFile] /\ UNCHANGED faultVars
     \/ Fault /\ UNCHANGED file
  /\ NextInBatch
  /\ UNCHANGED <<runVars, clientVars, named, response, ghostVars>>
-----------------------------------------------------------------------------
\* The run's thread, and the operations of the gateway buttons and task_stop.
RunMoves ==
  /\ RunNext
  /\ UNCHANGED <<clientVars, listenerVars, queueVars, ghostVars, faultVars>>

ClientStep == \E c \in Clients : Collect(c) \/ GiveUp(c)
                                 \/ \E q \in Requests : Send(c, q)
RestartPath == ActRestart \/ RestartStop \/ Join \/ LaunchNew
ListenerStep ==
  \/ List \/ Check \/ Act \/ ActRefused \/ RestartPath \/ Respond \/ Remove
  \/ \E q \in Requests : Take(q)

ControlNext == RunMoves \/ ClientStep \/ ListenerStep \/ \E q \in Requests : Expire(q)

ControlSpec == ControlInit /\ [][ControlNext]_controlVars

\* The listener thread polls every 0.1 s and never blocks for more than restart()'s join.
ControlFairness == WF_controlVars(ListenerStep)
-----------------------------------------------------------------------------
(* Properties.                                                             *)

QueueTypeOK ==
  /\ file \in [Requests -> Orders \cup {NoFile}]
  /\ named \subseteq Requests
  /\ response \in [Clients -> Answers] /\ told \in [Requests -> Answers]
  /\ waiting \in [Clients -> Requests \cup {NoRequest}]
ListenerTypeOK ==
  /\ at \in Places /\ batch \subseteq Requests
  /\ on \in Requests \cup {NoRequest}
  /\ copy \in RunStatuses /\ reply \in Answers /\ acted \in BOOLEAN
  /\ effects \in [Requests -> Nat]
  /\ halfway \subseteq Requests /\ faulty \subseteq Requests /\ faults \in 0..MaxFaults

\* Every variable has its type.
ControlTypeOK ==
  /\ status \in RunStatuses /\ phase \in {"waiting", "executing", "ended"}
  /\ QueueTypeOK /\ ListenerTypeOK

\* What a dashboard was told is what has happened and what will: "no" means that the
\* request has had no effect, "yes" that it has had exactly one - unless its response or
\* its removal failed once (then it is executed again), or it is a restart that has stopped
\* the run and then failed.
AnswersAreTrue ==
  \A q \in Requests \ faulty :
    /\ told[q] = "yes" => effects[q] = 1
    /\ (told[q] = "no" /\ q \notin halfway) => effects[q] = 0
    /\ effects[q] <= 1

\* An action takes effect on a run in the status its sender saw, unless the run moved
\* after the handler had copied the status.
ActsOnWhatWasSeen ==
  [][\A q \in Requests :
       (effects'[q] # effects[q] /\ status = copy) => status = file[q].expected]_controlVars

\* Every request is answered and removed, also one that has expired or is listed behind a
\* failing one: there are finitely many, and the queue is empty in the end.
RequestsSettle == <>[](Queued = {})
=============================================================================
