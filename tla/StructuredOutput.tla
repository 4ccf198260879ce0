--------------------------- MODULE StructuredOutput ---------------------------
(***************************************************************************)
(* The children that must answer through the structured_output tool        *)
(* (child/structured_output.py) and the conversations the runner leads     *)
(* with them until they have (_run_child of child/runner.py).  All share    *)
(* one tool entry in the host's registry, which is there while one of them  *)
(* needs it, and one broker, whose lock covers single reads and writes.     *)
(*                                                                         *)
(* A submission is counted, validated and stored in three steps; a child's  *)
(* tools run on threads of their own, and one that timed out or was         *)
(* interrupted may still submit when the runner has given it up.            *)
(***************************************************************************)
EXTENDS Naturals, FiniteSets

CONSTANTS Kids,       \* the children with a schema
          MaxRetries, \* MAX_STRUCTURED_OUTPUT_RETRIES
          MaxTurns,   \* request.max_turns
          MaxCalls    \* bound: submissions of each child

ASSUME StructuredAssumption ==
       MaxRetries \in Nat \ {0} /\ MaxTurns \in Nat /\ MaxCalls \in [Kids -> Nat]

VARIABLES
  entry,     \* structured_output in the registry: none, ours or another plugin's
  users,     \* _REGISTRY_USERS
  owned,     \* _REGISTRY_OWNED
  expected,  \* _expect
  tries,     \* _attempts
  captured,  \* _results: the attempt that was stored, 0 for none
  exhausted, \* _exhausted
  inCheck,   \* the submissions counted and not yet validated
  kid,       \* where run() is for each child
  convs,     \* conversations led
  turns,     \* remaining_turns
  bothered,  \* the children that were interrupted, or left behind by a timeout
  verdict,   \* how run() ends
  stored     \* the children with a valid submission in a conversation

registryVars == <<entry, users, owned>>
brokerVars   == <<expected, tries, captured, exhausted>>
talkVars     == <<convs, turns, bothered>>
endVars      == <<verdict, stored>>
structuredVars == <<registryVars, brokerVars, inCheck, kid, talkVars, endVars>>
-----------------------------------------------------------------------------
Steps    == {"idle", "building", "talking", "returned", "closing", "scoped", "gone"}
Verdicts == {"none", "answer", "refused", "timeout", "error", "spent", "gaveup"}

StructuredInit ==
  /\ entry \in {"none", "other"} /\ users = 0 /\ owned = FALSE
  /\ expected = {} /\ exhausted = {}
  /\ tries = [k \in Kids |-> 0] /\ captured = [k \in Kids |-> 0]
  /\ inCheck = [k \in Kids |-> {}]
  /\ kid = [k \in Kids |-> "idle"]
  /\ convs = [k \in Kids |-> 0] /\ turns = [k \in Kids |-> MaxTurns]
  /\ bothered = {}
  /\ verdict = [k \in Kids |-> "none"] /\ stored = {}

Moves(k, where)  == kid' = [kid EXCEPT ![k] = where]
Decide(k, what)  == verdict' = [verdict EXCEPT ![k] = what]
-----------------------------------------------------------------------------
(* structured_output_tool_scope: a reference count over the entry.         *)

\* The first user registers the tool; a foreign tool of that name makes it raise.
EnterScope(k) ==
  /\ kid[k] = "idle"
  /\ \/ /\ users > 0 \/ entry = "none"
        /\ entry' = "ours"
        /\ owned' = (owned \/ users = 0)
        /\ users' = users + 1
        /\ Moves(k, "building") /\ UNCHANGED verdict
     \/ /\ users = 0 /\ entry = "other"
        /\ Moves(k, "gone") /\ Decide(k, "refused")
        /\ UNCHANGED registryVars
  /\ UNCHANGED <<brokerVars, inCheck, talkVars, stored>>

\* Mutant: each child removes the tool as it leaves.
LeaveScopeAlways(k) ==
  /\ kid[k] = "scoped"
  /\ users' = users - 1
  /\ entry' = "none" /\ owned' = FALSE
  /\ Moves(k, "gone")
  /\ UNCHANGED <<brokerVars, inCheck, talkVars, endVars>>

LeaveScope(k) ==
  /\ kid[k] = "scoped"
  /\ users' = users - 1
  /\ IF users = 1 /\ owned THEN entry' = "none" /\ owned' = FALSE
                           ELSE UNCHANGED <<entry, owned>>
  /\ Moves(k, "gone")
  /\ UNCHANGED <<brokerVars, inCheck, talkVars, endVars>>
-----------------------------------------------------------------------------
(* The broker: register, submit, clear.                                    *)

\* create_child or the specialisation of the tool may raise before the child is known to
\* the broker; otherwise it is registered and the first conversation begins.
Register(k) ==
  /\ kid[k] = "building"
  /\ \/ /\ expected' = expected \cup {k} /\ exhausted' = exhausted \ {k}
        /\ tries' = [tries EXCEPT ![k] = 0] /\ captured' = [captured EXCEPT ![k] = 0]
        /\ convs' = [convs EXCEPT ![k] = 1]
        /\ Moves(k, "talking") /\ UNCHANGED verdict
     \/ /\ Moves(k, "scoped") /\ Decide(k, "error")
        /\ UNCHANGED <<brokerVars, convs>>
  /\ UNCHANGED <<registryVars, inCheck, turns, bothered, stored>>

\* A thread of the child: it is in a conversation, or was left behind in one.
Lives(k) == kid[k] = "talking" \/ (kid[k] \in {"closing", "scoped", "gone"} /\ k \in bothered)

\* submit, first section: every call is counted, also one of a child that is not expected
\* any more; that one and one beyond the limit are refused.
CountCall(k) ==
  /\ Lives(k) /\ tries[k] < MaxCalls[k]
  /\ tries' = [tries EXCEPT ![k] = @ + 1]
  /\ inCheck' = IF k \in expected /\ tries'[k] <= MaxRetries
                THEN [inCheck EXCEPT ![k] = @ \cup {tries'[k]}] ELSE inCheck
  /\ UNCHANGED <<registryVars, expected, captured, exhausted, kid, talkVars, endVars>>

Checked(k, n) == inCheck' = [inCheck EXCEPT ![k] = @ \ {n}]

\* The value is valid and is stored, whatever has become of the child.
StoreCall(k, n) ==
  /\ n \in inCheck[k]
  /\ captured' = [captured EXCEPT ![k] = n]
  /\ stored' = IF kid[k] = "talking" THEN stored \cup {k} ELSE stored
  /\ Checked(k, n)
  /\ UNCHANGED <<registryVars, expected, tries, exhausted, kid, talkVars, verdict>>

\* The value is invalid; the last attempt interrupts the child, once.
RejectCall(k, n) ==
  /\ n \in inCheck[k]
  /\ Checked(k, n)
  /\ IF n >= MaxRetries /\ k \notin exhausted
       THEN /\ exhausted' = exhausted \cup {k}
            /\ bothered' = IF k \in expected THEN bothered \cup {k} ELSE bothered
       ELSE UNCHANGED <<exhausted, bothered>>
  /\ UNCHANGED <<registryVars, expected, tries, captured, kid, convs, turns, endVars>>

\* clear_expectation, on every way out of run().
Clear(k) ==
  /\ kid[k] = "closing"
  /\ expected' = expected \ {k} /\ exhausted' = exhausted \ {k}
  /\ tries' = [tries EXCEPT ![k] = 0] /\ captured' = [captured EXCEPT ![k] = 0]
  /\ Moves(k, "scoped")
  /\ UNCHANGED <<registryVars, inCheck, talkVars, endVars>>
-----------------------------------------------------------------------------
(* The conversation: _run_child.                                           *)

\* A stop or a skip.
Interrupt(k) ==
  /\ kid[k] = "talking"
  /\ bothered' = bothered \cup {k}
  /\ UNCHANGED <<registryVars, brokerVars, inCheck, kid, convs, turns, endVars>>

\* A conversation ends by itself when its tools have returned; its turns are counted, and
\* the child has kept the limit it was given.
TalkEnds(k) ==
  /\ kid[k] = "talking"
  /\ inCheck[k] = {} \/ k \in bothered  \* an interrupted one does not wait for them
  /\ \E used \in 0..turns[k] : turns' = [turns EXCEPT ![k] = @ - used]
  /\ Moves(k, "returned")
  /\ UNCHANGED <<registryVars, brokerVars, inCheck, convs, bothered, endVars>>

\* It times out, and its thread is left behind; or it fails, or reports no number of turns.
TalkFails(k) ==
  /\ kid[k] = "talking"
  /\ \/ Decide(k, "timeout") /\ bothered' = bothered \cup {k}
     \/ inCheck[k] = {} /\ Decide(k, "error") /\ UNCHANGED bothered
  /\ Moves(k, "closing")
  /\ UNCHANGED <<registryVars, brokerVars, inCheck, convs, turns, stored>>

Ends(k, what) == Decide(k, what) /\ Moves(k, "closing") /\ UNCHANGED convs

TalksOn(k) ==
  /\ convs' = [convs EXCEPT ![k] = @ + 1]
  /\ Moves(k, "talking") /\ UNCHANGED verdict

LastAttempt(k) == tries[k] >= MaxRetries \/ convs[k] >= MaxRetries

\* Mutant: a child without turns is given up before its answer is looked for.
JudgeTurnsFirst(k) ==
  /\ kid[k] = "returned"
  /\ \/ turns[k] = 0 /\ Ends(k, "spent")
     \/ turns[k] > 0 /\ captured[k] # 0 /\ Ends(k, "answer")
     \/ turns[k] > 0 /\ captured[k] = 0 /\ Ends(k, "error")
     \/ turns[k] > 0 /\ captured[k] = 0 /\ ~LastAttempt(k) /\ TalksOn(k)
  /\ UNCHANGED <<registryVars, brokerVars, inCheck, turns, bothered, stored>>

\* After a conversation, in this order: an answer; no turns left; a tool that met no
\* expectation, or an interrupt; the last of the attempts; or else the child is told, in
\* the same history, to call the tool.
Judge(k) ==
  /\ kid[k] = "returned"
  /\ \/ captured[k] # 0 /\ Ends(k, "answer")
     \/ captured[k] = 0 /\ turns[k] = 0 /\ Ends(k, "spent")
     \/ captured[k] = 0 /\ turns[k] > 0 /\ Ends(k, "error")
     \/ /\ captured[k] = 0 /\ turns[k] > 0 /\ k \notin bothered
        /\ \/ LastAttempt(k) /\ Ends(k, "gaveup")
           \/ ~LastAttempt(k) /\ TalksOn(k)
  /\ UNCHANGED <<registryVars, brokerVars, inCheck, turns, bothered, stored>>
-----------------------------------------------------------------------------
BrokerStep(k) ==
  \/ Register(k) \/ CountCall(k) \/ Clear(k)
  \/ \E n \in inCheck[k] : StoreCall(k, n) \/ RejectCall(k, n)
TalkStep(k) == Interrupt(k) \/ TalkEnds(k) \/ TalkFails(k) \/ Judge(k)

StructuredNext ==
  \E k \in Kids : EnterScope(k) \/ LeaveScope(k) \/ BrokerStep(k) \/ TalkStep(k)

StructuredSpec == StructuredInit /\ [][StructuredNext]_structuredVars
-----------------------------------------------------------------------------
(* Properties.                                                             *)

ToolTypeOK ==
  /\ entry \in {"none", "ours", "other"} /\ users \in Nat /\ owned \in BOOLEAN
  /\ expected \subseteq Kids /\ exhausted \subseteq Kids
  /\ tries \in [Kids -> Nat] /\ captured \in [Kids -> Nat]
  /\ inCheck \in [Kids -> SUBSET (1..MaxRetries)]
TalkTypeOK ==
  /\ kid \in [Kids -> Steps] /\ verdict \in [Kids -> Verdicts]
  /\ convs \in [Kids -> Nat] /\ turns \in [Kids -> 0..MaxTurns]
  /\ bothered \subseteq Kids /\ stored \subseteq Kids

\* Every variable has its type.
StructuredTypeOK == ToolTypeOK /\ TalkTypeOK

InScope == {k \in Kids : kid[k] \notin {"idle", "gone"}}

\* The tool is there as long as one child needs it, whichever of them came first or goes
\* last, and is gone when none does; and a child that was not interrupted or timed out
\* leaves nothing of itself in the broker.
NothingLeftBehind ==
  /\ InScope # {} => entry = "ours"
  /\ InScope = {} => entry # "ours" /\ ~owned
  /\ \A k \in Kids \ bothered :
       kid[k] \in {"scoped", "gone"} => k \notin expected /\ tries[k] = 0 /\ captured[k] = 0

\* However its submissions, its interrupts and its turns interleave, a child gives an
\* answer only if one of its first MaxRetries submissions was valid, is asked no more than
\* MaxRetries times, and is not given up for want of turns or attempts when a valid answer
\* had been stored.
AnswersAreDue ==
  \A k \in Kids :
    /\ (verdict[k] = "answer" /\ kid[k] = "closing") => captured[k] \in 1..MaxRetries
    /\ convs[k] <= MaxRetries
    /\ verdict[k] \in {"spent", "gaveup"} => k \notin stored

\* The shared tool and broker serve each child as if it were the only one.
StructuredHolds == NothingLeftBehind /\ AnswersAreDue
=============================================================================
