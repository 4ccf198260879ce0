------------------------------- MODULE Approvals -------------------------------
(***************************************************************************)
(* Who is asked before something runs: the launch of a workflow             *)
(* (_approve_launch of run/manager.py, through the host's gateway queue or  *)
(* its CLI prompt) and a child's flagged command, for which two gates were  *)
(* written - the per-thread callback of a CLI session (child/runner.py),    *)
(* with a coordinator that serialises the prompts, and the pre_tool_call    *)
(* hook everywhere else (adapters/hooks.py).                                *)
(***************************************************************************)
EXTENDS Naturals, FiniteSets

CONSTANTS Askers,  \* the children that run a flagged command
          Topics   \* the descriptions under which commands are flagged

ASSUME ApprovalsAssumption == Topics # {}

VARIABLES
  settings,   \* the configuration and the session the workflow is launched from
  launch,     \* where _approve_launch is
  enqueued,   \* its entry is in the gateway's queue
  decision,   \* the entry's result, with which its event is set
  asker,      \* where each child's command is
  topic,      \* its description
  readOnly,   \* the commands that only fetch or filter
  holder,     \* the child that holds the coordinator's lock, if any
  granted     \* _session_approved_descriptions

launchVars    == <<launch, enqueued, decision>>
askVars       == <<asker, topic, readOnly, holder, granted>>
approvalVars  == <<settings, launchVars, askVars>>
-----------------------------------------------------------------------------
Policies  == {"inherit", "ask", "smart", "approve", "deny"}
Fallbacks == {"smart", "approve", "deny"}
Choices   == {"once", "session", "always", "deny"}

\* mode: approvals.mode of the host, or unreadable; channel: a registered gateway
\* notifier; interactive: HERMES_INTERACTIVE; prompt: a CLI approval callback was captured.
Settings == [policy : Policies, fallback : Fallbacks,
             mode : {"manual", "smart", "off", "unknown"}, gated : BOOLEAN,
             interactive : BOOLEAN, channel : BOOLEAN, prompt : BOOLEAN]

NoSettings == [policy |-> "deny", fallback |-> "smart", mode |-> "manual", gated |-> TRUE,
               interactive |-> FALSE, channel |-> FALSE, prompt |-> FALSE]

ApprovalsInit ==
  /\ settings = NoSettings
  /\ launch = "unread" /\ enqueued = FALSE /\ decision = "none"
  /\ asker = [a \in Askers |-> "idle"]
  /\ topic = [a \in Askers |-> CHOOSE t \in Topics : TRUE]
  /\ readOnly = {} /\ holder = {} /\ granted = {}
-----------------------------------------------------------------------------
(* The launch: _approve_launch.                                            *)

\* load_config at the launch; a session is a gateway's, a CLI's or neither.
Configure ==
  /\ launch = "unread"
  /\ settings' \in {s \in Settings : ~(s.interactive /\ s.channel) /\ (s.prompt => s.interactive)}
  /\ launch' = "deciding"
  /\ UNCHANGED <<enqueued, decision, askVars>>

\* Not gated; or nobody can be asked; or an entry is put into the gateway's queue.
RequestLaunch ==
  /\ launch = "deciding"
  /\ \/ ~settings.gated /\ launch' = "launched" /\ UNCHANGED enqueued
     \/ settings.gated /\ settings.channel /\ launch' = "notifying" /\ enqueued' = TRUE
     \/ settings.gated /\ settings.interactive /\ launch' = "asking" /\ UNCHANGED enqueued
     \/ /\ settings.gated /\ ~settings.channel /\ ~settings.interactive
        /\ launch' = "denied" /\ UNCHANGED enqueued
  /\ UNCHANGED <<settings, decision, askVars>>

\* The button is sent; or it cannot be, and the entry is taken back and the launch fails.
Notify ==
  /\ launch = "notifying"
  /\ \/ launch' = "waiting" /\ UNCHANGED enqueued
     \/ launch' = "denied" /\ enqueued' = FALSE
  /\ UNCHANGED <<settings, decision, askVars>>

\* The host resolves the entry: it leaves the queue with the user's choice.
Tap ==
  /\ enqueued
  /\ enqueued' = FALSE
  /\ decision' \in Choices
  /\ UNCHANGED <<settings, launch, askVars>>

\* The wait sees the event, or its time (gateway_timeout) is over - also when the user has
\* answered since its last look; the entry is removed after that.
WaitEnds ==
  /\ launch = "waiting"
  /\ \/ decision # "none" /\ launch' = "resolved"
     \/ launch' = "expired"
  /\ UNCHANGED <<settings, enqueued, decision, askVars>>

CloseEntry ==
  /\ launch \in {"resolved", "expired"}
  /\ enqueued' = FALSE
  /\ launch' = IF launch = "resolved" /\ decision # "deny" THEN "launched" ELSE "denied"
  /\ UNCHANGED <<settings, decision, askVars>>

\* The CLI's confirmation, answered at once or failing.
ConfirmLaunch ==
  /\ launch = "asking"
  /\ \E choice \in Choices \cup {"none"} :
       /\ decision' = choice
       /\ launch' = IF choice \in {"none", "deny"} THEN "denied" ELSE "launched"
  /\ UNCHANGED <<settings, enqueued, askVars>>
-----------------------------------------------------------------------------
(* The policy, as each of the two gates resolves it.                       *)

\* approvals.mode of the host; one that cannot be read is a refusal.
Inherited(mode) ==
  CASE mode = "manual" -> "ask" [] mode = "smart" -> "smart" [] mode = "off" -> "approve"
    [] OTHER -> "deny"

\* _make_child_approval_callback: a person is asked if the launching CLI left a callback.
CallbackPolicy(s) ==
  LET clean == IF s.policy = "inherit" THEN Inherited(s.mode) ELSE s.policy IN
  IF clean = "ask" /\ ~s.prompt THEN s.fallback ELSE clean

\* evaluate_command_gate with _resolve_policy: a person is asked if there is a live
\* gateway channel.
HookPolicy(s) ==
  LET clean == CASE s.policy # "inherit" -> s.policy
                 [] s.policy = "inherit" /\ s.mode = "manual" -> "ask"
                 [] s.policy = "inherit" /\ s.mode = "off" -> "approve"
                 [] s.policy = "inherit" /\ s.mode = "smart" -> "smart"
                 [] s.policy = "inherit" /\ s.mode = "unknown" -> "deny" IN
  IF clean = "ask" /\ ~s.channel THEN s.fallback ELSE clean

\* What a policy that asks nobody allows; the smart approver's verdict is its own.
Allows(policy, smart) == policy = "approve" \/ (policy = "smart" /\ smart = "approve")
-----------------------------------------------------------------------------
(* A child's flagged command.                                              *)

AskerTo(a, where) == asker' = [asker EXCEPT ![a] = where]
NoGrant == UNCHANGED <<holder, granted>>

Flag(a) ==
  /\ launch = "launched"
  /\ asker[a] = "idle"
  /\ \E t \in Topics : topic' = [topic EXCEPT ![a] = t]
  /\ readOnly' \in {readOnly, readOnly \cup {a}}
  /\ AskerTo(a, "flagged")
  /\ UNCHANGED <<settings, launchVars, holder, granted>>

\* The hook: a read-only command passes, like one that the policy allows (both are then
\* approved for the host's session); a gateway with a live channel asks by itself.
HookGates(a) ==
  /\ asker[a] = "flagged" /\ ~settings.interactive
  /\ \E smart \in {"approve", "deny", "escalate"} :
       LET policy == HookPolicy(settings)
           allowed == a \in readOnly \/ Allows(policy, smart) IN
       AskerTo(a, IF allowed THEN "ran"
                  ELSE IF policy = "ask" THEN "gateway" ELSE "refused")
  /\ NoGrant
  /\ UNCHANGED <<settings, launchVars, topic, readOnly>>

\* The callback of a CLI session; a person is not asked about a read-only command.
CallbackGates(a) ==
  /\ asker[a] = "flagged" /\ settings.interactive
  /\ \E smart \in {"approve", "deny", "escalate"} :
       LET policy == CallbackPolicy(settings) IN
       AskerTo(a, CASE policy = "ask" /\ a \in readOnly -> "ran"
                    [] policy = "ask" /\ a \notin readOnly -> "queued"
                    [] policy # "ask" -> IF Allows(policy, smart) THEN "ran" ELSE "refused")
  /\ NoGrant
  /\ UNCHANGED <<settings, launchVars, topic, readOnly>>

\* Mutant: the grants are looked at before the lock is taken.
PromptUnlocked(a) ==
  /\ asker[a] \in {"queued", "asks"}
  /\ \/ asker[a] = "queued" /\ topic[a] \in granted /\ AskerTo(a, "ran") /\ UNCHANGED holder
     \/ asker[a] = "queued" /\ topic[a] \notin granted /\ AskerTo(a, "asks") /\ UNCHANGED holder
     \/ asker[a] = "asks" /\ holder = {} /\ AskerTo(a, "prompted") /\ holder' = {a}
  /\ UNCHANGED <<settings, launchVars, topic, readOnly, granted>>

\* The coordinator, one child at a time: a description that was granted for the session is
\* not asked about again.
Prompt(a) ==
  /\ asker[a] = "queued" /\ holder = {}
  /\ \/ topic[a] \in granted /\ AskerTo(a, "ran") /\ UNCHANGED holder
     \/ topic[a] \notin granted /\ AskerTo(a, "prompted") /\ holder' = {a}
  /\ UNCHANGED <<settings, launchVars, topic, readOnly, granted>>

Answer(a) ==
  /\ asker[a] = "prompted"
  /\ holder' = {}
  /\ \E choice \in Choices :
       /\ granted' = IF choice \in {"session", "always"} THEN granted \cup {topic[a]} ELSE granted
       /\ AskerTo(a, IF choice = "deny" THEN "refused" ELSE "ran")
  /\ UNCHANGED <<settings, launchVars, topic, readOnly>>

\* The child's next command.
NextCommand(a) ==
  /\ asker[a] \in {"ran", "refused", "gateway"}
  /\ AskerTo(a, "idle")
  /\ readOnly' = readOnly \ {a}
  /\ NoGrant
  /\ UNCHANGED <<settings, launchVars, topic>>
-----------------------------------------------------------------------------
LaunchRequest ==
  \/ Configure \/ RequestLaunch \/ Notify \/ Tap \/ WaitEnds \/ CloseEntry \/ ConfirmLaunch
CommandStep(a) ==
  \/ Flag(a) \/ HookGates(a) \/ CallbackGates(a) \/ Prompt(a) \/ Answer(a) \/ NextCommand(a)

ApprovalsNext == LaunchRequest \/ \E a \in Askers : CommandStep(a)
ApprovalsSpec == ApprovalsInit /\ [][ApprovalsNext]_approvalVars
-----------------------------------------------------------------------------
(* Properties.                                                             *)

Launches == {"unread", "deciding", "notifying", "waiting", "resolved", "expired", "asking",
             "launched", "denied"}
AskSteps == {"idle", "flagged", "queued", "prompted", "gateway", "ran", "refused"}

\* Every variable has its type.
ApprovalsTypeOK ==
  /\ settings \in Settings /\ launch \in Launches
  /\ enqueued \in BOOLEAN /\ decision \in Choices \cup {"none"}
  /\ asker \in [Askers -> AskSteps] /\ topic \in [Askers -> Topics]
  /\ readOnly \subseteq Askers /\ holder \subseteq Askers
  /\ granted \subseteq Topics

\* A person is asked one question at a time, and never about what was granted for the
\* session - also when several children ask about the same thing at once.
GrantsReused ==
  \A a \in Askers : asker[a] = "prompted" => holder = {a} /\ topic[a] \notin granted

\* A gated launch goes ahead only on a choice that was made in time, and its entry does not
\* stay in the host's queue.
LaunchWanted ==
  /\ (launch = "launched" /\ settings.gated) => decision \notin {"none", "deny"}
  /\ launch \in {"launched", "denied"} => ~enqueued

\* The two gates come to the same decision wherever nobody can be asked.
GatesAgree ==
  LET unattended == [settings EXCEPT !.prompt = FALSE, !.channel = FALSE] IN
  CallbackPolicy(unattended) = HookPolicy(unattended)

ApprovalsHold == GrantsReused /\ LaunchWanted /\ GatesAgree
=============================================================================
