------------------------ MODULE ChildServicesProofs -------------------------
(***************************************************************************)
(* Proofs about what surrounds a child: Approvals, for any children and any *)
(* descriptions; ChildTools, for any registry of toolsets and any surfaces  *)
(* that presets declare and calls pass; and StructuredOutput, for any       *)
(* children, turns and attempts.  They share no variable.                   *)
(***************************************************************************)
EXTENDS Approvals, ChildTools, StructuredOutput, FiniteSetTheorems, TLAPS
-----------------------------------------------------------------------------
(* Approvals.                                                              *)
\* What the launch has done by each place of _approve_launch: an entry is in the queue only
\* while somebody may still take it back, and the wait sees its event only with a choice.
LaunchInv ==
  /\ enqueued => launch \in {"notifying", "waiting", "resolved", "expired"}
  /\ launch = "resolved" => decision # "none"

AInv == ApprovalsTypeOK /\ LaunchInv /\ LaunchWanted /\ GrantsReused
-----------------------------------------------------------------------------
\* The two gates resolve the policy alike in every configuration in which nobody can be
\* asked, whatever the host's mode is.
LEMMA UnattendedGatesAgree == ApprovalsTypeOK => GatesAgree
<1> SUFFICES ASSUME ApprovalsTypeOK PROVE GatesAgree
  OBVIOUS
<1> DEFINE u == [settings EXCEPT !.prompt = FALSE, !.channel = FALSE]
<1>1. /\ u.policy \in Policies /\ u.mode \in {"manual", "smart", "off", "unknown"}
      /\ u.prompt = FALSE /\ u.channel = FALSE
  BY DEF ApprovalsTypeOK, Settings
<1> HIDE DEF u
<1>2. u.policy # "inherit" => CallbackPolicy(u) = HookPolicy(u)
  <2> SUFFICES ASSUME u.policy # "inherit" PROVE CallbackPolicy(u) = HookPolicy(u)
    OBVIOUS
  <2>1. CallbackPolicy(u) = IF u.policy = "ask" THEN u.fallback ELSE u.policy
    BY <1>1, Zenon DEF CallbackPolicy
  <2>2. HookPolicy(u) = IF u.policy = "ask" THEN u.fallback ELSE u.policy
    BY <1>1, Zenon DEF HookPolicy
  <2> QED
    BY <2>1, <2>2
<1>3. u.policy = "inherit" => CallbackPolicy(u) = HookPolicy(u)
  <2> SUFFICES ASSUME u.policy = "inherit" PROVE CallbackPolicy(u) = HookPolicy(u)
    OBVIOUS
  <2>1. CASE u.mode = "manual"
    BY <1>1, <2>1, Zenon DEF CallbackPolicy, HookPolicy, Inherited
  <2>2. CASE u.mode = "smart"
    BY <1>1, <2>2, Zenon DEF CallbackPolicy, HookPolicy, Inherited
  <2>3. CASE u.mode = "off"
    BY <1>1, <2>3, Zenon DEF CallbackPolicy, HookPolicy, Inherited
  <2>4. CASE u.mode = "unknown"
    BY <1>1, <2>4, Zenon DEF CallbackPolicy, HookPolicy, Inherited
  <2> QED
    BY <1>1, <2>1, <2>2, <2>3, <2>4
<1>4. CallbackPolicy(u) = HookPolicy(u)
  BY <1>2, <1>3
<1> QED
  BY <1>4 DEF GatesAgree, u
-----------------------------------------------------------------------------
LEMMA LaunchStepKeeps == AInv /\ LaunchRequest => AInv'
<1> SUFFICES ASSUME AInv, LaunchRequest PROVE AInv'
  OBVIOUS
<1> USE DEF AInv, ApprovalsTypeOK, LaunchInv, LaunchWanted, GrantsReused, askVars, Launches
<1>1. CASE Configure
  BY <1>1 DEF Configure, Settings
<1>2. CASE RequestLaunch
  <2>1. ~enqueued
    BY <1>2 DEF RequestLaunch
  <2>2. /\ UNCHANGED <<settings, decision, asker, topic, readOnly, holder, granted>>
        /\ \/ ~settings.gated /\ launch' = "launched" /\ enqueued' = enqueued
           \/ launch' = "notifying" /\ enqueued' = TRUE
           \/ launch' \in {"asking", "denied"} /\ enqueued' = enqueued
    BY <1>2 DEF RequestLaunch
  <2>3. ApprovalsTypeOK' /\ GrantsReused'
    BY <2>1, <2>2
  <2>4. LaunchInv'
    BY <2>1, <2>2
  <2>5. LaunchWanted'
    BY <2>1, <2>2
  <2> QED
    BY <2>3, <2>4, <2>5
<1>3. CASE Notify
  BY <1>3 DEF Notify
<1>4. CASE Tap
  BY <1>4 DEF Tap, Choices
<1>5. CASE WaitEnds
  BY <1>5 DEF WaitEnds
<1>6. CASE CloseEntry
  BY <1>6 DEF CloseEntry
<1>7. CASE ConfirmLaunch
  BY <1>7 DEF ConfirmLaunch, Choices
<1> QED
  BY <1>1, <1>2, <1>3, <1>4, <1>5, <1>6, <1>7 DEF LaunchRequest

LEMMA CommandStepKeeps == ASSUME AInv, NEW a \in Askers, CommandStep(a) PROVE AInv'
<1> USE DEF AInv, LaunchInv, LaunchWanted, launchVars
<1>1. ApprovalsTypeOK /\ GrantsReused
  OBVIOUS
<1>2. CASE Flag(a)
  BY <1>1, <1>2 DEF Flag, AskerTo, ApprovalsTypeOK, GrantsReused, AskSteps
<1>3. CASE HookGates(a)
  BY <1>1, <1>3 DEF HookGates, AskerTo, NoGrant, ApprovalsTypeOK, GrantsReused, AskSteps
<1>4. CASE CallbackGates(a)
  <2>1. /\ \E where \in {"ran", "queued", "refused"} : AskerTo(a, where)
        /\ UNCHANGED <<settings, launchVars, topic, readOnly, holder, granted>>
    BY <1>4, Zenon DEF CallbackGates, NoGrant
  <2> QED
    BY <1>1, <2>1 DEF AskerTo, ApprovalsTypeOK, GrantsReused, AskSteps
<1>5. CASE Prompt(a)
  BY <1>1, <1>5 DEF Prompt, AskerTo, ApprovalsTypeOK, GrantsReused, AskSteps
<1>6. CASE Answer(a)
  <2>1. holder = {a} /\ holder' = {} /\ \A b \in Askers \ {a} : asker[b] # "prompted"
    BY <1>1, <1>6 DEF Answer, GrantsReused
  <2>2. /\ \E where \in {"ran", "refused"} : AskerTo(a, where)
        /\ granted' \in {granted, granted \cup {topic[a]}}
        /\ UNCHANGED <<settings, launchVars, topic, readOnly>>
    BY <1>6 DEF Answer
  <2> QED
    BY <1>1, <2>1, <2>2 DEF AskerTo, ApprovalsTypeOK, GrantsReused, AskSteps
<1>7. CASE NextCommand(a)
  BY <1>1, <1>7 DEF NextCommand, AskerTo, NoGrant, ApprovalsTypeOK, GrantsReused, AskSteps
<1> QED
  BY <1>2, <1>3, <1>4, <1>5, <1>6, <1>7 DEF CommandStep
-----------------------------------------------------------------------------
LEMMA ApprovalsInitKeeps == ApprovalsInit => AInv
<1> SUFFICES ASSUME ApprovalsInit PROVE AInv
  OBVIOUS
<1>1. ApprovalsTypeOK
  BY ApprovalsAssumption
  DEF ApprovalsInit, ApprovalsTypeOK, NoSettings, Settings, Policies, Fallbacks, Launches,
      AskSteps
<1> QED
  BY <1>1 DEF ApprovalsInit, AInv, LaunchInv, LaunchWanted, GrantsReused

LEMMA ApprovalsStepKeeps == AInv /\ [ApprovalsNext]_approvalVars => AInv'
<1>1. CASE UNCHANGED approvalVars
  BY <1>1 DEF approvalVars, launchVars, askVars, AInv, ApprovalsTypeOK, LaunchInv, LaunchWanted,
              GrantsReused
<1> QED
  BY <1>1, LaunchStepKeeps, CommandStepKeeps DEF ApprovalsNext
-----------------------------------------------------------------------------
\* Every reachable state of the launch and of the commands has the declared types.
THEOREM ApprovalsTypeCorrect == ApprovalsSpec => []ApprovalsTypeOK
<1>1. AInv => ApprovalsTypeOK
  BY DEF AInv
<1> QED
  BY <1>1, ApprovalsInitKeeps, ApprovalsStepKeeps, PTL DEF ApprovalsSpec

\* Whatever the configuration and however many children ask at once: one question at a time
\* and none about what was granted; a gated launch only on a choice made in time; and the
\* same answer of the two command gates where nobody can be asked.
THEOREM ApprovalsCorrect == ApprovalsSpec => []ApprovalsHold
<1>1. AInv => ApprovalsHold
  BY UnattendedGatesAgree DEF AInv, ApprovalsHold
<1> QED
  BY <1>1, ApprovalsInitKeeps, ApprovalsStepKeeps, PTL DEF ApprovalsSpec
-----------------------------------------------------------------------------
(* ChildTools.                                                             *)
Origins == {"meta", "markdown", "json", "builtin"}

\* A surface whose lists are empty unless they are there, and do not name the toolset of
\* the structured output.
Proper(data) ==
  /\ data.toolsets.form # "list" => data.toolsets.names = {}
  /\ data.allowed.form # "list" => data.allowed.names = {}
  /\ data.denied.form # "list" => data.denied.names = {}
  /\ data.toolsets.names \subseteq (Toolsets \ {Structured}) \cup {"*"}

CallInv ==
  /\ asked.typed \in BOOLEAN /\ asked.schema \in BOOLEAN
  /\ preset.origin \in Origins
  /\ Proper(asked.opts) /\ Proper(preset.data)

\* The toolsets that the engine resolves.
Reached == ResolveToolsets({}, effective,
                           Widens(asked.typed, asked.opts, preset.origin, effective))

\* Where a child's surface and tools come from, at each place of the way.
SurfaceInv ==
  /\ prepared \notin {"idle", "refused"} =>
       effective = Compose(Load(preset.origin, preset.data), asked.opts)
  /\ prepared = "resolved" => surface = Reached
  /\ prepared \in {"requested", "configured", "ready"} =>
       surface = Reached \cup (IF asked.schema THEN {Structured} ELSE {})

OfferInv ==
  /\ prepared \in {"configured", "ready"} =>
       /\ \E given \in SUBSET Definitions : offered = Filter(given)
       /\ assembled => offered = Filter(Definitions)
  /\ prepared = "ready" => (asked.schema => Output \in offered)

CInv == CallInv /\ SurfaceInv /\ OfferInv
-----------------------------------------------------------------------------
\* Every surface of the constants is proper.
LEMMA SurfacesProper == \A s \in PresetSurfaces \cup InlineSurfaces \cup {Plain, Generic} : Proper(s)
<1>1. \A s \in PresetSurfaces \cup InlineSurfaces : Proper(s)
  BY ChildToolsAssumption DEF Surfaces, Fields, Proper
<1>2. Structured # "*"
  BY ChildToolsAssumption
<1>3. Proper(Plain) /\ Proper(Generic)
  BY <1>2 DEF Proper, Plain, Generic, Unset, Wildcard
<1> QED
  BY <1>1, <1>3

\* The toolsets of a specification, before blocked ones are taken away and installed ones
\* are added.
Raw(spec) == IF spec.exact \/ spec.toolsets # {} THEN spec.toolsets ELSE Defaults
Expanded(names) == (names \ {"*"}) \cup (IF "*" \in names THEN Defaults ELSE {})

LEMMA ResolvedFrom ==
  ASSUME NEW spec, NEW wide \in BOOLEAN
  PROVE  ResolveToolsets({}, spec, wide)
           = (Expanded(Raw(spec)) \cup (IF wide THEN Discovered ELSE {})) \ Blocked
<1>1. ResolveToolsets({}, spec, wide) =
        ((IF wide
            THEN (IF "*" \in Raw(spec) THEN (Raw(spec) \ {"*"}) \cup Defaults ELSE Raw(spec))
                   \cup Discovered
            ELSE IF "*" \in Raw(spec) THEN (Raw(spec) \ {"*"}) \cup Defaults ELSE Raw(spec))
         \ Blocked)
  BY Zenon DEF ResolveToolsets, Raw
<1>2. (IF "*" \in Raw(spec) THEN (Raw(spec) \ {"*"}) \cup Defaults ELSE Raw(spec))
        = Expanded(Raw(spec))
  BY DEF Expanded
<1> QED
  BY <1>1, <1>2

\* Resolving again in the runner what the engine has resolved changes nothing.
LEMMA ResolvingTwice ==
  ASSUME NEW spec, NEW wide \in BOOLEAN
  PROVE  ResolveToolsets(ResolveToolsets({}, spec, wide), spec, FALSE)
           = ResolveToolsets({}, spec, wide)
<1> DEFINE once == ResolveToolsets({}, spec, wide)
<1>1. once = (Expanded(Raw(spec)) \cup (IF wide THEN Discovered ELSE {})) \ Blocked
  BY ResolvedFrom
<1>2. "*" \notin once
  BY <1>1, ChildToolsAssumption DEF Expanded, Discovered
<1>3. once \cap Blocked = {}
  BY <1>1
<1> HIDE DEF once
<1>4. CASE once = {}
  <2>1. Expanded(Raw(spec)) \ Blocked = {}
    BY <1>1, <1>4
  <2>2. ResolveToolsets({}, spec, FALSE) = Expanded(Raw(spec)) \ Blocked
    BY ResolvedFrom
  <2>3. ResolveToolsets(once, spec, FALSE) = {}
    BY <2>1, <2>2, <1>4
  <2> QED
    BY <2>3, <1>4 DEF once
<1>5. CASE once # {}
  <2>1. ResolveToolsets(once, spec, FALSE) = once \ Blocked
    BY <1>2, <1>5, Zenon DEF ResolveToolsets
  <2> QED
    BY <2>1, <1>3 DEF once
<1> QED
  BY <1>4, <1>5
-----------------------------------------------------------------------------
LEMMA ToolsInitKeeps == ToolsInit => CInv
<1> SUFFICES ASSUME ToolsInit PROVE CInv
  OBVIOUS
<1>1. Proper(Plain)
  BY SurfacesProper
<1>2. CallInv
  BY <1>1 DEF ToolsInit, CallInv, Origins
<1> QED
  BY <1>2 DEF ToolsInit, CInv, SurfaceInv, OfferInv

LEMMA ResolveKeeps ==
  ASSUME NEW typed \in BOOLEAN, NEW opts, NEW schema \in BOOLEAN, NEW origin \in Origins,
         NEW data, Proper(opts), Proper(data), Resolve(typed, opts, schema, origin, data)
  PROVE  CInv'
<1>1. /\ asked' = [typed |-> typed, opts |-> opts, schema |-> schema]
      /\ preset' = [origin |-> origin, data |-> data]
      /\ prepared' = "resolved"
  BY DEF Resolve
<1>2. asked'.typed = typed /\ asked'.opts = opts /\ asked'.schema = schema
  BY <1>1
<1>3. preset'.origin = origin /\ preset'.data = data
  BY <1>1
<1>4. CallInv'
  BY <1>2, <1>3 DEF CallInv
<1>5. effective' = Compose(Load(preset'.origin, preset'.data), asked'.opts)
  BY <1>2, <1>3, Zenon DEF Resolve
<1>6. surface' = Reached'
  BY <1>2, <1>3, Zenon DEF Resolve, Reached
<1> QED
  BY <1>1, <1>4, <1>5, <1>6 DEF CInv, SurfaceInv, OfferInv

LEMMA ToolsStepKeeps == CInv /\ [ToolsNext]_toolVars => CInv'
<1> SUFFICES ASSUME CInv, [ToolsNext]_toolVars PROVE CInv'
  OBVIOUS
<1>1. CASE ResolveRuntime
  BY <1>1, ResolveKeeps, SurfacesProper DEF ResolveRuntime, Origins
<1>2. CASE ResolveFile
  BY <1>2, ResolveKeeps, SurfacesProper DEF ResolveFile, Origins
<1>3. CASE ResolveGeneric
  BY <1>3, ResolveKeeps, SurfacesProper DEF ResolveGeneric, Origins
<1>4. CASE UnknownType
  BY <1>4 DEF UnknownType, CInv, CallInv, SurfaceInv, OfferInv
<1>5. CASE Prepare
  <2>1. surface = Reached
    BY <1>5 DEF Prepare, CInv, SurfaceInv
  <2>2. Widens(asked.typed, asked.opts, preset.origin, effective) \in BOOLEAN
    BY DEF CInv, CallInv, Widens
  <2>3. ResolveToolsets(surface, effective, FALSE) = Reached
    BY <2>1, <2>2, ResolvingTwice DEF Reached
  <2>4. Reached' = Reached /\ UNCHANGED <<asked, preset, effective>>
    BY <1>5 DEF Prepare, Reached
  <2>5. surface' = Reached' \cup (IF asked'.schema THEN {Structured} ELSE {})
    BY <1>5, <2>3, <2>4 DEF Prepare
  <2> QED
    BY <1>5, <2>4, <2>5 DEF Prepare, CInv, CallInv, SurfaceInv, OfferInv
<1>6. CASE ConfigureTools
  <2>1. UNCHANGED <<asked, preset, effective, surface>> /\ Reached' = Reached
    BY <1>6 DEF ConfigureTools, Reached
  <2>2. offered' = Filter(Definitions)'
    BY <1>6, <2>1 DEF ConfigureTools, Filter, Definitions
  <2>3. \E given \in SUBSET Definitions' : offered' = Filter(given)'
    BY <2>2 DEF Filter, Definitions
  <2>4. OfferInv'
    BY <1>6, <2>2, <2>3 DEF ConfigureTools, OfferInv
  <2> QED
    BY <1>6, <2>1, <2>4 DEF ConfigureTools, CInv, CallInv, SurfaceInv
<1>7. CASE ConfigureByHand
  <2>1. UNCHANGED <<asked, preset, effective, surface>> /\ Reached' = Reached
    BY <1>7 DEF ConfigureByHand, Reached
  <2>2. \E given \in SUBSET Definitions' : offered' = Filter(given)'
    BY <1>7, <2>1 DEF ConfigureByHand, Filter, Definitions
  <2>3. OfferInv'
    BY <1>7, <2>2 DEF ConfigureByHand, OfferInv
  <2> QED
    BY <1>7, <2>1, <2>3 DEF ConfigureByHand, CInv, CallInv, SurfaceInv
<1>8. CASE Specialize
  <2>1. /\ UNCHANGED <<asked, preset, effective, surface, offered, assembled>>
        /\ prepared = "configured" /\ prepared' \in {"ready", "broken"}
        /\ prepared' = "ready" => (asked.schema => Output \in offered)
    BY <1>8 DEF Specialize
  <2>2. Reached' = Reached
    BY <2>1 DEF Reached
  <2>3. OfferInv'
    BY <2>1 DEF CInv, OfferInv, Filter, Definitions
  <2> QED
    BY <2>1, <2>2, <2>3 DEF CInv, CallInv, SurfaceInv
<1>9. CASE UNCHANGED toolVars
  BY <1>9 DEF toolVars, CInv, CallInv, SurfaceInv, OfferInv, Reached, Filter, Definitions
<1> QED
  BY <1>1, <1>2, <1>3, <1>4, <1>5, <1>6, <1>7, <1>8, <1>9 DEF ToolsNext
-----------------------------------------------------------------------------
(* What the invariant says of a child that is ready.                       *)

\* The toolsets reached are those granted and installed, without the blocked ones.
LEMMA ReachedIsGranted ==
  ASSUME CInv, prepared = "ready"
  PROVE  /\ Reached = (Granted \cup Installed) \ (Blocked \cup {Structured})
         /\ Reached \subseteq Toolsets \ {Structured}
<1> DEFINE opts == asked.opts
           data == preset.data
           wide == Widens(asked.typed, opts, preset.origin, effective)
<1>1. /\ effective = Compose(Load(preset.origin, data), opts)
      /\ Proper(opts) /\ Proper(data) /\ preset.origin \in Origins
      /\ asked.typed \in BOOLEAN
  BY DEF CInv, CallInv, SurfaceInv
<1>2. /\ effective.toolsets = IF opts.toolsets.form = "list" THEN opts.toolsets.names
                              ELSE data.toolsets.names
      /\ effective.exact <=> (Declares(preset.origin, data.toolsets) \/ opts.toolsets.form = "list")
      /\ effective.limits <=> (Declares(preset.origin, data.allowed) \/ opts.allowed.form = "list")
      /\ effective.denied = data.denied.names \cup opts.denied.names
  BY <1>1 DEF Compose, Load
<1>3. ~Declares(preset.origin, data.toolsets) => data.toolsets.names = {}
  BY <1>1 DEF Declares, Proper
<1> HIDE DEF opts, data
<1>4. Expanded(Raw(effective)) = Granted
  <2>1. CASE opts.toolsets.form = "list"
    BY <1>2, <2>1 DEF Raw, Expanded, Granted, opts
  <2>2. CASE opts.toolsets.form # "list" /\ Declares(preset.origin, data.toolsets)
    BY <1>2, <2>2 DEF Raw, Expanded, Granted, opts, data
  <2>3. CASE opts.toolsets.form # "list" /\ ~Declares(preset.origin, data.toolsets)
    <3>1. Raw(effective) = Defaults
      BY <1>2, <1>3, <2>3 DEF Raw
    <3>2. Expanded(Defaults) = Defaults
      BY ChildToolsAssumption DEF Expanded
    <3> QED
      BY <3>1, <3>2, <2>3 DEF Granted, opts, data
  <2> QED
    BY <2>1, <2>2, <2>3
<1>5. Granted \subseteq Toolsets \ {Structured} /\ Installed \subseteq Toolsets
  BY <1>1, ChildToolsAssumption DEF Granted, Installed, Proper, opts, data
<1>6. wide <=> ~(asked.typed \/ HasSurface(opts) \/ (preset.origin = "meta" /\ LimitsTools(data)))
  <2>1. CASE HasSurface(opts)
    BY <2>1 DEF Widens
  <2>2. CASE ~HasSurface(opts)
    <3>1. opts.toolsets.form # "list" /\ opts.allowed.form # "list" /\ opts.denied.form # "list"
      BY <2>2 DEF HasSurface
    <3>2. opts.denied.names = {}
      BY <1>1, <3>1 DEF Proper
    <3>3. preset.origin = "meta" => (SpecHasSurface(effective) <=> LimitsTools(data))
      BY <1>2, <3>1, <3>2 DEF SpecHasSurface, LimitsTools, Declares
    <3> QED
      BY <2>2, <3>3 DEF Widens
  <2> QED
    BY <2>1, <2>2
<1>7. wide \in BOOLEAN
  BY DEF Widens
<1>8. Installed = IF wide THEN Discoverable ELSE {}
  BY <1>6 DEF Installed, opts, data
<1> HIDE DEF wide
<1>9. Reached = (Granted \cup (IF wide THEN Discovered ELSE {})) \ Blocked
  BY <1>4, <1>7, ResolvedFrom DEF Reached, wide, opts
<1> QED
  BY <1>5, <1>8, <1>9 DEF Discovered

\* The filter lets through what both allowlists have and no denylist.
LEMMA FilterPermits ==
  ASSUME CInv, prepared = "ready", NEW t, t # Output
  PROVE  (/\ effective.limits \/ effective.allowed # {} => t \in effective.allowed \cup {Output}
          /\ t \notin effective.denied \ {Output})
         <=> /\ Declares(preset.origin, preset.data.allowed) => t \in preset.data.allowed.names
             /\ asked.opts.allowed.form = "list" => t \in asked.opts.allowed.names
             /\ t \notin preset.data.denied.names \cup asked.opts.denied.names
<1> DEFINE opts == asked.opts
           data == preset.data
           limits == Declares(preset.origin, data.allowed)
<1>1. effective = Compose(Load(preset.origin, data), opts) /\ Proper(opts) /\ Proper(data)
  BY DEF CInv, CallInv, SurfaceInv
<1>2. ~limits => data.allowed.names = {}
  BY <1>1 DEF Declares, Proper
<1> HIDE DEF opts, data, limits
<1>3. /\ effective.limits <=> limits \/ opts.allowed.form = "list"
      /\ effective.denied = data.denied.names \cup opts.denied.names
      /\ effective.allowed = IF opts.allowed.form # "list" THEN data.allowed.names
                             ELSE IF limits THEN data.allowed.names \cap opts.allowed.names
                             ELSE opts.allowed.names
  BY <1>1 DEF Compose, Load, Allowlist, limits
<1>4. (effective.limits \/ effective.allowed # {} => t \in effective.allowed \cup {Output})
        <=> (limits => t \in data.allowed.names)
            /\ (opts.allowed.form = "list" => t \in opts.allowed.names)
  BY <1>2, <1>3
<1> QED
  BY <1>3, <1>4 DEF opts, data, limits

LEMMA ReadyChildHasItsTools == CInv => ToolsHold
<1> SUFFICES ASSUME CInv, prepared = "ready"
             PROVE  /\ offered \ {Output} \subseteq Permitted
                    /\ assembled => Permitted \ {Output} \subseteq offered
                    /\ Output \in offered <=> asked.schema
  BY DEF ToolsHold
<1>1. /\ Reached = (Granted \cup Installed) \ (Blocked \cup {Structured})
      /\ Reached \subseteq Toolsets \ {Structured}
  BY ReachedIsGranted
<1>2. surface = Reached \cup (IF asked.schema THEN {Structured} ELSE {})
  BY DEF CInv, SurfaceInv
<1>3. /\ \E given \in SUBSET Definitions : offered = Filter(given)
      /\ assembled => offered = Filter(Definitions)
      /\ asked.schema => Output \in offered
  BY DEF CInv, OfferInv
<1>4. ToolsOf[Structured] = {Output} /\ Structured \notin Blocked
  BY ChildToolsAssumption
<1>5. Reached \cap Blocked = {}
  BY <1>1
<1>6. \A t : t # Output => (t \in Definitions <=> \E s \in Reached : t \in ToolsOf[s])
  BY <1>2, <1>4, <1>5 DEF Definitions
<1>7. ASSUME NEW t, t # Output
      PROVE  t \in Permitted <=> t \in Filter(Definitions)
  BY <1>1, <1>6, <1>7, FilterPermits DEF Permitted, Filter
<1>8. offered \ {Output} \subseteq Permitted
  BY <1>3, <1>7 DEF Filter
<1>9. assembled => Permitted \ {Output} \subseteq offered
  BY <1>3, <1>7
<1>10. ASSUME Output \in offered PROVE asked.schema
  <2>1. Output \in Definitions
    BY <1>3, <1>10 DEF Filter
  <2>2. PICK s \in surface : Output \in ToolsOf[s]
    BY <2>1 DEF Definitions
  <2> QED
    BY <1>1, <1>2, <2>2, ChildToolsAssumption
<1> QED
  BY <1>3, <1>8, <1>9, <1>10
-----------------------------------------------------------------------------
\* Whatever the registry, the configuration, the preset and the options of the call: the
\* tools of a child that starts are those its preset and its call permit together, and
\* structured_output is one of them exactly when the call has a schema.
THEOREM ToolsCorrect == ToolsSpec => []ToolsHold
<1> QED
  BY ToolsInitKeeps, ToolsStepKeeps, ReadyChildHasItsTools, PTL DEF ToolsSpec
-----------------------------------------------------------------------------
(* StructuredOutput.                                                       *)
\* The reference count is the number of children in scope, and the entry is ours while it
\* is not zero.
RegistryInv ==
  /\ IsFiniteSet(InScope)
  /\ users = Cardinality(InScope)
  /\ users > 0 <=> entry = "ours"
  /\ owned <=> entry = "ours"

\* A child is unknown to the broker until it is registered, and after it was cleared
\* unless a thread of it was left behind; a valid submission of a conversation is still
\* in the broker when the conversation is judged.
Fresh(k) ==
  /\ k \notin expected \cup stored \cup bothered /\ inCheck[k] = {}
  /\ tries[k] = 0 /\ captured[k] = 0 /\ convs[k] = 0

ChildInv(k) ==
  /\ captured[k] <= MaxRetries /\ convs[k] <= MaxRetries
  /\ kid[k] \in {"idle", "building"} => Fresh(k)
  /\ kid[k] \in {"idle", "building", "talking", "returned"} => verdict[k] = "none"
  /\ (kid[k] \in {"talking", "returned"} /\ k \in stored) => captured[k] # 0
  /\ (kid[k] # "talking" /\ k \notin bothered) => inCheck[k] = {}
  /\ (kid[k] \in {"scoped", "gone"} /\ k \notin bothered) =>
       k \notin expected /\ tries[k] = 0 /\ captured[k] = 0
  /\ (verdict[k] = "answer" /\ kid[k] = "closing") => captured[k] # 0
  /\ verdict[k] \in {"spent", "gaveup"} => k \notin stored

SInv == StructuredTypeOK /\ RegistryInv /\ \A k \in Kids : ChildInv(k)
-----------------------------------------------------------------------------
LEMMA StructuredInitInv == StructuredInit => SInv
  <1> SUFFICES ASSUME StructuredInit PROVE SInv
    OBVIOUS
  <1> USE StructuredAssumption DEF StructuredInit
  <1>1. StructuredTypeOK
    <2>1. ToolTypeOK
      BY DEF ToolTypeOK
    <2>2. TalkTypeOK
      BY DEF TalkTypeOK, Steps, Verdicts
    <2> QED
      BY <2>1, <2>2 DEF StructuredTypeOK
  <1>2. RegistryInv
    <2>1. InScope = {}
      BY DEF InScope
    <2> QED
      BY <2>1, FS_EmptySet DEF RegistryInv
  <1>3. \A k \in Kids : ChildInv(k)
    BY DEF ChildInv, Fresh
  <1> QED
    BY <1>1, <1>2, <1>3 DEF SInv


\* A child that leaves is one of those counted.
LEMMA LeaverCounted ==
  ASSUME RegistryInv, NEW k \in InScope
  PROVE  users \in Nat /\ users > 0
  BY FS_CardinalityType, FS_EmptySet DEF RegistryInv

LEMMA StructuredNextTypeOK ==
  SInv /\ [StructuredNext]_structuredVars => StructuredTypeOK'
  <1> SUFFICES ASSUME SInv, [StructuredNext]_structuredVars PROVE StructuredTypeOK'
    OBVIOUS
  <1>0. StructuredTypeOK /\ RegistryInv
    BY DEF SInv
  <1> USE StructuredAssumption DEF StructuredTypeOK, ToolTypeOK, TalkTypeOK, Moves, Decide, Ends
  <1> USE DEF registryVars, brokerVars, talkVars, endVars
  <1>1. ASSUME NEW k \in Kids, EnterScope(k) PROVE StructuredTypeOK'
    <2>1. owned' \in BOOLEAN
      BY <1>0, <1>1 DEF EnterScope
    <2>2. TalkTypeOK'
      BY <1>0, <1>1 DEF EnterScope, Steps, Verdicts
    <2>3. entry' \in {"none", "ours", "other"} /\ users' \in Nat
      BY <1>0, <1>1 DEF EnterScope
    <2> QED
      BY <1>0, <1>1, <2>1, <2>2, <2>3 DEF EnterScope
  <1>2. ASSUME NEW k \in Kids, LeaveScope(k) PROVE StructuredTypeOK'
    <2>1. k \in InScope
      BY <1>2 DEF LeaveScope, InScope
    <2>2. users > 0
      BY <1>0, <2>1, LeaverCounted
    <2> QED
      <3>1. owned' \in BOOLEAN /\ entry' \in {"none", "ours", "other"}
        BY <1>0, <1>2 DEF LeaveScope
      <3>2. users' \in Nat
        BY <1>0, <1>2, <2>2 DEF LeaveScope
      <3>3. TalkTypeOK'
        BY <1>0, <1>2 DEF LeaveScope, Steps
      <3> QED
        BY <1>0, <1>2, <3>1, <3>2, <3>3 DEF LeaveScope
  <1>3. ASSUME NEW k \in Kids, Register(k) PROVE StructuredTypeOK'
    BY <1>0, <1>3 DEF Register, Steps, Verdicts
  <1>4. ASSUME NEW k \in Kids, CountCall(k) PROVE StructuredTypeOK'
    <2>1. tries' \in [Kids -> Nat]
      BY <1>0, <1>4 DEF CountCall
    <2>2. inCheck' \in [Kids -> SUBSET (1..MaxRetries)]
      <3>1. tries'[k] = tries[k] + 1 /\ tries[k] \in Nat
        BY <1>0, <1>4 DEF CountCall
      <3>2. tries'[k] <= MaxRetries => inCheck[k] \cup {tries'[k]} \in SUBSET (1..MaxRetries)
        BY <1>0, <3>1
      <3> QED
        BY <1>0, <1>4, <3>2 DEF CountCall
    <2> QED
      BY <1>0, <1>4, <2>1, <2>2 DEF CountCall
  <1>5. ASSUME NEW k \in Kids, NEW n \in inCheck[k], StoreCall(k, n) PROVE StructuredTypeOK'
    BY <1>0, <1>5 DEF StoreCall, Checked
  <1>6. ASSUME NEW k \in Kids, NEW n \in inCheck[k], RejectCall(k, n) PROVE StructuredTypeOK'
    BY <1>0, <1>6 DEF RejectCall, Checked
  <1>7. ASSUME NEW k \in Kids, Clear(k) PROVE StructuredTypeOK'
    BY <1>0, <1>7 DEF Clear, Steps
  <1>8. ASSUME NEW k \in Kids, Interrupt(k) PROVE StructuredTypeOK'
    BY <1>0, <1>8 DEF Interrupt
  <1>9. ASSUME NEW k \in Kids, TalkEnds(k) PROVE StructuredTypeOK'
    <2>1. PICK spent \in 0..turns[k] : turns' = [turns EXCEPT ![k] = @ - spent]
      BY <1>9 DEF TalkEnds
    <2>2. turns[k] \in 0..MaxTurns /\ turns[k] - spent \in 0..MaxTurns
      BY <1>0
    <2> QED
      BY <1>0, <1>9, <2>1, <2>2 DEF TalkEnds, Steps
  <1>10. ASSUME NEW k \in Kids, TalkFails(k) PROVE StructuredTypeOK'
    BY <1>0, <1>10 DEF TalkFails, Steps, Verdicts
  <1>11. ASSUME NEW k \in Kids, Judge(k) PROVE StructuredTypeOK'
    BY <1>0, <1>11 DEF Judge, TalksOn, Steps, Verdicts
  <1>12. CASE UNCHANGED structuredVars
    BY <1>0, <1>12 DEF structuredVars
  <1> QED
    BY <1>1, <1>2, <1>3, <1>4, <1>5, <1>6, <1>7, <1>8, <1>9, <1>10, <1>11, <1>12
    DEF StructuredNext, BrokerStep, TalkStep
-----------------------------------------------------------------------------
(* The registry entry.                                                     *)

\* A child enters or leaves the scope, or moves within or outside it.
LEMMA ScopeAfterMove ==
  ASSUME TalkTypeOK, NEW k \in Kids, NEW where, Moves(k, where)
  PROVE  InScope' = IF where \in {"idle", "gone"} THEN InScope \ {k} ELSE InScope \cup {k}
  BY DEF TalkTypeOK, Moves, InScope

\* A step within the scope leaves the count alone.
LEMMA SameScope ==
  ASSUME SInv, UNCHANGED registryVars,
         \/ UNCHANGED kid
         \/ \E k \in InScope, where \in Steps \ {"idle", "gone"} : Moves(k, where)
  PROVE  RegistryInv'
  <1>1. RegistryInv /\ TalkTypeOK
    BY DEF SInv, StructuredTypeOK
  <1>2. InScope' = InScope
    <2>1. ASSUME NEW k \in InScope, NEW where \in Steps \ {"idle", "gone"}, Moves(k, where)
          PROVE  InScope' = InScope
      BY <1>1, <2>1, ScopeAfterMove DEF InScope
    <2>2. CASE UNCHANGED kid
      BY <2>2 DEF InScope
    <2> QED
      BY <2>1, <2>2
  <1> QED
    BY <1>1, <1>2 DEF RegistryInv, registryVars

LEMMA NextRegistryInv == SInv /\ [StructuredNext]_structuredVars => RegistryInv'
  <1> SUFFICES ASSUME SInv, [StructuredNext]_structuredVars PROVE RegistryInv'
    OBVIOUS
  <1>0. /\ RegistryInv /\ TalkTypeOK
        /\ entry \in {"none", "ours", "other"} /\ users \in Nat /\ owned \in BOOLEAN
    BY DEF SInv, StructuredTypeOK, ToolTypeOK
  <1>1. ASSUME NEW k \in Kids, EnterScope(k) PROVE RegistryInv'
    <2>1. k \notin InScope
      BY <1>1 DEF EnterScope, InScope
    <2>2. CASE Moves(k, "building")
      <3>1. InScope' = InScope \cup {k}
        BY <1>0, <2>2, ScopeAfterMove
      <3>2. IsFiniteSet(InScope') /\ Cardinality(InScope') = users + 1
        BY <1>0, <2>1, <3>1, FS_AddElement DEF RegistryInv
      <3>3. kid'[k] = "building"
        BY <1>0, <2>2 DEF Moves, TalkTypeOK
      <3>4. entry' = "ours" /\ users' = users + 1 /\ owned' = (owned \/ users = 0)
        BY <1>0, <1>1, <3>3 DEF EnterScope, Moves, TalkTypeOK
      <3>5. owned'
        <4>1. users = 0 \/ users > 0
          BY <1>0
        <4>2. users > 0 => owned
          BY <1>0 DEF RegistryInv
        <4> QED
          BY <3>4, <4>1, <4>2
      <3> QED
        BY <1>0, <3>2, <3>4, <3>5 DEF RegistryInv
    <2>3. CASE Moves(k, "gone") /\ UNCHANGED registryVars
      <3>1. InScope' = InScope
        BY <1>0, <2>1, <2>3, ScopeAfterMove
      <3> QED
        BY <1>0, <2>3, <3>1 DEF RegistryInv, registryVars
    <2> QED
      BY <1>1, <2>2, <2>3 DEF EnterScope
  <1>2. ASSUME NEW k \in Kids, LeaveScope(k) PROVE RegistryInv'
    <2>1. k \in InScope /\ InScope' = InScope \ {k}
      BY <1>0, <1>2, ScopeAfterMove DEF LeaveScope, InScope
    <2>2. IsFiniteSet(InScope') /\ Cardinality(InScope') = users - 1
      BY <1>0, <2>1, FS_RemoveElement DEF RegistryInv
    <2>3. users > 0 /\ entry = "ours" /\ owned
      BY <1>0, <2>1, LeaverCounted DEF RegistryInv
    <2>4. CASE users = 1
      <3>1. users' = 0 /\ entry' = "none" /\ owned' = FALSE
        BY <1>2, <2>3, <2>4 DEF LeaveScope
      <3> QED
        BY <2>2, <2>4, <3>1 DEF RegistryInv
    <2>5. CASE users # 1
      <3>1. users' = users - 1 /\ users' > 0 /\ entry' = "ours" /\ owned'
        BY <1>0, <1>2, <2>3, <2>5 DEF LeaveScope
      <3> QED
        BY <2>2, <3>1 DEF RegistryInv
    <2> QED
      BY <2>4, <2>5
  <1>3. ASSUME NEW k \in Kids, BrokerStep(k) \/ TalkStep(k) PROVE RegistryInv'
    <2>1. UNCHANGED registryVars
      BY <1>3
      DEF BrokerStep, Register, CountCall, StoreCall, RejectCall, Clear, TalkStep, Interrupt,
          TalkEnds, TalkFails, Judge
    <2>2. \/ UNCHANGED kid
          \/ /\ k \in InScope
             /\ \/ Moves(k, "talking") \/ Moves(k, "scoped") \/ Moves(k, "returned")
                \/ Moves(k, "closing")
      BY <1>3
      DEF BrokerStep, Register, CountCall, StoreCall, RejectCall, Clear, TalkStep, Interrupt,
          TalkEnds, TalkFails, Judge, TalksOn, Ends, InScope
    <2>3. {"talking", "scoped", "returned", "closing"} \subseteq Steps \ {"idle", "gone"}
      BY DEF Steps
    <2> QED
      BY <2>1, <2>2, <2>3, SameScope
  <1>4. CASE UNCHANGED structuredVars
    BY <1>4, SameScope DEF structuredVars, registryVars
  <1> QED
    BY <1>1, <1>2, <1>3, <1>4 DEF StructuredNext
-----------------------------------------------------------------------------
(* The children.                                                           *)
LEMMA NextChildInv ==
  SInv /\ [StructuredNext]_structuredVars => \A k \in Kids : ChildInv(k)'
  <1> SUFFICES ASSUME SInv, [StructuredNext]_structuredVars, NEW j \in Kids PROVE ChildInv(j)'
    OBVIOUS
  <1>0. /\ ToolTypeOK /\ TalkTypeOK
        /\ \A k \in Kids : ChildInv(k)
    BY DEF SInv, StructuredTypeOK
  <1> USE StructuredAssumption DEF ToolTypeOK, TalkTypeOK, ChildInv, Fresh, Moves, Decide, Ends
  <1> USE DEF brokerVars, talkVars, endVars
  <1>1. ASSUME NEW k \in Kids, EnterScope(k) PROVE ChildInv(j)'
    BY <1>0, <1>1 DEF EnterScope
  <1>2. ASSUME NEW k \in Kids, LeaveScope(k) PROVE ChildInv(j)'
    BY <1>0, <1>2 DEF LeaveScope
  <1>3. ASSUME NEW k \in Kids, Register(k) PROVE ChildInv(j)'
    BY <1>0, <1>3 DEF Register
  <1>4. ASSUME NEW k \in Kids, CountCall(k) PROVE ChildInv(j)'
    <2>1. kid[k] = "talking" \/ k \in bothered
      BY <1>4 DEF CountCall, Lives
    <2>2. kid[k] \notin {"idle", "building"}
      BY <1>4 DEF CountCall, Lives
    <2>3. /\ UNCHANGED <<expected, captured, kid, convs, bothered, verdict, stored>>
          /\ j # k => tries'[j] = tries[j] /\ inCheck'[j] = inCheck[j]
      BY <1>0, <1>4 DEF CountCall
    <2> QED
      BY <1>0, <2>1, <2>2, <2>3
  <1>5. ASSUME NEW k \in Kids, NEW n \in inCheck[k], StoreCall(k, n) PROVE ChildInv(j)'
    <2>1. n \in 1..MaxRetries /\ inCheck[k] # {}
      BY <1>0
    <2> QED
      BY <1>0, <1>5, <2>1 DEF StoreCall, Checked
  <1>6. ASSUME NEW k \in Kids, NEW n \in inCheck[k], RejectCall(k, n) PROVE ChildInv(j)'
    <2>1. inCheck[k] # {}
      OBVIOUS
    <2> QED
      BY <1>0, <1>6, <2>1 DEF RejectCall, Checked
  <1>7. ASSUME NEW k \in Kids, Clear(k) PROVE ChildInv(j)'
    BY <1>0, <1>7 DEF Clear
  <1>8. ASSUME NEW k \in Kids, Interrupt(k) PROVE ChildInv(j)'
    BY <1>0, <1>8 DEF Interrupt
  <1>9. ASSUME NEW k \in Kids, TalkEnds(k) PROVE ChildInv(j)'
    BY <1>0, <1>9 DEF TalkEnds
  <1>10. ASSUME NEW k \in Kids, TalkFails(k) PROVE ChildInv(j)'
    BY <1>0, <1>10 DEF TalkFails
  <1>11. ASSUME NEW k \in Kids, Judge(k) PROVE ChildInv(j)'
    BY <1>0, <1>11 DEF Judge, TalksOn, LastAttempt
  <1>12. CASE UNCHANGED structuredVars
    BY <1>0, <1>12 DEF structuredVars
  <1> QED
    BY <1>1, <1>2, <1>3, <1>4, <1>5, <1>6, <1>7, <1>8, <1>9, <1>10, <1>11, <1>12
    DEF StructuredNext, BrokerStep, TalkStep
-----------------------------------------------------------------------------
LEMMA StructuredInvHolds == StructuredSpec => []SInv
  <1>1. StructuredInit => SInv
    BY StructuredInitInv
  <1>2. SInv /\ [StructuredNext]_structuredVars => SInv'
    BY StructuredNextTypeOK, NextRegistryInv, NextChildInv DEF SInv
  <1> QED
    BY <1>1, <1>2, PTL DEF StructuredSpec

\* The shared tool entry is in the registry exactly while a child needs it, a child that
\* was let go leaves nothing in the broker, and whoever gives an answer has a valid
\* submission within its attempts (structured_output_tool_scope, _run_child).
THEOREM StructuredOutputShared == StructuredSpec => []StructuredHolds
  <1>1. SInv => StructuredHolds
    <2> SUFFICES ASSUME SInv PROVE NothingLeftBehind /\ AnswersAreDue
      BY DEF StructuredHolds
    <2>0. StructuredTypeOK /\ RegistryInv /\ \A k \in Kids : ChildInv(k)
      BY DEF SInv
    <2>1. InScope # {} <=> users > 0
      BY <2>0, FS_EmptySet, FS_CardinalityType DEF RegistryInv
    <2>2. NothingLeftBehind
      BY <2>0, <2>1 DEF NothingLeftBehind, RegistryInv, ChildInv
    <2>3. AnswersAreDue
      BY <2>0, StructuredAssumption
      DEF AnswersAreDue, ChildInv, StructuredTypeOK, ToolTypeOK
    <2> QED
      BY <2>2, <2>3
  <1> QED
    BY <1>1, StructuredInvHolds, PTL
=============================================================================
