------------------------------ MODULE ChildTools ------------------------------
(***************************************************************************)
(* Which tools a child gets: the preset that is found for it, the options of *)
(* the call laid over it, the toolsets resolved in the engine and once more  *)
(* in the runner, and the definitions handed to the child (engine/api.py,    *)
(* child/presets.py, child/runner.py, child/structured_output.py).           *)
(***************************************************************************)
EXTENDS Naturals, FiniteSets

CONSTANTS ToolsOf,         \* the registry: the tools of each toolset
          Defaults,        \* config.default_child_toolsets
          Blocked,         \* config.blocked_child_toolsets
          Discoverable,    \* toolsets of installed plugins and MCP servers
          Structured,      \* STRUCTURED_OUTPUT_TOOLSET
          Output,          \* STRUCTURED_OUTPUT_TOOL_NAME
          Excluded,        \* _CHILD_EXCLUDED_TOOL_NAMES
          PresetSurfaces,  \* what presets may declare
          InlineSurfaces   \* what calls may pass

Toolsets == DOMAIN ToolsOf
Tools    == UNION {ToolsOf[s] : s \in Toolsets}

\* A field of a preset or of the options: not there, there and null, or a list.
Fields(S) == [form : {"absent", "null"}, names : {{}}] \cup [form : {"list"}, names : SUBSET S]
Surfaces  == [toolsets : Fields(Toolsets \cup {"*"}), allowed : Fields(Tools), denied : Fields(Tools)]

ASSUME ChildToolsAssumption ==
  /\ Structured \in Toolsets \ (Blocked \cup Defaults) /\ ToolsOf[Structured] = {Output}
  /\ \A s \in Toolsets \ {Structured} : Output \notin ToolsOf[s]
  /\ Output \notin Excluded /\ "*" \notin Toolsets
  /\ Defaults \subseteq Toolsets /\ Discoverable \subseteq Toolsets /\ Blocked \subseteq Toolsets
  /\ \A s \in PresetSurfaces \cup InlineSurfaces :
       s \in Surfaces /\ Structured \notin s.toolsets.names

VARIABLES
  asked,     \* the call: does it name an agentType, its options, has it a schema
  preset,    \* the preset it got: where it came from, and what it declares
  effective, \* the AgentTypeSpec composed of the two
  surface,   \* the toolsets of the request, later those of the child
  offered,   \* child.tools
  assembled, \* the tool search assembly worked
  prepared   \* how far the call is

toolVars == <<asked, preset, effective, surface, offered, assembled, prepared>>
-----------------------------------------------------------------------------
Unset    == [form |-> "absent", names |-> {}]
Wildcard == [form |-> "list", names |-> {"*"}]
Plain    == [toolsets |-> Unset, allowed |-> Unset, denied |-> Unset]

\* generic_agent_type(), when no preset of that name exists.
Generic == [Plain EXCEPT !.toolsets = Wildcard]

\* A Markdown preset declares what has a key, the others what is not null.
Declares(origin, field) ==
  IF origin = "markdown" THEN field.form # "absent" ELSE field.form = "list"

\* AgentTypeSpec: exact and limits are toolsets_explicit and allowed_tools_explicit.
Load(origin, data) ==
  [toolsets |-> data.toolsets.names, exact |-> Declares(origin, data.toolsets),
   allowed  |-> data.allowed.names, limits |-> Declares(origin, data.allowed),
   denied   |-> data.denied.names]

\* Mutant: the allowlist of the call replaces that of the preset.
AllowlistOfTheCall(base, opts) ==
  IF opts.allowed.form # "list" THEN base.allowed ELSE opts.allowed.names

Allowlist(base, opts) ==
  IF opts.allowed.form # "list" THEN base.allowed
  ELSE IF base.limits THEN base.allowed \cap opts.allowed.names
  ELSE opts.allowed.names

Compose(base, opts) ==
  [toolsets |-> IF opts.toolsets.form = "list" THEN opts.toolsets.names ELSE base.toolsets,
   exact    |-> base.exact \/ opts.toolsets.form = "list",
   allowed  |-> Allowlist(base, opts),
   limits   |-> base.limits \/ opts.allowed.form = "list",
   denied   |-> base.denied \cup opts.denied.names]

HasSurface(opts) == \E f \in {"toolsets", "allowed", "denied"} : opts[f].form = "list"

SpecHasSurface(spec) == spec.exact \/ spec.limits \/ spec.denied # {}

\* The toolset of the structured output is registered while any child of the
\* process uses it, so it must not be discovered for a child that does not.
Discovered == Discoverable \ (Blocked \cup {Structured})

ResolveToolsets(requested, spec, discover) ==
  LET raw == IF requested # {} THEN requested
             ELSE IF spec.exact \/ spec.toolsets # {} THEN spec.toolsets ELSE Defaults
      wide == IF "*" \in raw THEN (raw \ {"*"}) \cup Defaults ELSE raw
  IN (IF discover THEN wide \cup Discovered ELSE wide) \ Blocked

\* Only a call without agentType, without options of its own for tools and
\* whose preset is not a runtime preset with tools is given what is installed.
Widens(typed, opts, origin, spec) ==
  ~typed /\ ~HasSurface(opts) /\ ~(origin = "meta" /\ SpecHasSurface(spec))
-----------------------------------------------------------------------------
ToolsInit ==
  /\ asked = [typed |-> FALSE, opts |-> Plain, schema |-> FALSE]
  /\ preset = [origin |-> "builtin", data |-> Plain] /\ effective = Load("builtin", Plain)
  /\ surface = {} /\ offered = {} /\ assembled = FALSE /\ prepared = "idle"

\* _resolve_agent_spec() with the preset of the name, or general-purpose.
Resolve(typed, opts, schema, origin, data) ==
  /\ prepared = "idle" /\ prepared' = "resolved"
  /\ asked' = [typed |-> typed, opts |-> opts, schema |-> schema]
  /\ preset' = [origin |-> origin, data |-> data]
  /\ effective' = Compose(Load(origin, data), opts)
  /\ surface' = ResolveToolsets({}, effective', Widens(typed, opts, origin, effective'))
  /\ UNCHANGED <<offered, assembled>>

\* meta["agents"] comes first ...
ResolveRuntime ==
  \E typed \in BOOLEAN, opts \in InlineSurfaces, schema \in BOOLEAN, data \in PresetSurfaces :
    Resolve(typed, opts, schema, "meta", data)

\* ... then the files of the project, the user and the plugin.
ResolveFile ==
  \E typed \in BOOLEAN, opts \in InlineSurfaces, schema \in BOOLEAN,
     kind \in {"markdown", "json"}, data \in PresetSurfaces :
       Resolve(typed, opts, schema, kind, data)

\* No preset has the name: general-purpose by default or with fallback_warn.
ResolveGeneric ==
  \E typed \in BOOLEAN, opts \in InlineSurfaces, schema \in BOOLEAN :
    Resolve(typed, opts, schema, "builtin", Generic)

\* missing_agent_type_policy: error.
UnknownType ==
  /\ prepared = "idle" /\ prepared' = "refused"
  /\ UNCHANGED <<asked, preset, effective, surface, offered, assembled>>

\* HermesChildAgentRunner.run() resolves again what the request carries.
Prepare ==
  /\ prepared = "resolved" /\ prepared' = "requested"
  /\ surface' = ResolveToolsets(surface, effective, FALSE)
                  \cup (IF asked.schema THEN {Structured} ELSE {})
  /\ UNCHANGED <<asked, preset, effective, offered, assembled>>

Definitions == UNION {ToolsOf[s] : s \in surface \ Blocked}

\* structured_output passes every allowlist and every denylist.
Filter(definitions) ==
  {t \in definitions \ Excluded :
     /\ effective.limits \/ effective.allowed # {} => t \in effective.allowed \cup {Output}
     /\ t \notin effective.denied \ {Output}}

\* _configure_child_tools(): the definitions of the registry, assembled ...
ConfigureTools ==
  /\ prepared = "requested" /\ prepared' = "configured"
  /\ offered' = Filter(Definitions) /\ assembled' = TRUE
  /\ UNCHANGED <<asked, preset, effective, surface>>

\* ... or, when that fails, what create_child() gave the child of them.
ConfigureByHand ==
  /\ prepared = "requested" /\ prepared' = "configured"
  /\ \E given \in SUBSET Definitions : offered' = Filter(given)
  /\ assembled' = FALSE
  /\ UNCHANGED <<asked, preset, effective, surface>>

\* specialize_structured_output_tool() raises when the child has no such tool.
Specialize ==
  /\ prepared = "configured"
  /\ prepared' = IF asked.schema => Output \in offered THEN "ready" ELSE "broken"
  /\ UNCHANGED <<asked, preset, effective, surface, offered, assembled>>

ToolsNext ==
  \/ ResolveRuntime \/ ResolveFile \/ ResolveGeneric \/ UnknownType
  \/ Prepare \/ ConfigureTools \/ ConfigureByHand \/ Specialize

ToolsSpec == ToolsInit /\ [][ToolsNext]_toolVars
-----------------------------------------------------------------------------
ToolsTypeOK ==
  /\ surface \subseteq Toolsets /\ offered \subseteq Tools /\ assembled \in BOOLEAN
  /\ prepared \in {"idle", "resolved", "refused", "requested", "configured", "ready", "broken"}

\* What README.md:222-231 promises of the tools, from the call and the preset alone.
Granted ==
  LET listed(names) == (names \ {"*"}) \cup (IF "*" \in names THEN Defaults ELSE {})
  IN IF asked.opts.toolsets.form = "list" THEN listed(asked.opts.toolsets.names)
     ELSE IF Declares(preset.origin, preset.data.toolsets) THEN listed(preset.data.toolsets.names)
     ELSE Defaults

LimitsTools(data) ==
  data.toolsets.form = "list" \/ data.allowed.form = "list" \/ data.denied.names # {}

Installed ==
  IF asked.typed \/ HasSurface(asked.opts)
     \/ (preset.origin = "meta" /\ LimitsTools(preset.data))
  THEN {} ELSE Discoverable

Permitted ==
  {t \in UNION {ToolsOf[s] : s \in (Granted \cup Installed) \ (Blocked \cup {Structured})} :
     /\ Declares(preset.origin, preset.data.allowed) => t \in preset.data.allowed.names
     /\ asked.opts.allowed.form = "list" => t \in asked.opts.allowed.names
     /\ t \notin preset.data.denied.names \cup asked.opts.denied.names \cup Excluded}

\* The tools of a child that starts are those its preset and its call permit
\* together: lists of toolsets are exact, allowlists intersect, denylists unite,
\* blocked toolsets win, and structured_output is there exactly with a schema.
\* A child configured by hand may have fewer, never others.  The toolsets are
\* resolved twice, by two files, and the lists are merged by a third.
ToolsHold ==
  prepared = "ready" =>
    /\ offered \ {Output} \subseteq Permitted
    /\ assembled => Permitted \ {Output} \subseteq offered
    /\ Output \in offered <=> asked.schema
=============================================================================
