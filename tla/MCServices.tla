------------------------------ MODULE MCServices ------------------------------
(***************************************************************************)
(* The components around the engine that share no variable with each other: *)
(* a behaviour is one of one of them, the part, and the others stand still.  *)
(***************************************************************************)
EXTENDS StructuredOutput, Approvals, Transcripts, ScriptCalls, ChildTools

CONSTANTS k1, k2, a1, a2, t1, t2, l1, l2, main

\* k1 submits often enough to use up its attempts; k2 shares the tool with it.
KidCalls == [k \in Kids |-> IF k = k1 THEN 3 ELSE 0]

Registry == [s \in {"file", "web", "mcp", "workflow", "structured"} |->
  CASE s = "file" -> {"read", "write"}
    [] s = "web" -> {"fetch", "skill_manage"}
    [] s = "mcp" -> {"query"}
    [] s = "workflow" -> {"launch"}
    [] s = "structured" -> {"output"}]

Omit == [form |-> "absent", names |-> {}]
Null == [form |-> "null", names |-> {}]
These(S) == [form |-> "list", names |-> S]

\* Presets with no, a null, a wildcard and a partly blocked list of toolsets, and
\* calls that inherit it, replace it by nothing or by a wider one.
Presets ==
  [toolsets : {Omit, Null, These({"*"}), These({"file", "workflow"})},
   allowed  : {Omit, Null, These({"read", "query"})},
   denied   : {Omit, These({}), These({"write", "output"})}]
Inlines ==
  [toolsets : {Null, These({}), These({"*", "mcp"})},
   allowed  : {Omit, These({"read", "fetch"})},
   denied   : {Omit, These({"read"})}]

VARIABLE part

servicesVars ==
  <<part, structuredVars, approvalVars, transcriptVars, scriptVars, toolVars>>

MCInit ==
  /\ part \in {"structured", "approvals", "transcripts", "script", "tools"}
  /\ StructuredInit /\ ApprovalsInit /\ TranscriptInit /\ ScriptInit /\ ToolsInit
  /\ entry = "other" => part = "structured"

Structure == part = "structured" /\ StructuredNext /\ UNCHANGED
  <<part, approvalVars, transcriptVars, scriptVars, toolVars>>
Approve == part = "approvals" /\ ApprovalsNext /\ UNCHANGED
  <<part, structuredVars, transcriptVars, scriptVars, toolVars>>
Transcribe == part = "transcripts" /\ TranscriptNext /\ UNCHANGED
  <<part, structuredVars, approvalVars, scriptVars, toolVars>>
RunScript == part = "script" /\ ScriptNext /\ UNCHANGED
  <<part, structuredVars, approvalVars, transcriptVars, toolVars>>
ChooseTools == part = "tools" /\ ToolsNext /\ UNCHANGED
  <<part, structuredVars, approvalVars, transcriptVars, scriptVars>>

MCNext == Structure \/ Approve \/ Transcribe \/ RunScript \/ ChooseTools

MCSpec == MCInit /\ [][MCNext]_servicesVars
=============================================================================
