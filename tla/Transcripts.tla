----------------------------- MODULE Transcripts -----------------------------
(***************************************************************************)
(* The transcript file of one child, kept up to date from the host's session *)
(* database while the child works (run/transcripts.py).  The host appends    *)
(* messages, deletes them, marks them inactive, and continues a session that *)
(* it has compressed in another one.  A flush reads what is new since the    *)
(* last one, or everything when the database says that more has changed, and *)
(* then appends to the file or rewrites it; its memory of what was read is   *)
(* kept before the file is written, and either step may fail.                *)
(***************************************************************************)
EXTENDS Naturals, FiniteSets, Sequences
LOCAL INSTANCE FiniteSetsExt

CONSTANTS MaxRows,        \* bound: messages the host writes
          MaxEdits,       \* bound: messages it deletes or marks
          MaxReadFaults,  \* bound: reads that fail
          MaxWriteFaults  \* bound: writes that fail

ASSUME TranscriptAssumption ==
  /\ MaxRows \in Nat /\ MaxEdits \in Nat
  /\ MaxReadFaults \in Nat /\ MaxWriteFaults \in Nat

VARIABLES
  owner,    \* the session of each message, if it is there
  enabled,  \* the messages whose column active is 1
  parted,   \* the session was compressed and has a continuation
  restored, \* a message was made active again
  edits,    \* the deletions and marks so far
  mode,     \* target.export_mode
  known,    \* target.lineage_session_ids
  states,   \* target.session_states
  lastId,   \* target.last_message_id
  signed,   \* target.transcript_signature: the messages it was made of
  pending,  \* what the flush that holds _flush_lock has read and not written
  exporter, \* "running", "stopping", "closed" or, after a failed stop, "left open"
  file,     \* the lines of the transcript
  seen,     \* what the last read would have given if it had read everything
  torn,     \* a write has failed and the file was not rewritten since
  readFaults, writeFaults

hostVars   == <<owner, enabled, parted, restored, edits>>
targetVars == <<mode, known, states, lastId, signed>>
fileVars   == <<pending, exporter, file, seen, torn>>
transcriptVars == <<hostVars, targetVars, fileVars, readFaults, writeFaults>>
-----------------------------------------------------------------------------
MessageIds == 1..MaxRows
Sessions   == {"root", "next"}
Unsigned   == <<[id |-> 0, on |-> TRUE]>>
TornLine   == [id |-> 0, on |-> FALSE]
Nothing    == [do |-> "nothing", lines |-> << >>, final |-> FALSE]

TranscriptInit ==
  /\ owner = [i \in MessageIds |-> "none"] /\ enabled = {}
  /\ parted = FALSE /\ restored = FALSE /\ edits = 0
  /\ mode = "pending" /\ known = {} /\ states = << >> /\ lastId = 0 /\ signed = Unsigned
  /\ pending = Nothing /\ exporter = "running"
  /\ file = << >> /\ seen = << >> /\ torn = FALSE
  /\ readFaults = 0 /\ writeFaults = 0
-----------------------------------------------------------------------------
(* The host's database.                                                    *)

Unwritten(i) == owner[i] = "none"
ExporterIdle == UNCHANGED <<targetVars, fileVars, readFaults, writeFaults>>

\* Identifiers grow; a compressed session has its next messages in the continuation.
AddMessage(i) ==
  /\ \A j \in i..MaxRows : Unwritten(j)
  /\ i > 1 => ~Unwritten(i - 1)
  /\ owner' = [owner EXCEPT ![i] = IF parted THEN "next" ELSE "root"]
  /\ enabled' = enabled \cup {i}
  /\ UNCHANGED <<parted, restored, edits>> /\ ExporterIdle

Edit == edits < MaxEdits /\ edits' = edits + 1

DropMessage(i) ==
  /\ Edit
  /\ owner[i] \in Sessions
  /\ owner' = [owner EXCEPT ![i] = "gone"]
  /\ enabled' = enabled \ {i}
  /\ UNCHANGED <<parted, restored>> /\ ExporterIdle

Toggle(i) ==
  /\ Edit
  /\ owner[i] \in Sessions
  /\ \/ i \in enabled /\ enabled' = enabled \ {i} /\ UNCHANGED restored
     \/ i \notin enabled /\ enabled' = enabled \cup {i} /\ restored' = TRUE
  /\ UNCHANGED <<owner, parted>> /\ ExporterIdle

Compress ==
  /\ ~parted
  /\ parted' = TRUE
  /\ UNCHANGED <<owner, enabled, restored, edits>> /\ ExporterIdle
-----------------------------------------------------------------------------
(* SessionTranscriptReader.                                                *)

Lineage == IF parted THEN Sessions ELSE {"root"}
IdsOf(s) == {i \in MessageIds : owner[i] = s}
Line(i)  == [id |-> i, on |-> i \in enabled]

\* _message_rows, in the order of their identifiers.
Nth(ids, k) == CHOOSE i \in ids : Cardinality({j \in ids : j <= i}) = k
RowsOf(ids) == [k \in 1..Cardinality(ids) |-> Line(Nth(ids, k))]
MessageRows(ss, after) == RowsOf({i \in MessageIds : owner[i] \in ss /\ i > after})

Least(ids)    == IF ids = {} THEN 0 ELSE Min(ids)
Greatest(ids) == IF ids = {} THEN 0 ELSE CHOOSE i \in ids : \A j \in ids : j <= i
SumOf(ids)    == MapThenSumSet(LAMBDA i : i, ids)

\* _session_states: one row of aggregates for each session.
StateOf(ids) ==
  [count |-> Cardinality(ids), least |-> Least(ids), greatest |-> Greatest(ids),
   onCount |-> Cardinality(ids \cap enabled), onSum |-> SumOf(ids \cap enabled)]
SessionStates == [s \in Lineage |-> StateOf(IdsOf(s))]

\* What the aggregates would be if the new rows had only been appended.
Appended(old, ids) ==
  [count |-> old.count + Cardinality(ids),
   least |-> IF old.count # 0 THEN old.least ELSE Least(ids),
   greatest |-> IF ids = {} THEN old.greatest ELSE Greatest(ids),
   onCount |-> old.onCount + Cardinality(ids \cap enabled),
   onSum |-> old.onSum + SumOf(ids \cap enabled)]

\* Mutant: only the number of messages is compared.
SameCounts(previous, current) ==
  /\ DOMAIN previous = DOMAIN current
  /\ \A s \in DOMAIN previous :
       current[s].count = Appended(previous[s], {i \in IdsOf(s) : i > lastId}).count

IsAppendOnly(previous, current) ==
  /\ DOMAIN previous = DOMAIN current
  /\ \A s \in DOMAIN previous :
       current[s] = Appended(previous[s], {i \in IdsOf(s) : i > lastId})

\* _read_incremental, in one transaction; a forced flush reads everything.
ReadIncremental(force) ==
  LET rebuild == force \/ known # Lineage \/ ~IsAppendOnly(states, SessionStates)
      lines   == MessageRows(Lineage, IF rebuild THEN 0 ELSE lastId) IN
  /\ mode' = "incremental" /\ known' = Lineage /\ states' = SessionStates
  /\ lastId' = Greatest(UNION {IdsOf(s) : s \in Lineage})
  /\ pending' = [do |-> CASE rebuild -> "rebuild"
                          [] ~rebuild /\ lines # << >> -> "append"
                          [] ~rebuild /\ lines = << >> -> "unchanged",
                 lines |-> lines, final |-> force]
  /\ seen' = MessageRows(Lineage, 0)
  /\ UNCHANGED signed

\* _read_full_fallback: the public API knows one session, and the messages are compared
\* by their signature, whether the flush is forced or not.
ReadFull(force) ==
  LET lines == MessageRows({"root"}, 0) IN
  /\ mode' = "full_fallback" /\ known' = {"root"}
  /\ signed' = lines
  /\ pending' = [do |-> IF lines = signed THEN "unchanged" ELSE "rebuild",
                 lines |-> lines, final |-> force]
  /\ seen' = lines
  /\ UNCHANGED <<states, lastId>>

ReadFault == readFaults < MaxReadFaults /\ readFaults' = readFaults + 1

\* A flush takes the lock and reads; an incremental read that failed once is not tried
\* again for this target, and its flush falls back.
Read(force) ==
  /\ pending = Nothing
  /\ exporter = (IF force THEN "stopping" ELSE "running") \/ (~force /\ exporter = "stopping")
  /\ \/ mode # "full_fallback" /\ ReadIncremental(force) /\ UNCHANGED readFaults
     \/ mode # "full_fallback" /\ ReadFault /\ ReadFull(force)
     \/ mode = "full_fallback" /\ ReadFull(force) /\ UNCHANGED readFaults
  /\ UNCHANGED <<hostVars, exporter, file, torn, writeFaults>>
-----------------------------------------------------------------------------
(* _flush_target: the file.                                                *)

Written ==
  CASE pending.do = "rebuild" -> pending.lines
    [] pending.do = "append" -> file \o pending.lines
    [] pending.do = "unchanged" -> file

\* The flush ends; the last one, of stop(), also closes the reader.
EndFlush(how) ==
  /\ pending' = Nothing
  /\ exporter' = IF pending.final THEN how ELSE exporter

Write ==
  /\ pending # Nothing
  /\ file' = Written
  /\ torn' = (torn /\ pending.do # "rebuild")
  /\ EndFlush("closed")
  /\ UNCHANGED <<hostVars, targetVars, seen, readFaults, writeFaults>>

\* A rewrite that fails leaves the old file, an append may leave a part of a line.
WriteFails ==
  /\ pending.do \in {"append", "rebuild"}
  /\ writeFaults < MaxWriteFaults /\ writeFaults' = writeFaults + 1
  /\ \/ UNCHANGED file
     \/ pending.do = "append" /\ file' = Append(file, TornLine)
  /\ torn' = TRUE
  /\ EndFlush("left open")
  /\ UNCHANGED <<hostVars, targetVars, seen, readFaults>>

\* stop(): the polling thread ends, or is left behind after two seconds.
StopExporter ==
  /\ exporter = "running"
  /\ exporter' = "stopping"
  /\ UNCHANGED <<hostVars, targetVars, pending, file, seen, torn, readFaults, writeFaults>>
-----------------------------------------------------------------------------
\* The host's steps after the last read are nothing to the file.
HostStep ==
  /\ exporter \in {"running", "stopping"}
  /\ Compress \/ \E i \in MessageIds : AddMessage(i) \/ DropMessage(i) \/ Toggle(i)
FlushStep == StopExporter \/ Write \/ WriteFails \/ \E force \in BOOLEAN : Read(force)

TranscriptNext == HostStep \/ FlushStep
TranscriptSpec == TranscriptInit /\ [][TranscriptNext]_transcriptVars
-----------------------------------------------------------------------------
(* Properties.                                                             *)

\* However little a flush has read, the file is what reading everything would have given:
\* the same messages in the same order and, as long as none is made active again, with the
\* same marks (two aggregates may agree when two messages are swapped for two others).  A
\* failed write is repaired by the exporter's last flush - but not in the fallback mode,
\* whose signature already stands for what was not written.
TranscriptFollows ==
  /\ (pending = Nothing /\ ~torn) =>
        /\ [k \in DOMAIN file |-> file[k].id] = [k \in DOMAIN seen |-> seen[k].id]
        /\ ~restored => file = seen
  /\ (exporter = "closed" /\ torn) => mode = "full_fallback"
=============================================================================
