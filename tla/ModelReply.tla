------------------------------ MODULE ModelReply ------------------------------
(***************************************************************************)
(* What the runtime makes of the text a model answers with: the search for *)
(* the result object, and its validation against the contract of           *)
(* AgentExecutionResult (runtime/src/agents/agent-execution-result.ts).    *)
(*                                                                         *)
(* A text is the sequence of its braces: at each one begins a JSON object, *)
(* or nothing that parses (None). An object is the record of its fields,   *)
(* with `keys` their number; a field that is absent is None, a list that   *)
(* is something else is NotAList, an item that is no object is None.       *)
(***************************************************************************)
EXTENDS Naturals, Sequences, SequencesExt

CONSTANTS None,      \* absent, null, empty, or not of the type asked for
          NotAList,  \* a JSON value that is no array
          Oversized  \* contents of more than MAX_FILE_CHANGE_BYTES

RESULT_KEYS == 10

\* extractJsonObject: the text itself if it is one object; else the first of its
\* objects with the most keys, and no further than the first with all of them.
ExtractJsonObject(text) ==
  LET objects == {i \in DOMAIN text.braces : text.braces[i] # None}
      keys(i) == text.braces[i].keys
      complete == {i \in objects : keys(i) >= RESULT_KEYS}
      richest == {i \in objects : \A j \in objects : keys(j) <= keys(i)}
      pool == IF complete = {} THEN richest ELSE complete
  IN  IF objects = {} THEN None
      ELSE IF text.isOneObject THEN text.braces[1]
      ELSE text.braces[CHOOSE i \in pool : \A j \in pool : i <= j]

-------------------------------------------------------------------------------
(***************************************************************************)
(* The coerce* functions: each list is absent, or a list of items that are *)
(* all acceptable. One problem anywhere rejects the whole reply.           *)
(***************************************************************************)
ItemsOf(field) == IF field = None THEN <<>> ELSE field

FileChangeAccepted(f) ==
  /\ f # None
  /\ f.path # None
  /\ f.operation \in {"create", "modify"}
  /\ f.content \notin Oversized \cup {None}

ArtifactAccepted(a) ==
  a # None /\ a.path # None /\ a.kind \in {"report", "doc", "code", "test", "plan", "evidence"}

\* The arguments of a tool call: args_json if it is a string, which must hold an
\* object of a bounded size; else the inline object; else none.
ToolCallAccepted(t) == t # None /\ t.tool # None /\ t.args_json \notin {"malformed"} \cup Oversized

ToolCall(t) ==
  [tool |-> t.tool, args |-> IF t.args_json # None THEN t.args_json ELSE t.args]

\* Evidence that names no check is passed over, whatever its result.
EvidenceAccepted(e) ==
  \/ e = None
  \/ e.check = None
  \/ e.result \in {"PASS", "FAIL", "NOT_RUN"}

\* parseModelResult: status, both summaries of three letters at least, every list.
Acceptable(o) ==
  /\ o.status \in {"PASS", "FAIL", "BLOCKED"}
  /\ o.summary /\ o.reasoningSummary
  /\ NotAList \notin {o.artifacts, o.fileChanges, o.requestedToolCalls, o.qualityEvidence}
  /\ \A a \in Range(ItemsOf(o.artifacts)) : ArtifactAccepted(a)
  /\ \A f \in Range(ItemsOf(o.fileChanges)) : FileChangeAccepted(f)
  /\ \A t \in Range(ItemsOf(o.requestedToolCalls)) : ToolCallAccepted(t)
  /\ \A e \in Range(ItemsOf(o.qualityEvidence)) : EvidenceAccepted(e)

\* The authored result of a text, or None when there are problems.
ParseModelResult(text) ==
  LET o == ExtractJsonObject(text)
  IN  IF o = None THEN None
      ELSE IF ~Acceptable(o) THEN None
      ELSE [status |-> o.status,
            fileChanges |-> ItemsOf(o.fileChanges),
            requestedToolCalls |->
              [i \in DOMAIN ItemsOf(o.requestedToolCalls) |-> ToolCall(o.requestedToolCalls[i])]]
===============================================================================
