---------------------------- MODULE OutputParser ----------------------------
(***************************************************************************)
(* The output parser engine (parser/engine/parser_engine.py): it turns the *)
(* semantic events of the lexer into the deltas of a streamed reply, and   *)
(* the events of a whole output into a parsed reply.                       *)
(*                                                                         *)
(* The parser is an object with mutable fields.  Here it is a record, and  *)
(* a method is an operator from the record to the new record.              *)
(*                                                                         *)
(* Texts are sequences of atoms.  An atom of content or reasoning is       *)
(* <<kind, n>>, "w" for a blank and "x" for any other, and n tells it from *)
(* all others.  The raw body of a tool call is <<"key", k>>, <<"chr", n>>  *)
(* and <<"end">>: a parameter is opened, gets a character, is closed.  The *)
(* atoms of JSON are below.                                                *)
(***************************************************************************)
EXTENDS Naturals, FiniteSets, Sequences, SequencesExt

CONSTANTS
  ValidNames,   \* the names of the request's tools
  StringKeys    \* the parameters that the schema says are strings

NoName == <<>>

(* A tool call that is being assembled.  `json` is `streamed_json`. *)
NewSlot == [id |-> 0, name |-> NoName, args |-> <<>>, sent |-> FALSE, json |-> <<>>]

(* The state of a new parser, and what _reset leaves.  `ids` is the         *)
(* history_tool_call_cnt that the identifiers of calls are made from.       *)
NewParser ==
  [slots |-> <<>>, content |-> <<>>, reasoning |-> <<>>,
   nonws |-> FALSE, ended |-> FALSE, ids |-> 1]

-----------------------------------------------------------------------------
(* Blanks. *)

Blank(a) == a[1] = "w"
NonBlank(s) == SelectSeq(s, LAMBDA a : ~Blank(a))
AllBlank(s) == NonBlank(s) = <<>>

(* str.rstrip, and the blanks it takes away *)
RStrip(s) ==
  LET n == SelectLastInSeq(s, LAMBDA a : ~Blank(a)) IN SubSeq(s, 1, n)
TrailingBlanks(s) == SubSeq(s, Len(RStrip(s)) + 1, Len(s))
LStrip(s) == Reverse(RStrip(Reverse(s)))

-----------------------------------------------------------------------------
(* JSON: one atom for a brace, a comma, a key with its colon, a quote, a    *)
(* character of a string, a coerced value and the placeholder null.         *)

Open == <<"{">>
Close == <<"}">>
Comma == <<",">>
Quote == <<"quote">>
Null == <<"null">>
Key(k) == <<"key", k>>
Number(v) == <<"num", v>>

(* json.loads accepts it: the states are those of an object of plain values. *)
ParseStep(q, a) ==
  CASE q = "start" /\ a = Open -> "open"
    [] q \in {"open", "comma"} /\ a[1] = "key" -> "key"
    [] q = "key" /\ a[1] \in {"num", "null"} -> "value"
    [] q = "key" /\ a = Quote -> "string"
    [] q = "string" /\ a[1] = "chr" -> "string"
    [] q = "string" /\ a = Quote -> "value"
    [] q = "value" /\ a = Comma -> "comma"
    [] q \in {"open", "value"} /\ a = Close -> "done"
    [] OTHER -> "bad"
ParseState(json) == FoldLeft(ParseStep, "start", json)
Parses(json) == ParseState(json) = "done"

(* The parameters of a raw body, in order: key, value, closed. *)
ParamStep(ps, a) ==
  CASE a[1] = "key" -> Append(ps, [key |-> a[2], val |-> <<>>, closed |-> FALSE])
    [] a[1] = "chr" -> [ps EXCEPT ![Len(ps)].val = Append(@, a)]
    [] a[1] = "end" -> [ps EXCEPT ![Len(ps)].closed = TRUE]
Params(args) == FoldLeft(ParamStep, <<>>, args)

(* A parameter as JSON after _fix_arg_types: strings stay, others are       *)
(* coerced to the type the schema wants.                                    *)
ParamJson(p) ==
  IF p.key \in StringKeys
  THEN <<Key(p.key), Quote>> \o p.val \o <<Quote>>
  ELSE <<Key(p.key), Number(p.val)>>

ObjectJson(ps) ==
  <<Open>> \o FoldLeft(LAMBDA s, p : s \o (IF s = <<>> THEN <<>> ELSE <<Comma>>) \o ParamJson(p),
                       <<>>, ps)
           \o <<Close>>

(* The format's arg_converter followed by _fix_arg_types.  A partial        *)
(* conversion holds the parameter that is still open, a final one drops it. *)
Convert(args, partial) ==
  ObjectJson(SelectSeq(Params(args), LAMBDA p : p.closed \/ partial))

(* Mutant: everything up to the closing brace counts as stable. *)
PrefixOfWhole(json) == SubSeq(json, 1, Len(json) - 1)

(* _safe_arg_prefix: the part of the JSON that later text cannot change: up *)
(* to the closing quote of a last value that is a string, otherwise up to   *)
(* the last comma.                                                          *)
SafeArgPrefix(json) ==
  LET key == SelectLastInSeq(json, LAMBDA a : a[1] = "key")
      comma == SelectLastInSeq(json, LAMBDA a : a = Comma)
  IN CASE key = 0 -> <<>>
       [] key > 0 /\ json[key + 1] = Quote /\ json[key][2] \in StringKeys ->
            SubSeq(json, 1, Len(json) - 2)
       [] OTHER -> IF comma = 0 THEN <<>> ELSE SubSeq(json, 1, comma - 1)

(* _json_prefix_terminator: what makes a prefix parse, or nothing *)
Terminator(prefix) ==
  LET q == ParseState(prefix)
      suffix == (CASE q = "string" -> <<Quote>> [] q = "key" -> <<Null>> [] OTHER -> <<>>)
                \o (IF q = "done" THEN <<>> ELSE <<Close>>)
  IN IF Parses(prefix \o suffix) THEN suffix ELSE <<>>

-----------------------------------------------------------------------------
(* Deltas of tool calls.  An absent name, id or argument is NoName, 0, <<>>. *)

CallDelta(i, id, name, args) == [index |-> i, id |-> id, name |-> name, args |-> args]

(* _coalesce_tool_call_deltas *)
MergeCall(merged, d) ==
  LET k == SelectInSeq(merged, LAMBDA m : m.index = d.index)
  IN IF k = 0 THEN Append(merged, d)
     ELSE [merged EXCEPT ![k] =
             [@ EXCEPT !.id = IF @ = 0 THEN d.id ELSE @,
                       !.name = IF @ = NoName THEN d.name ELSE @,
                       !.args = @ \o d.args]]
Coalesce(calls) == FoldLeft(MergeCall, <<>>, calls)

Accepted(name) == name # NoName /\ name \in ValidNames

(* _ensure_tool_id *)
EnsureId(ps, i) ==
  IF ps.slots[i].id # 0 THEN ps
  ELSE [ps EXCEPT !.slots[i].id = ps.ids, !.ids = @ + 1]

(* _ensure_slot *)
EnsureSlot(ps, i) ==
  IF Len(ps.slots) >= i THEN ps
  ELSE [ps EXCEPT !.slots = @ \o [j \in 1..(i - Len(@)) |-> NewSlot]]

(* _emit_name_delta: the name goes out once it is known and valid.  `args`  *)
(* goes with it when the call ends before its name was sent.                *)
EmitName(acc, i, args) ==
  IF ~Accepted(acc.ps.slots[i].name) THEN acc
  ELSE LET ps == EnsureId([acc.ps EXCEPT !.slots[i].sent = TRUE], i)
       IN [acc EXCEPT !.ps = ps,
                      !.calls = Append(@, CallDelta(i, ps.slots[i].id, ps.slots[i].name, args))]

EmitArgs(acc, i, args) ==
  IF args = <<>> THEN acc
  ELSE [acc EXCEPT !.calls = Append(@, CallDelta(i, 0, NoName, args))]

(* _compute_arg_delta: the new JSON, if what was streamed is a prefix of it *)
ExtendTo(acc, i, json, safe) ==
  IF safe \in {<<>>, json} \/ ~IsPrefix(json, safe) THEN acc
  ELSE EmitArgs([acc EXCEPT !.ps.slots[i].json = safe], i,
                SubSeq(safe, Len(json) + 1, Len(safe)))
ArgDelta(acc, i) ==
  LET slot == acc.ps.slots[i]
  IN ExtendTo(acc, i, slot.json, SafeArgPrefix(Convert(slot.args, TRUE)))

(* Mutant: a prefix that the flush cannot extend is left as it is. *)
LeftOpen(slot) == <<>>

(* _close_streamed_json: the suffix *)
CloseStreamed(slot) == Terminator(slot.json)

(* _flush_arg_converter: what is left to send when the call ends *)
FlushTo(slot, final) ==
  CASE Len(final) > Len(slot.json) /\ IsPrefix(slot.json, final) ->
         SubSeq(final, Len(slot.json) + 1, Len(final))
    [] slot.json = <<>> /\ final = <<>> -> <<>>
    [] OTHER -> CloseStreamed(slot)
FlushArgs(slot) == FlushTo(slot, Convert(slot.args, FALSE))

-----------------------------------------------------------------------------
(* Events.  A handler gets the accumulator of _events_to_delta: the parser, *)
(* the parts of the delta, and whether a tool event was seen.               *)

(* _handle_arg_chunk: the chunk that sends the name sends no arguments *)
HandleArgChunk(acc, e) ==
  LET a == [acc EXCEPT !.ps.slots[e.idx].args = @ \o e.value, !.seen = TRUE]
  IN IF ~a.ps.slots[e.idx].sent THEN EmitName(a, e.idx, <<>>) ELSE ArgDelta(a, e.idx)

(* _handle_tool_end *)
EndCall(acc, i, rest) ==
  LET a == [acc EXCEPT !.ps.slots[i].json = @ \o rest, !.seen = TRUE]
  IN IF ~acc.ps.slots[i].sent THEN EmitName(a, i, rest) ELSE EmitArgs(a, i, rest)
HandleToolEnd(acc, e) == EndCall(acc, e.idx, FlushArgs(acc.ps.slots[e.idx]))

(* One event of the loop of _events_to_delta. *)
OnEvent(acc, e) ==
  CASE e.type = "TEXT" ->
         IF acc.seen THEN [acc EXCEPT !.ps.content = @ \o e.value]
         ELSE [acc EXCEPT !.content = @ \o e.value]
    [] e.type = "REASONING" -> [acc EXCEPT !.reasoning = @ \o e.value]
    [] e.type = "REASONING_END" -> [acc EXCEPT !.ps.ended = TRUE]
    [] e.type = "TOOL_START" /\ ~acc.suppress ->
         [acc EXCEPT !.ps = EnsureSlot(@, e.idx), !.seen = TRUE]
    [] e.type = "TOOL_NAME" /\ ~acc.suppress ->
         [acc EXCEPT !.ps.slots[e.idx].name = @ \o e.value, !.seen = TRUE]
    [] e.type = "TOOL_ARG" /\ ~acc.suppress -> HandleArgChunk(acc, e)
    [] e.type = "TOOL_END" /\ ~acc.suppress -> HandleToolEnd(acc, e)
    [] OTHER -> acc

NoDelta == [content |-> <<>>, reasoning |-> <<>>, calls |-> <<>>]

(* Mutants: what was deferred goes behind newer text, or is kept as well. *)
DeferredLast(acc) ==
  IF acc.seen /\ acc.calls # <<>> THEN acc
  ELSE [acc EXCEPT !.content = @ \o acc.ps.content, !.ps.content = <<>>]
DeferredKept(acc) ==
  IF acc.seen /\ acc.calls # <<>> THEN acc
  ELSE [acc EXCEPT !.content = acc.ps.content \o @]

(* Text after a tool event waits for a delta without tool calls. *)
TakeDeferred(acc) ==
  IF acc.seen /\ acc.calls # <<>> THEN acc
  ELSE [acc EXCEPT !.content = acc.ps.content \o @, !.ps.content = <<>>]

(* Leading blanks wait until it is known whether text or a tool call follows. *)
HoldBlanks(acc, cf, finished) ==
  CASE acc.ps.nonws \/ acc.content = <<>> -> acc
    [] ~(acc.ps.nonws \/ acc.content = <<>>) /\ ~AllBlank(acc.content) ->
         [acc EXCEPT !.ps.nonws = TRUE]
    [] OTHER ->
         CASE acc.ps.slots # <<>> -> [acc EXCEPT !.content = IF cf.dropBlank THEN <<>> ELSE @]
           [] acc.ps.slots = <<>> /\ finished -> acc
           [] OTHER -> [acc EXCEPT !.ps.content = acc.content, !.content = <<>>]

(* _events_to_delta: the parser and the delta *)
DeltaOf(acc) ==
  [ps |-> acc.ps, delta |-> [content |-> acc.content, reasoning |-> acc.reasoning,
                             calls |-> Coalesce(acc.calls)]]
EventsToDelta(ps, cf, events, finished) ==
  IF events = <<>> /\ ps.content = <<>> THEN [ps |-> ps, delta |-> NoDelta]
  ELSE LET start == [ps |-> ps, calls |-> <<>>, content |-> <<>>, reasoning |-> <<>>,
                     seen |-> FALSE, suppress |-> cf.suppress]
       IN DeltaOf(HoldBlanks(TakeDeferred(FoldLeft(OnEvent, start, events)), cf, finished))

(* _strip_trailing_reasoning: trailing blanks wait for more reasoning *)
StripReasoning(r, cf) ==
  LET whole == r.ps.reasoning \o r.delta.reasoning
  IN CASE ~cf.stripReasoning -> r
       [] cf.stripReasoning /\ r.delta.reasoning # <<>> ->
            [r EXCEPT !.delta.reasoning = RStrip(whole), !.ps.reasoning = TrailingBlanks(whole)]
       [] OTHER -> [r EXCEPT !.ps.reasoning = IF r.ps.ended THEN <<>> ELSE @]

(* The lexer's finish(): a call that is open is ended, a reasoning block too. *)
FinishEvents(events) ==
  LET last == SelectLastInSeq(events, LAMBDA e : e.type \notin {"TEXT"})
      e == events[last]
  IN CASE last = 0 -> <<>>
       [] last > 0 /\ e.type \in {"TOOL_START", "TOOL_NAME", "TOOL_ARG"} ->
            <<[type |-> "TOOL_END", idx |-> e.idx]>>
       [] last > 0 /\ e.type \in {"REASONING"} -> <<[type |-> "REASONING_END"]>>
       [] OTHER -> <<>>

(* parse_delta.  `fed` are the events of earlier calls, which the lexer's    *)
(* state stands for.                                                        *)
ParseDelta(ps, cf, fed, events, finished) ==
  LET all == IF finished THEN events \o FinishEvents(fed \o events) ELSE events
      r == StripReasoning(EventsToDelta(ps, cf, all, finished), cf)
  IN [r EXCEPT !.delta.reasoning = IF cf.reasoning THEN @ ELSE <<>>]

-----------------------------------------------------------------------------
(* The parse of a whole output. *)

(* _build_extracted_result: the calls of all slots whose name is accepted *)
ExtractCalls(ps) ==
  LET ok == SelectSeq([i \in DOMAIN ps.slots |-> i], LAMBDA i : Accepted(ps.slots[i].name))
      with == FoldLeft(EnsureId, ps, ok)
  IN [k \in DOMAIN ok |->
        [id |-> with.slots[ok[k]].id, name |-> with.slots[ok[k]].name,
         args |-> Convert(with.slots[ok[k]].args, FALSE)]]

(* _strip_content_whitespace *)
StripContent(content, cf, called) ==
  CASE called /\ cf.stripContent -> LStrip(RStrip(content))
    [] called /\ ~cf.stripContent /\ cf.dropBlank /\ AllBlank(content) -> <<>>
    [] OTHER -> content

(* _single_pass_parse and parse *)
Parsed(delta, cf, calls) ==
  [content |-> StripContent(delta.content, cf, calls # <<>>),
   reasoning |-> CASE ~cf.reasoning -> <<>>
                   [] cf.reasoning /\ cf.stripReasoning -> RStrip(delta.reasoning)
                   [] OTHER -> delta.reasoning,
   calls |-> calls]
ParsedBy(r, cf) == Parsed(r.delta, cf, ExtractCalls(r.ps))
ParseWhole(cf, events) ==
  ParsedBy(EventsToDelta(NewParser, cf, events \o FinishEvents(events), TRUE), cf)
=============================================================================
