----------------------------- MODULE ChatStream -----------------------------
(***************************************************************************)
(* A streamed chat completion (chat_completion/serving.py): the engine's   *)
(* outputs of several choices go through one OutputParser each and out as  *)
(* chunks; the reply that the same outputs give without streaming          *)
(* (chat_completion_full_generator) is the reference.                      *)
(*                                                                         *)
(* script[c] is what the model would say for choice c.  The engine cuts it *)
(* anywhere: an output is any number of further events, none included, and *)
(* may be the last one for its length.                                     *)
(***************************************************************************)
EXTENDS OutputParser

CONSTANTS
  NumChoices,   \* the request's n
  Scripts,      \* the outputs the model may produce: sequences of events
  Settings,     \* the parser's configuration together with the request's wishes
  MaxBatch      \* bound: the events of one output

VARIABLES
  script,       \* script[c]: what the model says
  cf,           \* the settings of this request
  fed,          \* fed[c]: how many events the engine has output
  parser,       \* parser[c]: the parser of choice c
  client,       \* client[c]: what the chunks of choice c add up to
  ended,        \* ended[c]: the finish reason the engine gave for choice c, or "none"
  whole,        \* whole[c]: the reply that choice c would have been without streaming
  role,         \* the first chunks, with the role, were sent
  tail          \* "open", then how the stream ended: "done" or "error"

vars == <<script, cf, fed, parser, client, ended, whole, role, tail>>

Choice == 0..(NumChoices - 1)

NewReply == [content |-> <<>>, reasoning |-> <<>>, calls |-> <<>>, finish |-> "none"]

(* With tool_choice "required" or a function's name the grammar lets the    *)
(* model end only after a call of a known function.                         *)
Forced == {"required", "named"}
HasCall(events) ==
  \E i, j \in DOMAIN events :
     /\ events[i].type = "TOOL_NAME" /\ events[i].value \in ValidNames
     /\ i < j /\ events[j].type = "TOOL_END"

Init ==
  /\ cf \in Settings
  /\ script \in [Choice -> {s \in Scripts : cf.toolChoice \in Forced => HasCall(s)}]
  /\ fed = [c \in Choice |-> 0]
  /\ parser = [c \in Choice |-> NewParser]
  /\ client = [c \in Choice |-> NewReply]
  /\ ended = [c \in Choice |-> "none"]
  /\ whole = [c \in Choice |-> NewReply]
  /\ role = FALSE
  /\ tail = "open"

-----------------------------------------------------------------------------
(* The finish reason of a streamed choice and of a whole one. *)

\* Mutants: a truncated call ends as a complete one; the name older clients know.
LengthForgotten(toolsStreamed, reason) ==
  IF toolsStreamed /\ cf.toolChoice # "named" THEN "tool_calls" ELSE reason

StreamFinish(toolsStreamed, reason) ==
  IF toolsStreamed /\ cf.toolChoice # "named" /\ reason = "stop"
  THEN "tool_calls" ELSE reason

WholeFinish(called, reason) ==
  IF \/ cf.toolChoice = "auto" /\ called /\ reason = "stop"
     \/ cf.toolChoice = "required" /\ reason = "stop"
  THEN "tool_calls" ELSE reason

(* What the parse of a whole output becomes without streaming:              *)
(* chat_completion_full_generator.                                          *)
WholeReply(r, reason) ==
  LET calls == IF cf.toolChoice = "none" THEN <<>> ELSE r.calls
  IN [content |-> r.content, reasoning |-> r.reasoning, calls |-> calls,
      finish |-> WholeFinish(calls # <<>>, reason)]

-----------------------------------------------------------------------------
(* A client puts the deltas of a choice together. *)
Received(reply, delta) ==
  [reply EXCEPT !.content = @ \o delta.content,
                !.reasoning = @ \o delta.reasoning,
                !.calls = Coalesce(@ \o delta.calls)]

(* The engine outputs more events of choice c, perhaps the last: the loop   *)
(* body of chat_completion_stream_generator.  An output without tokens      *)
(* before the first is skipped, as in a chunked prefill.  At an error the   *)
(* choice's chunk is not sent and the stream ends with an error message.    *)
OnOutput(c, events, reason) ==
  LET before == SubSeq(script[c], 1, fed[c])
      skipped == events = <<>> /\ before = <<>>
  IN /\ fed' = [fed EXCEPT ![c] = @ + Len(events)]
     /\ role' = TRUE
     /\ ended' = [ended EXCEPT ![c] = reason]
     /\ \E r \in {ParseDelta(parser[c], cf, before, events, reason # "none")} :
          /\ parser' = IF skipped THEN parser ELSE [parser EXCEPT ![c] = r.ps]
          /\ \E reply \in {Received(client[c], r.delta)} :
               client' =
                 CASE skipped \/ reason = "error" -> client
                   [] ~skipped /\ reason = "none" -> [client EXCEPT ![c] = reply]
                   [] OTHER -> [client EXCEPT ![c] =
                        [reply EXCEPT !.finish = StreamFinish(reply.calls # <<>>, reason)]]
     /\ tail' = IF reason = "error" /\ ~skipped THEN "error" ELSE tail
     /\ whole' = IF reason \in {"stop", "length"}
                 THEN [whole EXCEPT ![c] = WholeReply(ParseWhole(cf, before \o events), reason)]
                 ELSE whole
     /\ UNCHANGED <<script, cf>>

(* An output up to the t-th event may be the last: the model stops at the   *)
(* end of what it says, is cut off at max_tokens, which is at least one, or *)
(* the engine fails the request.                                            *)
Reasons(c, t) ==
  {"none", "error"} \union (IF t > 0 THEN {"length"} ELSE {})
                   \union (IF t = Len(script[c]) THEN {"stop"} ELSE {})

Output ==
  /\ tail = "open"
  /\ \E c \in Choice, n \in 0..MaxBatch :
       /\ ended[c] = "none" /\ fed[c] + n <= Len(script[c])
       /\ \E reason \in Reasons(c, fed[c] + n) :
            OnOutput(c, SubSeq(script[c], fed[c] + 1, fed[c] + n), reason)

(* The engine has nothing more: usage, then [DONE]. *)
EndStream ==
  /\ tail = "open"
  /\ \A c \in Choice : ended[c] # "none"
  /\ tail' = "done"
  /\ UNCHANGED <<script, cf, fed, parser, client, ended, whole, role>>

Next == Output \/ EndStream

Spec == Init /\ [][Next]_vars

-----------------------------------------------------------------------------
Finished(c) == ended[c] \in {"stop", "length"}

(* There is text behind a tool call. *)
TextAfterTool(c) ==
  /\ ~cf.suppress
  /\ \E i, j \in 1..fed[c] : /\ i < j /\ script[c][i].type = "TOOL_START"
                             /\ script[c][j].type = "TEXT" /\ ~AllBlank(script[c][j].value)

(* However the engine cuts an output, the streamed deltas add up to the     *)
(* reply of the whole: the same reasoning; the same content if no call is   *)
(* made, and the same words of it if no text follows a call.  At no time    *)
(* has a word of the content been sent twice, whatever is held back.        *)
ReplyAddsUp ==
  \A c \in Choice :
    /\ IsInjective(client[c].content \o parser[c].content)
    /\ Finished(c) =>
         /\ client[c].reasoning = whole[c].reasoning
         /\ ~TextAfterTool(c) => NonBlank(client[c].content) = NonBlank(whole[c].content)
         /\ parser[c].slots = <<>> => client[c].content = whole[c].content

(* The body of call i is complete: each parameter was closed. *)
Closed(c, i) == \A k \in DOMAIN Params(parser[c].slots[i].args) :
                   Params(parser[c].slots[i].args)[k].closed

(* The streamed calls are the calls of the whole reply: the same names and  *)
(* identifiers in order, and for a body with all parameters closed the same *)
(* arguments.                                                               *)
CallsAddUp ==
  \A c \in Choice : Finished(c) =>
    LET sent == client[c].calls
        made == whole[c].calls
    IN /\ Len(sent) = Len(made)
       /\ \A k \in DOMAIN sent :
            /\ sent[k].id = made[k].id /\ sent[k].name = made[k].name
            /\ Closed(c, sent[k].index) => sent[k].args = made[k].args

(* When a choice ends, at its natural end or cut off in the middle of a     *)
(* string, the arguments of each call that was sent are JSON.               *)
ArgumentsParse ==
  \A c \in Choice : Finished(c) =>
    \A k \in DOMAIN client[c].calls : Parses(client[c].calls[k].args)

(* A streamed choice ends for the reason the whole one does; a truncated    *)
(* call keeps "length" (r26.3-minimal/PATCH-MANIFEST.md).                   *)
FinishReasonsAgree ==
  \A c \in Choice : Finished(c) => client[c].finish = whole[c].finish
=============================================================================
