----------------------------- MODULE MCChatStream -----------------------------
EXTENDS ChatStream

(* A script is written as a list of letters; an atom is numbered by its place. *)
MCEvent(l, n) ==
  CASE l = "r" -> [type |-> "REASONING", value |-> <<<<"x", n>>>>]
    [] l = "s" -> [type |-> "REASONING", value |-> <<<<"w", n>>>>]
    [] l = "R" -> [type |-> "REASONING_END"]
    [] l = "t" -> [type |-> "TEXT", value |-> <<<<"x", n>>>>]
    [] l = "b" -> [type |-> "TEXT", value |-> <<<<"w", n>>>>]

MCBody(l, i, n) ==
  CASE l = "N" -> [type |-> "TOOL_NAME", idx |-> i, value |-> <<"f">>]
    [] l = "X" -> [type |-> "TOOL_NAME", idx |-> i, value |-> <<"g">>]
    [] l = "S" -> [type |-> "TOOL_ARG", idx |-> i, value |-> <<<<"key", "s">>>>]
    [] l = "I" -> [type |-> "TOOL_ARG", idx |-> i, value |-> <<<<"key", "i">>>>]
    [] l = "c" -> [type |-> "TOOL_ARG", idx |-> i, value |-> <<<<"chr", n>>>>]
    [] l = "e" -> [type |-> "TOOL_ARG", idx |-> i, value |-> <<<<"end">>>>]
    [] l = "E" -> [type |-> "TOOL_END", idx |-> i]

MCText(ls, base) == [k \in DOMAIN ls |-> MCEvent(ls[k], base + k)]
MCCall(i, ls) ==
  <<[type |-> "TOOL_START", idx |-> i]>> \o [k \in DOMAIN ls |-> MCBody(ls[k], i, 100 * i + k)]

MCNames == {<<"f">>}

MCScripts ==
  { MCText(<<"r", "s", "r", "s", "R", "b", "t", "b">>, 0),
    MCText(<<"r", "s", "R", "b">>, 0) \o MCCall(1, <<"N", "S", "c", "c", "e", "I", "c", "c", "e", "E">>),
    MCText(<<"t">>, 0) \o MCCall(1, <<"N", "I", "c", "e", "S", "c", "e", "E">>)
      \o MCText(<<"b">>, 20) \o MCCall(2, <<"N", "E">>),
    MCCall(1, <<"X", "S", "c", "e", "E">>) \o MCText(<<"b", "t">>, 20)
      \o MCCall(2, <<"N", "S", "e", "E">>) \o MCText(<<"t">>, 40) }

MCSettings ==
  { [suppress |-> tc = "none", toolChoice |-> tc, reasoning |-> r,
     stripReasoning |-> s, dropBlank |-> d, stripContent |-> p] :
      tc \in {"auto", "none", "required", "named"}, r \in BOOLEAN, s \in BOOLEAN,
      d \in BOOLEAN, p \in BOOLEAN }
===============================================================================
