---------------------------- MODULE MCGatewayTurn ----------------------------
(* Five kinds of messages: prose without symbols, code with one symbol, an     *)
(* instruction, a system prompt with two symbols and a heading, and code that  *)
(* its validator rejects.  The requests: one message, repeated by a later      *)
(* turn; a message twice; one that repair reverts beside one that stays        *)
(* elided; a system prompt and two others, of which the second is reverted.    *)
EXTENDS GatewayTurn

CONSTANTS prose, code, rule, system, bad, f, g, k, title, r1

MCRefOf == [h \in Hashes |-> r1]
MCSymbolsOf == [h \in Hashes |-> CASE h \in {code, bad} -> {f} [] h = system -> {g, k} [] OTHER -> {}]
MCMarkersOf == [h \in Hashes |-> IF h = system THEN {title} ELSE {}]
MCPayloads ==
  {<<code>>, <<prose>>, <<prose, prose>>, <<rule, rule>>, <<code, prose>>,
   <<system, code, rule>>, <<system, code, bad>>}
=============================================================================
