------------------------------ MODULE MCEngine ------------------------------
(***************************************************************************)
(* Six items: two of two parts each, which share a symbol, one with a      *)
(* content marker in a part, the other with a directive in its cheap part  *)
(* and a symbol of its own in the dear one; a document elided whole, with  *)
(* a heading and no symbol; one of a preserved kind; one that does not     *)
(* parse; and one without a symbol, with a content marker in a part and    *)
(* another outside.                                                        *)
(***************************************************************************)
EXTENDS Engine, TLC

MCItems == 1..6
MCParts == 1..2
MCPartsOf == <<{1, 2}, {1, 2}, {1}, {1}, {1}, {1, 2}>>
MCGain == <<<<2, 3>>, <<2, 4>>, <<4>>, <<3>>, <<3>>, <<2, 3>>>>
MCFrame == <<2, 2, 1, 2, 2, 2>>
MCDirectiveIn == <<{}, {1}, {}, {}, {}, {}>>
MCNames == {"run", "load", "keep", "title", "note"}
MCSymbolsIn == <<<<{}, {}>>, <<{}, {"load"}>>, <<{}>>, <<{}>>, <<{}>>, <<{}, {}>>>>
MCFrameSymbols == <<{"run"}, {"run"}, {}, {"load"}, {"run"}, {}>>
MCMarkersIn == <<<<{}, {"keep"}>>, <<{}, {}>>, <<{"title"}>>, <<{}>>, <<{}>>, <<{}, {"note"}>>>>
MCFrameMarkers == <<{}, {}, {}, {}, {}, {"keep"}>>
MCBlockHash == [x \in MCItems \X (0..2) |-> 10 * x[1] + x[2]]
MCBlocks == Range(MCBlockHash)
MCHosts == {{}, {"store"}, {"ledger"}, {"store", "ledger"}}
MCAsked == {{1, 2}, {1, 2, 3}, {3, 4}, {5, 6}}
MCBudgets == {<<0, 0>>, <<9, 0>>, <<0, 2>>, <<14, 7>>}
MCWhole == {3}
MCProtected == {4}
MCBroken == {5}
=============================================================================
