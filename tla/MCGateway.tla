------------------------------ MODULE MCGateway ------------------------------
(* Configurations and requests of the two questions asked of the gateway: who  *)
(* is let in (every configuration and every request), and how an answer is     *)
(* relayed (two keyed chats on a plain server).                                *)
EXTENDS Gateway

CONSTANTS r1, r2

Plain == [loopbackBind |-> TRUE, token |-> FALSE, openRelay |-> FALSE, badUpstream |-> FALSE,
          insecureUpstream |-> FALSE, mock |-> FALSE, keyless |-> FALSE]

Chat == [foreign |-> FALSE, local |-> TRUE, token |-> FALSE, post |-> TRUE, creds |-> TRUE,
         stream |-> FALSE, route |-> "chat", body |-> "chat"]

Of(configs, requests, asks) == [config : configs, ask : [requests -> asks]]

PlainConfigs == {Plain, [Plain EXCEPT !.mock = TRUE]}
RelayAsks    == {[Chat EXCEPT !.stream = s] : s \in BOOLEAN}

AdmitScenarios == Of(Config, {r1}, {a \in Ask : ~a.stream})
RelayScenarios == Of(PlainConfigs, {r1, r2}, RelayAsks)
AllScenarios   == AdmitScenarios \cup RelayScenarios
=============================================================================
