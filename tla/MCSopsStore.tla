---------------------------- MODULE MCSopsStore ----------------------------
(* Three keys in two trees, one routed to a file of its own. *)
EXTENDS SopsStore

CONSTANTS writer1, writer2, reader, endpoint, api_token, password, v1, v2,
          integrations, services, secretsYaml, integrationsYaml

MCTreeOf == [k \in Keys |-> IF k = password THEN services ELSE integrations]
(* Only the token takes a second value: it is the one that is rotated. *)
MCValuesOf == [k \in Keys |-> IF k = api_token THEN {v1, v2} ELSE {v1}]
MCRoutes == [tree \in {integrations} |-> integrationsYaml]
NoRoutes == [tree \in {} |-> secretsYaml]
MCSaved  == <<endpoint, api_token>>
============================================================================
