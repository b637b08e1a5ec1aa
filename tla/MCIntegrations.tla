--------------------------- MODULE MCIntegrations ---------------------------
(* A small instance of Integrations.                                       *)
EXTENDS Integrations

Two == {"slack", "pagerduty"}
=============================================================================
