---------------------------- MODULE MCAcceptance ----------------------------
(* Fields of four bits; keys of the remote: another one and POWER.          *)
EXTENDS Acceptance

MCPower == <<1, 0, 1, 0>>
MCCodes == {<<0, 1, 1, 0>>, MCPower}
=============================================================================
