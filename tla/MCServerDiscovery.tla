-------------------------- MODULE MCServerDiscovery --------------------------
(* Small instances of ServerDiscovery for TLC.                             *)
EXTENDS ServerDiscovery

CONSTANTS multicaster, unicaster, third, legacy

AllServers == {multicaster, unicaster, third, legacy}
TwoServers == {multicaster, legacy}
OneLegacy == {legacy}
OneMulticasting == {multicaster}
==============================================================================
