--------------------------- MODULE MCMetaProvider ---------------------------
(* Two small populations of sinks for MetaProvider.                         *)
EXTENDS MetaProvider

CONSTANTS ccA, ccB, mice, p2p,        \* sinks
          castProv, miceProv, p2pProv, \* providers
          ip, mac, mac2               \* addresses

MCSinks == {ccA, ccB, mice, p2p}

MCOwner == [s \in MCSinks |->
    IF s = mice THEN miceProv ELSE IF s = p2p THEN p2pProv ELSE castProv]

MCPriority == [s \in MCSinks |-> IF s = mice THEN 200 ELSE IF s = p2p THEN 100 ELSE 50]

\* A Chromecast found on two interfaces, a Miracast-over-Infrastructure sink of
\* the same device, and a Wi-Fi P2P sink of another device.
DistinctMatches == [s \in MCSinks |->
    IF s = mice THEN {ip, mac} ELSE IF s = p2p THEN {mac2} ELSE {ip}]

\* One device with all protocols: only the infrastructure sink knows both the
\* IP address of the Chromecast sink and the MAC address of the P2P sink.
BridgeSinks == {ccA, mice, p2p}

BridgeOwner == [s \in BridgeSinks |-> MCOwner[s]]

BridgePriority == [s \in BridgeSinks |-> MCPriority[s]]

BridgeMatches == [s \in BridgeSinks |->
    IF s = mice THEN {ip, mac} ELSE IF s = p2p THEN {mac} ELSE {ip}]
=============================================================================
