------------------------------ MODULE MCNetwork ------------------------------
(* A small instance of Network.                                             *)
EXTENDS Network

CONSTANTS home, typo, short, board, unset

\* The network in range with its password, and with a mistyped one and
\* with one of fewer than eight characters
MCRefused == { [ssid |-> home, pwd |-> short] }
MCPairs ==
  { [ssid |-> home, pwd |-> home], [ssid |-> home, pwd |-> typo] }
    \cup MCRefused
MCApPairs == { [ssid |-> board, pwd |-> board] }
MCDefaultAp == [ssid |-> home, pwd |-> typo]
MCConnectAp == {MCDefaultAp}
MCInRange == {home}
=============================================================================
