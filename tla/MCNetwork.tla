------------------------------ MODULE MCNetwork ------------------------------
EXTENDS Network

MCKeyOf == [n \in Networks |-> IF n = "cafe" THEN "" ELSE "key"]
MCStored == <<[ssid |-> "cafe", password |-> ""]>>

\* A letter, an escaped byte, and a byte that is SE in another place.
MCDataBytes == {97, IAC, SE}
MCOptions == {ECHO, TERM_TYPE, NAWS}
\* The request of the terminal type, a payload that looks like an end, and one
\* that does not fit into sb_buf.
MCPayloads == {<<1>>, <<IAC, SE>>, <<0, 1, 1>>}
=============================================================================
