------------------------------ MODULE MCServices ------------------------------
EXTENDS Services

MCKeyOf == [n \in Networks |-> IF n = "cafe" THEN "" ELSE "key"]
MCStored == <<[ssid |-> "cafe", password |-> ""]>>
MCDefaultPort == [p \in Protocols |-> 22]
MCImages == [version : Versions, total : 31..49, hashed : BOOLEAN]
=============================================================================
