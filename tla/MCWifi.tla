-------------------------------- MODULE MCWifi --------------------------------
EXTENDS Wifi

MCKeyOf == [n \in Networks |-> IF n = "cafe" THEN "" ELSE "key"]
MCStored == <<[ssid |-> "cafe", password |-> ""]>>
=============================================================================
