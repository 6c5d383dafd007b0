--------------------------- MODULE MC_ClientState ---------------------------
(* Two stations, one with two streams; sequence numbers cross from one hex *)
(* digit to two (f to 10).                                                  *)
EXTENDS ClientState

CONSTANTS stA, stB, sA1, sA2, sB

MCStationOf == [s \in Streams |-> IF s = sB THEN stB ELSE stA]
\* Network GE, stations A and B; streams FDSN:GE_A__B_H_Z, FDSN:GE_A__B_H_N
\* and FDSN:GE_B_00_B_H_Z (G=71 E=69 A=65 B=66 H=72 Z=90 N=78 0=48).
MCNetOf == [st \in Stations |-> <<71, 69>>]
MCStaOf == [st \in Stations |-> IF st = stA THEN <<65>> ELSE <<66>>]
FDSN(net, sta, loc, cha) == <<70, 68, 83, 78, 58>> \o net \o <<95>> \o sta \o <<95>> \o loc \o <<95>> \o cha
MCSidText == (sA1 :> FDSN(<<71, 69>>, <<65>>, <<>>, <<66, 95, 72, 95, 90>>))
             @@ (sA2 :> FDSN(<<71, 69>>, <<65>>, <<>>, <<66, 95, 72, 95, 78>>))
             @@ (sB :> FDSN(<<71, 69>>, <<66>>, <<48, 48>>, <<66, 95, 72, 95, 90>>))
MCArgs == <<[st |-> stA, nsel |-> 1], [st |-> stB, nsel |-> 0]>>
MCStartSeq == [st \in Stations |-> 14]
====
