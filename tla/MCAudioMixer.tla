---------------------------- MODULE MCAudioMixer ----------------------------
(* 4-bit samples, so that two or three voices overflow both ways; one      *)
(* sound shorter than a period, one of two periods to the sample, one that *)
(* runs into a third.                                                      *)
EXTENDS AudioMixer

MCPcm ==
    [tick |-> <<3, -2, 5>>,
     crash |-> <<7, 6, -8, -5, 1, 0, 4, -8, 7, -1>>,
     roll |-> <<1, -3, 2, -6, 7, 5, -8, 4, 2, 6, -7>>]

MCSound == DOMAIN MCPcm
=============================================================================
