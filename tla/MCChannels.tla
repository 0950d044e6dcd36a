----------------------------- MODULE MCChannels -----------------------------
EXTENDS ProjectionChannels
Compat == [compat |-> TRUE, deferToDiscovery |-> FALSE, deferToControl |-> FALSE,
           earlyOptional |-> TRUE, micDelay |-> FALSE]
Default == [compat |-> FALSE, deferToDiscovery |-> TRUE, deferToControl |-> FALSE,
            earlyOptional |-> TRUE, micDelay |-> TRUE]
MCPolicies == {Compat, Default, [Default EXCEPT !.earlyOptional = FALSE],
               [Default EXCEPT !.deferToDiscovery = FALSE, !.deferToControl = TRUE],
               [Default EXCEPT !.deferToDiscovery = FALSE]}
MCConfigs == {{"video"}, {"mediaAudio", "microphone"}, {"input"}, {"sensor"}, {"bluetooth", "wifiProjection"}}
MCModes == {"h264", "webrtc"}
=============================================================================
