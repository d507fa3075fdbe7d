------------------------ MODULE MC_StopVerification ------------------------
(* Values of the configurations of StopVerification. *)
EXTENDS StopVerification

Nothing == {}
NoPeer == {}
OneElapsed == {"watchdog 1600 ms"}
OneWheel == <<"wheel">>
OneBrush == <<"brush">>
MotorFrames == {"still", "turning", "error", "clean"}
============================================================================
