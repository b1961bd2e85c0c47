----------------------------- MODULE RuntimeMC -----------------------------
(***************************************************************************)
(* Parts of the Realms native runtime that share no state, checked side by  *)
(* side: an execution picks one of them and the others rest.  The voice is  *)
(* taken twice, once without packets from other speakers and once without   *)
(* capture, which do not meet in its state.                                 *)
(***************************************************************************)
EXTENDS BinaryTransport, VoiceRuntime, EventQueue

VARIABLE part
vars == <<part, binaryVars, voiceVars, eventVars>>

Init ==
  /\ part \in {"binary", "capture", "speakers", "events"}
  /\ BinaryInit
  /\ VoiceInit
  /\ EventInit

NoSpeakers == incoming' = << >> /\ talking'.present = {} /\ ~voice'.suppression
NoCapture ==
  /\ UNCHANGED capturing
  /\ ~voice'.capture
  /\ ~voice'.echo
  /\ ~voice'.suppression
  /\ voice'.defaults = {}

Next ==
  /\ UNCHANGED part
  /\ \/ part = "binary" /\ BinaryNext /\ UNCHANGED <<voiceVars, eventVars>>
     \/ part = "capture" /\ VoiceNext /\ NoSpeakers /\ UNCHANGED <<binaryVars, eventVars>>
     \/ part = "speakers" /\ VoiceNext /\ NoCapture /\ UNCHANGED <<binaryVars, eventVars>>
     \/ part = "events" /\ EventNext /\ UNCHANGED <<binaryVars, voiceVars>>

Spec == Init /\ [][Next]_vars
=============================================================================
