--------------------------- MODULE MCVoiceLibrary ---------------------------
(* The voice library with one binding directory per voice and binding. *)
EXTENDS VoiceLibrary, TLC

VoiceDirs == Voices \X Bindings

Symmetric ==
  UNION {Permutations(s) : s \in {Clis, Workers, Voices, Bindings}}
=============================================================================
