---------------------------- MODULE MCMediaTime -----------------------------
(* MediaTime with rates of two and three, the audio's being the common     *)
(* one, and silences of up to half a counter's range or of the whole run.  *)
EXTENDS MediaTime

MCTracks == {"audio", "video"}
MCRate == [audio |-> 2, video |-> 3]

MCShort      == [audio |-> 2, video |-> 1]
MCLong       == [audio |-> 9, video |-> 9]
MCVideoLong  == [audio |-> 2, video |-> 9]
=============================================================================
