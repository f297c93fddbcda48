--------------------------- MODULE MCOscilloscope ---------------------------
(* The oscilloscope recording three frames of two channels.                *)
EXTENDS Oscilloscope

(* The powers of the frames and channels are distinct, and so are their    *)
(* sums.                                                                   *)
MCPower == [cf \in (1..NumChannels) \X (1..MaxFrames) |->
              (2 * cf[2] + cf[1]) * (2 * cf[2] + cf[1])]
=============================================================================
