--------------------------- MODULE MCAfeRegister ---------------------------
(* Registers and functions of the AFE, as in defines.hpp.                  *)
EXTENDS AfeRegister, TLC

(* Nothing or ones on the line.                                            *)
MCUnknown == {{}, 0..15}

(* Two functions of register 51, one of register 1 whose bit positions are *)
(* the other way round and the one it overwrites, and the readout bit of   *)
(* register 0.  Bit 16 of a requested value is cut off.                    *)
ConfigFunction == {"LPF_PROGRAMMABILITY", "PGA_INTEGRATOR_DISABLE",
                   "LVDS_OUTPUT_RATE_2X", "SINGLE-ENDED_CLK_MODE",
                   "REGISTER_READOUT_ENABLE"}
ConfigReg ==
  "LPF_PROGRAMMABILITY" :> 51 @@ "PGA_INTEGRATOR_DISABLE" :> 51
  @@ "LVDS_OUTPUT_RATE_2X" :> 1 @@ "SINGLE-ENDED_CLK_MODE" :> 1
  @@ "REGISTER_READOUT_ENABLE" :> 0
ConfigMsb ==
  "LPF_PROGRAMMABILITY" :> 3 @@ "PGA_INTEGRATOR_DISABLE" :> 4
  @@ "LVDS_OUTPUT_RATE_2X" :> 12 @@ "SINGLE-ENDED_CLK_MODE" :> 15
  @@ "REGISTER_READOUT_ENABLE" :> 1
ConfigLsb ==
  "LPF_PROGRAMMABILITY" :> 1 @@ "PGA_INTEGRATOR_DISABLE" :> 4
  @@ "LVDS_OUTPUT_RATE_2X" :> 14 @@ "SINGLE-ENDED_CLK_MODE" :> 15
  @@ "REGISTER_READOUT_ENABLE" :> 1
ConfigOptions ==
  "LPF_PROGRAMMABILITY" :> {{}, {1}, {0, 1}, {2}}
  @@ "PGA_INTEGRATOR_DISABLE" :> {{}, {0}}
  @@ "LVDS_OUTPUT_RATE_2X" :> {{}, {0}} @@ "SINGLE-ENDED_CLK_MODE" :> {{}, {0}}
  @@ "REGISTER_READOUT_ENABLE" :> {{}, {0}}
ConfigRequested == {{}, {0, 16}}
=============================================================================
