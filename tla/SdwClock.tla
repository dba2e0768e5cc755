------------------------------- MODULE SdwClock -------------------------------
(***************************************************************************)
(* Clock and frame-shape selection of the generic bandwidth allocator      *)
(* (sdw_compute_bus_params and sdw_select_row_col): given the cumulative   *)
(* bandwidth of a bus, which double-rate clock frequency is chosen, if any.*)
(***************************************************************************)
EXTENDS Integers, Sequences

CONSTANTS
  ClkFreq,        \* double-rate frequencies in the order they are tried
  FrameInt,       \* default_row * default_col, the bits of one frame
  FrameCtrlBits   \* SDW_FRAME_CTRL_BITS, the control bits of one frame

ASSUME ClockAssumption ==
  /\ ClkFreq \in Seq(Nat \ {0})
  /\ FrameInt \in Nat \ {0}
  /\ FrameCtrlBits \in 0 .. FrameInt

NoFreq == 0   \* -EINVAL

\* Bits per second left for data at frequency f in the default frame shape,
\* the only one sdw_select_row_col accepts.
Payload(f) == f - (f \div FrameInt) * FrameCtrlBits

\* The loop stops at the first frequency above the bandwidth and does not try
\* another one when the frame shape then rejects it.
FirstAbove(bw, i) ==
  /\ ClkFreq[i] > bw
  /\ \A j \in 1 .. (i - 1) : ClkFreq[j] <= bw

sdw_select_row_col(bw, f) == Payload(f) >= bw

sdw_compute_bus_params(bw) ==
  IF \E i \in DOMAIN ClkFreq :
       FirstAbove(bw, i) /\ sdw_select_row_col(bw, ClkFreq[i])
  THEN ClkFreq[CHOOSE i \in DOMAIN ClkFreq : FirstAbove(bw, i)]
  ELSE NoFreq

Fits(bw) == sdw_compute_bus_params(bw) # NoFreq
===============================================================================
