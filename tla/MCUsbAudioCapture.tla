-------------------------- MODULE MCUsbAudioCapture --------------------------
(***************************************************************************)
(* A ring of sixteen or twenty frames, packets of three to five, blocks of *)
(* two.  A block is more than a short packet saves, as the real ones are.  *)
(***************************************************************************)
EXTENDS UsbAudioCapture
=============================================================================
