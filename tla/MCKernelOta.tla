---------------------------- MODULE MCKernelOta ----------------------------
(* KernelOta with short images and few sequence numbers, for TLC.          *)
EXTENDS KernelOta
=============================================================================
