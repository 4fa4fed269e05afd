---------------------------- MODULE MCInterrupts ----------------------------
(***************************************************************************)
(* Interrupts for TLC: both versions, the timer and two devices on the     *)
(* slave, one of them on its first line, 40, where irq_handler's           *)
(* comparison changes; exceptions with and without an error code.          *)
(***************************************************************************)
EXTENDS Interrupts

ASSUME StubsFit
=============================================================================
