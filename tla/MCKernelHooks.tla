--------------------------- MODULE MCKernelHooks ---------------------------
(* Two programs TI-BASIC can run, one of them a Fargo program, and a shell. *)
EXTENDS KernelHooks, TLC

CONSTANTS fargo, basicOnly

MCPrograms    == {fargo, basicOnly}
MCFargoSigned == {fargo}
=============================================================================
