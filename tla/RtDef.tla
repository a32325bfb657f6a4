------------------------------- MODULE RtDef -------------------------------
(* What the modules of the heaps share.                                    *)
CONSTANT NONE       \* RT_NULL
=============================================================================
