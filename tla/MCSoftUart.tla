----------------------------- MODULE MCSoftUart -----------------------------
(* Small constants for SoftUart.                                            *)
EXTENDS SoftUart

MCGreeting == <<2, 1>>
=============================================================================
