--------------------------- MODULE MCModbusSlave ---------------------------
(* Constants of the TLC run over ModbusSlave: a damaged byte is noise or    *)
(* the address of this slave.                                               *)
EXTENDS ModbusSlave
MCDamages == {Junk, Me}
=============================================================================
