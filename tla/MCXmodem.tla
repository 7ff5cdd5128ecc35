------------------------------ MODULE MCXmodem ------------------------------
(* Constants of the TLC run over Xmodem: images that fit, with one block   *)
(* and with one that fills its memory, and one that is too large; the block *)
(* number wraps.                                                            *)
EXTENDS Xmodem
MCImages ==
  { [itcm |-> <<1001, 1002, 1003>>, dtcm |-> <<2001>>],
    [itcm |-> <<1001, 1002>>, dtcm |-> <<2001, 2002, 2003>>],
    [itcm |-> <<1001>>, dtcm |-> <<2001, 2002>>] }
MCMaxSize == [itcm |-> 3, dtcm |-> 2]
MCDamageTo == {SOH, 0, -9}
=============================================================================
