---------------------------- MODULE MCPrintPanel ----------------------------
(* An instance of PrintPanel for TLC: two files beside a folder with one.  *)
EXTENDS PrintPanel

CONSTANTS cube, boat, usb_vase, usb_stick, s1

MCFiles  == {cube, boat, usb_vase}
MCFolder == [f \in MCFiles |-> IF f = usb_vase THEN usb_stick ELSE Root]
MCUsb    == {usb_vase}
=============================================================================
