----------------------------- MODULE MCUsbSystem -----------------------------
(***************************************************************************)
(* Small instances of UsbSystem: the requests of an enumeration and of the *)
(* Linux driver, which reads 16 bytes.                                     *)
(***************************************************************************)
EXTENDS UsbSystem

Request(type, dir, bRequest, hi, lo, wLength) ==
  [type |-> type, dir |-> dir, bRequest |-> bRequest, lo |-> lo, hi |-> hi,
   wLength |-> wLength]

GetTemp    == Request("vendor", "in", 0, 0, 0, 16)
GetVendor  == Request("standard", "in", 6, 3, 1, 255)
GetConfig  == Request("standard", "in", 8, 0, 0, 1)
SetAddress == Request("standard", "out", 5, 0, 1, 0)
SetConfig  == Request("standard", "out", 9, 0, 1, 0)

AbandonRequests == {GetTemp, SetAddress, SetConfig}
MCRequests == {GetTemp, GetVendor, GetConfig, SetAddress, SetConfig}
=============================================================================
