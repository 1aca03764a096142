------------------------------- MODULE MCVUsb -------------------------------
(***************************************************************************)
(* A small instance of VUsb, with every packet of the arbitrary bus.       *)
(***************************************************************************)
EXTENDS VUsb

Request(type, dir, bRequest, hi, lo, wLength) ==
  [type |-> type, dir |-> dir, bRequest |-> bRequest, lo |-> lo, hi |-> hi,
   wLength |-> wLength]

GetTemp    == Request("vendor", "in", 0, 0, 0, 16)
SetAddress == Request("standard", "out", 5, 0, 1, 0)

MCRequests == {GetTemp, SetAddress}
=============================================================================
