------------------------- MODULE MCFirmwareDownload -------------------------
(* Instances of FirmwareDownload for TLC. *)
EXTENDS FirmwareDownload

(* Odd and even sizes, versions with a common part, one that is a half-copied *)
(* other one, an empty one, and one whose half does not fit the offset.     *)
MCContent ==
    [v \in Version |-> CASE v = "odd"   -> <<1, 2, 1, 2, 2>>
                         [] v = "even"  -> <<1, 2, 2, 1>>
                         [] v = "half"  -> <<1, 2>>
                         [] v = "one"   -> <<2>>
                         [] v = "empty" -> <<>>
                         [] v = "large" -> <<1, 2, 1, 2, 1, 1>>]
=============================================================================
