----------------------------- MODULE MCPs2Input -----------------------------
(* A shift key and an extended key, a short Pause sequence and packets      *)
(* with and without the first-byte bit in their second byte.                *)
EXTENDS Ps2Input

MCScanCodes == [LeftShift |-> <<"12">>, Up |-> <<"E0", "75">>]
MCModifier == [LeftShift |-> "SHIFT", Up |-> "none"]
MCPauseCodes == <<"E1", "F0">>
MCPackets == {<<"m1", "m2">>, <<"m1", "m2 marked">>}
MCFirstMarked == {"m1", "m2 marked", "FA", "FE", "AA"}
MCClockOff == [kbd |-> {"12", "59", "75", "F0"}, mouse |-> {"75", "E0", "F0", "E1"}]
MCTranslates == {"59", "75", "E0", "F0", "E1"}
MCHeldAtBoot == {{}, {"LeftShift"}}
MCOverflows == {"FA", "FE", "AA"}

=============================================================================
