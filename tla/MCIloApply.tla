----------------------------- MODULE MCIloApply -----------------------------
(***************************************************************************)
(* IloApply with two invocations, two network-boot seats, one seat the     *)
(* firmware does not offer and one other attribute.                        *)
(***************************************************************************)
EXTENDS IloApply, TLC
CONSTANTS s1, s2, s3, o1

MCSettings == {"Auto", "IPv4"}
MCSpecs == {[pxe |-> {s1}, bios |-> o1 :> "IPv4"],
            [pxe |-> {s2}, bios |-> <<>>],
            [pxe |-> NoBoot, bios |-> o1 :> "Auto"],
            [pxe |-> {s1, s3}, bios |-> <<>>]}
MCSymmetry == Permutations(Runs)
=============================================================================
