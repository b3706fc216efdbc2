----------------------------- MODULE MCOptions -----------------------------
(* Small instances of Options. *)
EXTENDS Options

HostDefault == [physicalExtentSize |-> 4, metadataSize |-> 1, dataAlignment |-> 1,
                dataAlignmentOffset |-> 0, zero |-> TRUE, devices |-> "all",
                maxPV |-> 0, maxLV |-> 0, alloc |-> "normal", auto |-> TRUE]

Plain == [f \in Field |-> Unset]

\* Limits, a policy as lvm2 spells it, and sizes that do and do not fit a
\* significand of three bits.
Sized == [Plain EXCEPT !.physicalExtentSize = 16, !.metadataSize = 13, !.dataAlignment = 7,
                       !.dataAlignmentOffset = 27, !.zero = FALSE, !.maxLV = 2,
                       !.alloc = "cling"]

\* The same, later: other limits and a documented policy, which only sync knows.
Changed == [Sized EXCEPT !.maxLV = 3, !.maxPV = 2, !.alloc = "ClingByTags", !.auto = FALSE]

\* A size that was not to be changed is, at once or after it was taken away.
Resized == [Sized EXCEPT !.metadataSize = 20]
Dropped == [Sized EXCEPT !.metadataSize = Unset]

\* What lvm2 does not take: a policy of logical volumes, a negative size, an
\* extent size it does not know.
Inherited == [Plain EXCEPT !.alloc = "Inherit"]
Negative  == [Plain EXCEPT !.dataAlignment = -1]
Uneven    == [Plain EXCEPT !.physicalExtentSize = 5]

\* Devices of its own.
Restricted == [Plain EXCEPT !.devices = "own", !.auto = TRUE]

ManySpecs == {Plain, Sized, Changed, Resized, Dropped, Inherited, Negative, Uneven, Restricted}

\* A spec as the documentation has it.
Documented == {[Plain EXCEPT !.zero = TRUE, !.auto = TRUE, !.alloc = "Cling"]}

\* Rounding, beyond the sizes of these specs: every number of up to three times the
\* bits of a significand of three.
ASSUME RoundingIsClose ==
    Mantissa = 3 => \A n \in 0 .. 2^9 : Close(AsApproximateFloat64(n), n)
ASSUME SizesRound
=============================================================================
