--------------------------------- MODULE Mask ---------------------------------
(***************************************************************************)
(* The mask of src/src/mask.rs: the closed bit and, above it, the number of *)
(* senders of a split channel.  A channel that is not split does not count *)
(* its senders; it uses the mask as a flag.                                *)
(***************************************************************************)
EXTENDS Integers

CONSTANTS UsizeMax \* usize::MAX: all the bits of a word

ASSUME MaskAssumption ==
    /\ UsizeMax \in Nat
    /\ UsizeMax >= 3
    /\ UsizeMax % 2 = 1

\* Mask::is_closed::<COUNTED>
IsClosed(mask, counted) == IF counted THEN mask % 2 = 1 ELSE mask = 1

\* Mutant of Closed: the bit is added, not set.
ClosedTwice(mask, counted) == IF counted THEN mask + 1 ELSE 1

\* Mask::close::<COUNTED>
Closed(mask, counted) == IF counted /\ mask % 2 = 0 THEN mask + 1
                         ELSE IF counted THEN mask ELSE 1

\* Mutant of Reset: the closed bit is reset as well.
ResetOpen(mask) == 2

\* Mask::reset::<true>: one sender more; the closed bit stays as it is.
Reset(mask) == mask + 2

\* Mutant of Increased: the clone is not counted.
IncreasedNot(mask) == mask

\* Mutant of CanIncrease: the addition is not checked.
CanIncreaseAlways(mask) == TRUE

\* The checked addition of increase_sender_count: where it overflows the call
\* panics, and there is no clone.
CanIncrease(mask) == mask + 2 <= UsizeMax

\* Mask::increase_sender_count
Increased(mask) == mask + 2

\* Whether Mask::decrease_sender_count finds that the sender was the last one;
\* it returns this, and closes the channel.
IsLast(mask) == mask - 2 < 2

Decreased(mask) == IF IsLast(mask) THEN 1 ELSE mask - 2
=============================================================================
