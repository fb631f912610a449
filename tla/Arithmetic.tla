------------------------------ MODULE Arithmetic ------------------------------
(***************************************************************************)
(* The bit tricks of broker/src/arithmetic.c, as the code does them.       *)
(* BuddyMemory says what they compute; MCBuddyMemory compares the two.     *)
(***************************************************************************)
EXTENDS Partitions

LOCAL INSTANCE Bitwise

Shifts == <<1, 2, 4, 8, 16>>

\* n |= n >> shift, for each shift in turn, between n-- and n++.
smeared_next_power_of_2(n) ==
    LET smear(bits, shift) == bits | shiftR(bits, shift)
    IN  (FoldLeft(smear, (n - 1) % UnsignedModulus, Shifts) + 1) % UnsignedModulus

xor_int_and_int(a, b) == a ^^ b

=============================================================================
