---------------------------- MODULE MCBuddyMemory ----------------------------
(* The buddy system on a cache of four least partitions. *)
EXTENDS BuddyMemory, Arithmetic

Powers == {1, 2, 4, 8, 16, 32}

\* What BuddyMemory says of the two functions is what their bit tricks compute.
ASSUME BitTricks ==
    /\ \A n \in 1 .. 32 : next_power_of_2(n) = {smeared_next_power_of_2(n)}
    /\ \A size \in Powers, k \in 0 .. 31 :
          _buddy_position([position |-> k * size, size |-> size])
              = xor_int_and_int(k * size, size)

=============================================================================
