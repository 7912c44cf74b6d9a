---------------------------- MODULE AddressChecks ----------------------------
(***************************************************************************)
(* The arithmetic on addresses and masks (address.rs) at its real width.   *)
(*                                                                         *)
(* A u32 is the sequence of its four bytes, the most significant one       *)
(* first; its bits are numbered from 0, the most significant, to 31.       *)
(***************************************************************************)
EXTENDS Integers, Sequences, FiniteSetsExt

U32_BITS == 32

Byte == 0 .. 255

u32 == [1 .. 4 -> Byte]

-----------------------------------------------------------------------------
(* The operations of u32.                                                  *)

(* What the bits of a byte count, the most significant one first.          *)
weight == <<128, 64, 32, 16, 8, 4, 2, 1>>

(* The positions of the bits that are 1.                                   *)
ones(u) ==
    {i \in 0 .. U32_BITS - 1 :
        (u[(i \div 8) + 1] \div weight[(i % 8) + 1]) % 2 = 1}

from_ones(S) ==
    LET bit(n, k) == IF 8 * (n - 1) + k \in S THEN weight[k + 1] ELSE 0
    IN  [n \in 1 .. 4 |->
            bit(n, 0) + bit(n, 1) + bit(n, 2) + bit(n, 3)
            + bit(n, 4) + bit(n, 5) + bit(n, 6) + bit(n, 7)]

complement(u) == [n \in 1 .. 4 |-> 255 - u[n]]

bitand(u, v) == from_ones(ones(u) \cap ones(v))

leading_zeros(u) == IF ones(u) = {} THEN U32_BITS ELSE Min(ones(u))

trailing_zeros(u) ==
    IF ones(u) = {} THEN U32_BITS ELSE U32_BITS - 1 - Max(ones(u))

leading_ones(u) == leading_zeros(complement(u))

(* u32::MAX << amount.  An amount of 32 or more panics in a debug build    *)
(* and is taken modulo 32 in a release build.                              *)
max_shifted_left(amount) == from_ones(0 .. U32_BITS - 1 - (amount % U32_BITS))

-----------------------------------------------------------------------------
(* address.rs.                                                             *)

prefix_to_mask_fails(prefix) == prefix > U32_BITS

(* Mutant: a prefix of 0 is not treated apart.                             *)
prefix_to_mask_always_shifted(prefix) == max_shifted_left(U32_BITS - prefix)

prefix_to_mask(prefix) ==
    IF prefix = 0 THEN <<0, 0, 0, 0>> ELSE max_shifted_left(U32_BITS - prefix)

is_unicast_address(address) ==
    /\ address[1] # 0
    /\ address[1] # 127
    /\ address[1] < 224

(* Mutant: only the ends of the mask are looked at.                        *)
is_net_mask_with_ends(net_mask) ==
    /\ net_mask # <<0, 0, 0, 0>> /\ net_mask # <<255, 255, 255, 255>>
    /\ leading_ones(net_mask) > 0

is_net_mask_valid(net_mask) ==
    /\ net_mask # <<0, 0, 0, 0>>
    /\ net_mask # <<255, 255, 255, 255>>
    /\ trailing_zeros(net_mask) + leading_zeros(complement(net_mask)) = U32_BITS

=============================================================================
