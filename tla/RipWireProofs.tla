---------------------------- MODULE RipWireProofs ----------------------------
(***************************************************************************)
(* Proofs about RipWire: the arithmetic of addresses and masks, the bytes  *)
(* of entries and packets, and from them the properties of the module, for *)
(* all networks, all numbers of routes and entries, both byte orders and   *)
(* all datagrams of other programs.                                        *)
(***************************************************************************)
EXTENDS RipWire, FiniteSetTheorems, SequenceTheorems, TLAPS

-----------------------------------------------------------------------------
(* Bits.                                                                   *)

(* A byte is the sum of what its bits count.                               *)
LEMMA ByteOfBits ==
    ASSUME NEW b \in Byte
    PROVE  b = 128 * ((b \div 128) % 2) + 64 * ((b \div 64) % 2)
               + 32 * ((b \div 32) % 2) + 16 * ((b \div 16) % 2)
               + 8 * ((b \div 8) % 2) + 4 * ((b \div 4) % 2)
               + 2 * ((b \div 2) % 2) + ((b \div 1) % 2)
  BY DEF Byte

(* Eight bits make a byte, which has these bits.                           *)
LEMMA BitsOfByte ==
    ASSUME NEW b0 \in {0, 1}, NEW b1 \in {0, 1}, NEW b2 \in {0, 1},
           NEW b3 \in {0, 1}, NEW b4 \in {0, 1}, NEW b5 \in {0, 1},
           NEW b6 \in {0, 1}, NEW b7 \in {0, 1},
           NEW b, b = 128 * b0 + 64 * b1 + 32 * b2 + 16 * b3
                      + 8 * b4 + 4 * b5 + 2 * b6 + b7
    PROVE  /\ b \in Byte
           /\ (b \div 128) % 2 = b0
           /\ (b \div 64) % 2 = b1
           /\ (b \div 32) % 2 = b2
           /\ (b \div 16) % 2 = b3
           /\ (b \div 8) % 2 = b4
           /\ (b \div 4) % 2 = b5
           /\ (b \div 2) % 2 = b6
           /\ (b \div 1) % 2 = b7
  BY DEF Byte

(* The positions of the ones, byte by byte.                                *)
LEMMA OnesByByte ==
    ASSUME NEW u \in u32, NEW n \in 1 .. 4
    PROVE  /\ 8 * (n - 1) \in ones(u) <=> (u[n] \div 128) % 2 = 1
           /\ 8 * (n - 1) + 1 \in ones(u) <=> (u[n] \div 64) % 2 = 1
           /\ 8 * (n - 1) + 2 \in ones(u) <=> (u[n] \div 32) % 2 = 1
           /\ 8 * (n - 1) + 3 \in ones(u) <=> (u[n] \div 16) % 2 = 1
           /\ 8 * (n - 1) + 4 \in ones(u) <=> (u[n] \div 8) % 2 = 1
           /\ 8 * (n - 1) + 5 \in ones(u) <=> (u[n] \div 4) % 2 = 1
           /\ 8 * (n - 1) + 6 \in ones(u) <=> (u[n] \div 2) % 2 = 1
           /\ 8 * (n - 1) + 7 \in ones(u) <=> (u[n] \div 1) % 2 = 1
  <1>1. \A k \in 0 .. 7 :
            /\ 8 * (n - 1) + k \in 0 .. 31
            /\ (8 * (n - 1) + k) \div 8 = n - 1
            /\ (8 * (n - 1) + k) % 8 = k
    OBVIOUS
  <1>2. \A k \in 0 .. 7 :
            8 * (n - 1) + k \in ones(u) <=> (u[n] \div weight[k + 1]) % 2 = 1
    BY <1>1 DEF ones, U32_BITS
  <1> QED  BY <1>2 DEF weight

LEMMA EveryPosition ==
    ASSUME NEW i \in 0 .. 31
    PROVE  \E n \in 1 .. 4, k \in 0 .. 7 : i = 8 * (n - 1) + k
  <1>1. /\ (i \div 8) + 1 \in 1 .. 4
        /\ i % 8 \in 0 .. 7
        /\ i = 8 * (((i \div 8) + 1) - 1) + (i % 8)
    OBVIOUS
  <1> QED  BY <1>1

(* from_ones and ones are inverse to each other.                           *)
LEMMA FromOnesOnes ==
    ASSUME NEW u \in u32
    PROVE  from_ones(ones(u)) = u
  <1>1. \A n \in 1 .. 4 : from_ones(ones(u))[n] = u[n]
    <2> SUFFICES ASSUME NEW n \in 1 .. 4
                 PROVE  from_ones(ones(u))[n] = u[n]
      OBVIOUS
    <2>1. u[n] \in Byte
      BY DEF u32
    <2> DEFINE bit(k, w) == IF 8 * (n - 1) + k \in ones(u) THEN w ELSE 0
    <2>2. from_ones(ones(u))[n]
              = bit(0, 128) + bit(1, 64) + bit(2, 32) + bit(3, 16)
                + bit(4, 8) + bit(5, 4) + bit(6, 2) + bit(7, 1)
      BY DEF from_ones, weight
    <2>3. /\ bit(0, 128) = 128 * ((u[n] \div 128) % 2)
          /\ bit(1, 64) = 64 * ((u[n] \div 64) % 2)
          /\ bit(2, 32) = 32 * ((u[n] \div 32) % 2)
          /\ bit(3, 16) = 16 * ((u[n] \div 16) % 2)
          /\ bit(4, 8) = 8 * ((u[n] \div 8) % 2)
          /\ bit(5, 4) = 4 * ((u[n] \div 4) % 2)
          /\ bit(6, 2) = 2 * ((u[n] \div 2) % 2)
          /\ bit(7, 1) = (u[n] \div 1) % 2
      BY <2>1, OnesByByte DEF Byte
    <2> QED  BY <2>1, <2>2, <2>3, ByteOfBits
  <1>2. from_ones(ones(u)) = [n \in 1 .. 4 |-> from_ones(ones(u))[n]]
    BY DEF from_ones
  <1>3. u = [n \in 1 .. 4 |-> u[n]]
    BY DEF u32
  <1> QED  BY <1>1, <1>2, <1>3

LEMMA OnesFromOnes ==
    ASSUME NEW S, S \subseteq 0 .. 31
    PROVE  from_ones(S) \in u32 /\ ones(from_ones(S)) = S
  <1> DEFINE u == from_ones(S)
  <1> DEFINE bit(n, k) == IF 8 * (n - 1) + k \in S THEN 1 ELSE 0
  <1>1. ASSUME NEW n \in 1 .. 4
        PROVE  /\ u[n] \in Byte
               /\ (u[n] \div 128) % 2 = bit(n, 0)
               /\ (u[n] \div 64) % 2 = bit(n, 1)
               /\ (u[n] \div 32) % 2 = bit(n, 2)
               /\ (u[n] \div 16) % 2 = bit(n, 3)
               /\ (u[n] \div 8) % 2 = bit(n, 4)
               /\ (u[n] \div 4) % 2 = bit(n, 5)
               /\ (u[n] \div 2) % 2 = bit(n, 6)
               /\ (u[n] \div 1) % 2 = bit(n, 7)
    <2>1. u[n] = 128 * bit(n, 0) + 64 * bit(n, 1) + 32 * bit(n, 2)
                 + 16 * bit(n, 3) + 8 * bit(n, 4) + 4 * bit(n, 5)
                 + 2 * bit(n, 6) + bit(n, 7)
      BY DEF from_ones, weight
    <2>2. \A k \in 0 .. 7 : bit(n, k) \in {0, 1}
      OBVIOUS
    <2> HIDE DEF u, bit
    <2> QED  BY <2>1, <2>2, BitsOfByte
  <1>2. u \in u32
    <2>1. u = [n \in 1 .. 4 |-> u[n]]
      BY DEF from_ones
    <2> QED  BY <1>1, <2>1 DEF u32
  <1>3. \A n \in 1 .. 4, k \in 0 .. 7 :
            8 * (n - 1) + k \in ones(u) <=> 8 * (n - 1) + k \in S
    <2> SUFFICES ASSUME NEW n \in 1 .. 4, NEW k \in 0 .. 7
                 PROVE  8 * (n - 1) + k \in ones(u) <=> bit(n, k) = 1
      OBVIOUS
    <2> HIDE DEF u, bit
    <2> QED  BY <1>1, <1>2, OnesByByte
  <1>4. ones(u) \subseteq 0 .. 31
    BY DEF ones, U32_BITS
  <1> HIDE DEF u
  <1>5. \A i \in 0 .. 31 : i \in ones(u) <=> i \in S
    BY <1>3, EveryPosition
  <1>6. ones(u) = S
    BY <1>4, <1>5
  <1> QED  BY <1>2, <1>6 DEF u

-----------------------------------------------------------------------------
(* Masks.                                                                  *)

LEMMA ComplementOfByte ==
    ASSUME NEW b \in Byte
    PROVE  /\ 255 - b \in Byte
           /\ ((255 - b) \div 128) % 2 = 1 <=> (b \div 128) % 2 # 1
           /\ ((255 - b) \div 64) % 2 = 1 <=> (b \div 64) % 2 # 1
           /\ ((255 - b) \div 32) % 2 = 1 <=> (b \div 32) % 2 # 1
           /\ ((255 - b) \div 16) % 2 = 1 <=> (b \div 16) % 2 # 1
           /\ ((255 - b) \div 8) % 2 = 1 <=> (b \div 8) % 2 # 1
           /\ ((255 - b) \div 4) % 2 = 1 <=> (b \div 4) % 2 # 1
           /\ ((255 - b) \div 2) % 2 = 1 <=> (b \div 2) % 2 # 1
           /\ ((255 - b) \div 1) % 2 = 1 <=> (b \div 1) % 2 # 1
  <1> DEFINE bit(w) == (b \div w) % 2
  <1>1. /\ bit(128) \in {0, 1} /\ bit(64) \in {0, 1} /\ bit(32) \in {0, 1}
        /\ bit(16) \in {0, 1} /\ bit(8) \in {0, 1} /\ bit(4) \in {0, 1}
        /\ bit(2) \in {0, 1} /\ bit(1) \in {0, 1}
    BY DEF Byte
  <1>2. b = 128 * bit(128) + 64 * bit(64) + 32 * bit(32) + 16 * bit(16)
            + 8 * bit(8) + 4 * bit(4) + 2 * bit(2) + bit(1)
    BY ByteOfBits
  <1> HIDE DEF bit
  <1>3. 255 - b = 128 * (1 - bit(128)) + 64 * (1 - bit(64))
                  + 32 * (1 - bit(32)) + 16 * (1 - bit(16))
                  + 8 * (1 - bit(8)) + 4 * (1 - bit(4))
                  + 2 * (1 - bit(2)) + (1 - bit(1))
    BY <1>1, <1>2
  <1>4. /\ 1 - bit(128) \in {0, 1} /\ 1 - bit(64) \in {0, 1}
        /\ 1 - bit(32) \in {0, 1} /\ 1 - bit(16) \in {0, 1}
        /\ 1 - bit(8) \in {0, 1} /\ 1 - bit(4) \in {0, 1}
        /\ 1 - bit(2) \in {0, 1} /\ 1 - bit(1) \in {0, 1}
    BY <1>1
  <1>5. /\ 255 - b \in Byte
        /\ ((255 - b) \div 128) % 2 = 1 - bit(128)
        /\ ((255 - b) \div 64) % 2 = 1 - bit(64)
        /\ ((255 - b) \div 32) % 2 = 1 - bit(32)
        /\ ((255 - b) \div 16) % 2 = 1 - bit(16)
        /\ ((255 - b) \div 8) % 2 = 1 - bit(8)
        /\ ((255 - b) \div 4) % 2 = 1 - bit(4)
        /\ ((255 - b) \div 2) % 2 = 1 - bit(2)
        /\ ((255 - b) \div 1) % 2 = 1 - bit(1)
    BY <1>3, <1>4, BitsOfByte
  <1>6. /\ ((255 - b) \div 128) % 2 = 1 <=> bit(128) # 1
        /\ ((255 - b) \div 64) % 2 = 1 <=> bit(64) # 1
        /\ ((255 - b) \div 32) % 2 = 1 <=> bit(32) # 1
        /\ ((255 - b) \div 16) % 2 = 1 <=> bit(16) # 1
        /\ ((255 - b) \div 8) % 2 = 1 <=> bit(8) # 1
        /\ ((255 - b) \div 4) % 2 = 1 <=> bit(4) # 1
        /\ ((255 - b) \div 2) % 2 = 1 <=> bit(2) # 1
        /\ ((255 - b) \div 1) % 2 = 1 <=> bit(1) # 1
    BY <1>1, <1>5
  <1> QED  BY <1>5, <1>6 DEF bit

LEMMA ComplementOnes ==
    ASSUME NEW u \in u32
    PROVE  complement(u) \in u32 /\ ones(complement(u)) = (0 .. 31) \ ones(u)
  <1> DEFINE v == complement(u)
  <1>1. \A n \in 1 .. 4 : u[n] \in Byte /\ v[n] = 255 - u[n]
    BY DEF complement, u32
  <1>2. v \in u32
    <2>1. v = [n \in 1 .. 4 |-> v[n]]
      BY DEF complement
    <2>2. \A n \in 1 .. 4 : v[n] \in Byte
      BY <1>1, ComplementOfByte
    <2> QED  BY <2>1, <2>2 DEF u32
  <1>3. \A n \in 1 .. 4, k \in 0 .. 7 :
            8 * (n - 1) + k \in ones(v) <=> 8 * (n - 1) + k \notin ones(u)
    <2> SUFFICES ASSUME NEW n \in 1 .. 4, NEW k \in 0 .. 7
                 PROVE  8 * (n - 1) + k \in ones(v)
                            <=> 8 * (n - 1) + k \notin ones(u)
      OBVIOUS
    <2> HIDE DEF v
    <2>1. u[n] \in Byte /\ v[n] = 255 - u[n]
      BY <1>1
    <2>2. /\ (v[n] \div 128) % 2 = 1 <=> (u[n] \div 128) % 2 # 1
          /\ (v[n] \div 64) % 2 = 1 <=> (u[n] \div 64) % 2 # 1
          /\ (v[n] \div 32) % 2 = 1 <=> (u[n] \div 32) % 2 # 1
          /\ (v[n] \div 16) % 2 = 1 <=> (u[n] \div 16) % 2 # 1
          /\ (v[n] \div 8) % 2 = 1 <=> (u[n] \div 8) % 2 # 1
          /\ (v[n] \div 4) % 2 = 1 <=> (u[n] \div 4) % 2 # 1
          /\ (v[n] \div 2) % 2 = 1 <=> (u[n] \div 2) % 2 # 1
          /\ (v[n] \div 1) % 2 = 1 <=> (u[n] \div 1) % 2 # 1
      BY <2>1, ComplementOfByte
    <2> QED  BY <1>2, <2>2, OnesByByte
  <1>4. ones(v) \subseteq 0 .. 31
    BY DEF ones, U32_BITS
  <1> HIDE DEF v
  <1>5. \A i \in 0 .. 31 : i \in ones(v) <=> i \notin ones(u)
    BY <1>3, EveryPosition
  <1>6. ones(v) = (0 .. 31) \ ones(u)
    BY <1>4, <1>5
  <1> QED  BY <1>2, <1>6 DEF v

LEMMA NoOnes ==
    /\ <<0, 0, 0, 0>> \in u32 /\ ones(<<0, 0, 0, 0>>) = {}
    /\ <<0, 0, 0, 0>> = from_ones({})
  <1> DEFINE z == [n \in 1 .. 4 |-> 0]
  <1>1. z \in u32
    BY DEF u32, Byte
  <1>2. z = <<0, 0, 0, 0>>
    OBVIOUS
  <1>3. from_ones({}) = z
    BY DEF from_ones, weight
  <1>4. ones(z) = {}
    BY <1>3, OnesFromOnes
  <1> QED  BY <1>1, <1>2, <1>3, <1>4

LEMMA AllOnes ==
    /\ <<255, 255, 255, 255>> \in u32
    /\ ones(<<255, 255, 255, 255>>) = 0 .. 31
    /\ <<255, 255, 255, 255>> = from_ones(0 .. 31)
  <1> DEFINE f == [n \in 1 .. 4 |-> 255]
  <1>1. f \in u32
    BY DEF u32, Byte
  <1>2. f = <<255, 255, 255, 255>>
    OBVIOUS
  <1>3. from_ones(0 .. 31) = f
    BY DEF from_ones, weight
  <1>4. ones(f) = 0 .. 31
    BY <1>3, OnesFromOnes
  <1> QED  BY <1>1, <1>2, <1>3, <1>4

(* The mask of a prefix, 0 and 32 included.                                *)
LEMMA PrefixMask ==
    ASSUME NEW p \in 0 .. 32
    PROVE  /\ prefix_to_mask(p) = from_ones(0 .. p - 1)
           /\ prefix_to_mask(p) \in u32
           /\ ones(prefix_to_mask(p)) = 0 .. p - 1
           /\ ones(complement(prefix_to_mask(p))) = p .. 31
  <1>1. prefix_to_mask(p) = from_ones(0 .. p - 1)
    <2>1. CASE p = 0
      <3>1. 0 .. p - 1 = {}
        BY <2>1
      <3> QED  BY <2>1, <3>1, NoOnes DEF prefix_to_mask
    <2>2. CASE p \in 1 .. 32
      <3>1. 32 - 1 - ((32 - p) % 32) = p - 1
        BY <2>2
      <3>2. prefix_to_mask(p) = from_ones(0 .. 32 - 1 - ((32 - p) % 32))
        BY <2>2 DEF prefix_to_mask, max_shifted_left, U32_BITS
      <3> QED  BY <3>1, <3>2
    <2> QED  BY <2>1, <2>2
  <1>2. 0 .. p - 1 \subseteq 0 .. 31
    OBVIOUS
  <1>3. /\ prefix_to_mask(p) \in u32
        /\ ones(prefix_to_mask(p)) = 0 .. p - 1
    BY <1>1, <1>2, OnesFromOnes
  <1>4. (0 .. 31) \ (0 .. p - 1) = p .. 31
    OBVIOUS
  <1> QED  BY <1>1, <1>3, <1>4, ComplementOnes

(* Min and Max of a set of positions are what their names say.             *)
LEMMA MinOfPositions ==
    ASSUME NEW S, S \subseteq 0 .. 31, S # {}
    PROVE  Min(S) \in S /\ \A x \in S : Min(S) <= x
  <1>1. \E m \in S : \A x \in S : m <= x
    <2> SUFFICES ASSUME \A m \in S : \E x \in S : x < m
                 PROVE  FALSE
      BY DEF Min
    <2>1. \A i \in 0 .. 7 : i \notin S
      OBVIOUS
    <2>2. \A i \in 8 .. 15 : i \notin S
      BY <2>1
    <2>3. \A i \in 16 .. 23 : i \notin S
      BY <2>1, <2>2
    <2>4. \A i \in 24 .. 31 : i \notin S
      BY <2>1, <2>2, <2>3
    <2>5. PICK i \in S : TRUE
      OBVIOUS
    <2>6. i \in 0 .. 7 \/ i \in 8 .. 15 \/ i \in 16 .. 23 \/ i \in 24 .. 31
      OBVIOUS
    <2> QED  BY <2>1, <2>2, <2>3, <2>4, <2>5, <2>6
  <1> QED  BY <1>1 DEF Min

LEMMA MaxOfPositions ==
    ASSUME NEW S, S \subseteq 0 .. 31, S # {}
    PROVE  Max(S) \in S /\ \A x \in S : x <= Max(S)
  <1> DEFINE T == {31 - x : x \in S}
  <1>1. T \subseteq 0 .. 31 /\ T # {}
    <2>1. PICK x \in S : TRUE
      OBVIOUS
    <2>2. 31 - x \in T
      OBVIOUS
    <2>3. \A y \in S : 31 - y \in 0 .. 31
      OBVIOUS
    <2> QED  BY <2>2, <2>3
  <1>2. PICK m \in T : \A y \in T : m <= y
    BY <1>1, MinOfPositions
  <1>3. PICK x \in S : m = 31 - x
    OBVIOUS
  <1>4. ASSUME NEW y \in S
        PROVE  y <= x
    <2>1. 31 - y \in T
      OBVIOUS
    <2>2. 31 - x <= 31 - y
      BY <1>2, <1>3, <2>1
    <2>3. x \in 0 .. 31 /\ y \in 0 .. 31
      OBVIOUS
    <2> QED  BY <2>2, <2>3
  <1> QED  BY <1>4 DEF Max

(* What is_net_mask_valid and leading_ones say of the mask of a prefix.    *)
LEMMA MaskOfPrefix ==
    ASSUME NEW p \in 0 .. 32
    PROVE  /\ leading_ones(prefix_to_mask(p)) = p
           /\ is_net_mask_valid(prefix_to_mask(p)) <=> p \in 1 .. 31
  <1> DEFINE m == prefix_to_mask(p)
  <1>1. ones(m) = 0 .. p - 1 /\ ones(complement(m)) = p .. 31
    BY PrefixMask
  <1> HIDE DEF m
  <1>2. leading_zeros(complement(m)) = p
    <2>1. CASE p = 32
      <3>1. ones(complement(m)) = {}
        BY <1>1, <2>1
      <3> QED  BY <2>1, <3>1 DEF leading_zeros, U32_BITS
    <2>2. CASE p \in 0 .. 31
      <3>1. p \in p .. 31 /\ p .. 31 \subseteq 0 .. 31
        BY <2>2
      <3>2. Min(p .. 31) \in p .. 31 /\ \A x \in p .. 31 : Min(p .. 31) <= x
        <4>1. p .. 31 # {}
          BY <3>1
        <4> QED  BY <3>1, <4>1, MinOfPositions
      <3>3. Min(p .. 31) = p
        BY <3>1, <3>2
      <3>4. ones(complement(m)) # {}
        BY <1>1, <3>1
      <3> QED  BY <1>1, <3>3, <3>4 DEF leading_zeros
    <2> QED  BY <2>1, <2>2
  <1>3. CASE p = 0
    <2>1. ones(m) = {} /\ m = from_ones({})
      <3>1. 0 .. p - 1 = {}
        BY <1>3
      <3> QED  BY <1>1, <3>1, PrefixMask DEF m
    <2>2. m = <<0, 0, 0, 0>>
      BY <2>1, NoOnes
    <2> QED  BY <1>2, <1>3, <2>2 DEF is_net_mask_valid, leading_ones, m
  <1>4. CASE p = 32
    <2>1. m = from_ones(0 .. 31)
      BY <1>4, PrefixMask DEF m
    <2>2. m = <<255, 255, 255, 255>>
      BY <2>1, AllOnes
    <2> QED  BY <1>2, <1>4, <2>2 DEF is_net_mask_valid, leading_ones, m
  <1>5. CASE p \in 1 .. 31
    <2>1. m # <<0, 0, 0, 0>>
      <3>1. 0 \in ones(m)
        BY <1>1, <1>5
      <3> QED  BY <3>1, NoOnes
    <2>2. m # <<255, 255, 255, 255>>
      <3>1. 31 \notin ones(m)
        BY <1>1, <1>5
      <3> QED  BY <3>1, AllOnes
    <2>3. trailing_zeros(m) = 32 - p
      <3> DEFINE S == 0 .. p - 1
      <3>1. p - 1 \in S /\ S \subseteq 0 .. 31
        BY <1>5
      <3>2. Max(S) \in S /\ \A x \in S : x <= Max(S)
        <4>1. S # {}
          BY <3>1
        <4> HIDE DEF S
        <4> QED  BY <3>1, <4>1, MaxOfPositions
      <3>3. Max(S) = p - 1
        BY <3>1, <3>2
      <3>4. ones(m) = S /\ ones(m) # {}
        BY <1>1, <3>1
      <3> HIDE DEF S
      <3>5. trailing_zeros(m) = 31 - (p - 1)
        BY <3>3, <3>4 DEF trailing_zeros, U32_BITS
      <3> QED  BY <3>5
    <2> QED  BY <1>2, <1>5, <2>1, <2>2, <2>3
             DEF is_net_mask_valid, leading_ones, U32_BITS, m
  <1> QED  BY <1>3, <1>4, <1>5

(* A mask that is_net_mask_valid accepts is the mask of its leading ones.  *)
LEMMA ValidMask ==
    ASSUME NEW m \in u32, is_net_mask_valid(m)
    PROVE  /\ leading_ones(m) \in 1 .. 31
           /\ m = from_ones(0 .. leading_ones(m) - 1)
  <1> DEFINE on == ones(m)
             off == ones(complement(m))
  <1>1. on \subseteq 0 .. 31 /\ off = (0 .. 31) \ on
    BY ComplementOnes DEF ones, U32_BITS
  <1>2. m = from_ones(on)
    BY FromOnesOnes
  <1>3. on # {}
    BY <1>2, NoOnes DEF is_net_mask_valid
  <1>4. off # {}
    <2>1. SUFFICES ASSUME off = {}
                   PROVE  FALSE
      OBVIOUS
    <2>2. on = 0 .. 31
      BY <1>1, <2>1
    <2> QED  BY <1>2, <2>2, AllOnes DEF is_net_mask_valid
  <1> HIDE DEF on, off
  <1>5. off \subseteq 0 .. 31
    BY <1>1
  <1>6. Max(on) \in on /\ \A x \in on : x <= Max(on)
    BY <1>1, <1>3, MaxOfPositions
  <1>7. Min(off) \in off /\ \A x \in off : Min(off) <= x
    BY <1>4, <1>5, MinOfPositions
  <1>8. leading_ones(m) = Min(off)
    BY <1>4 DEF leading_ones, leading_zeros, off
  <1>9. 31 - Max(on) + Min(off) = 32
    BY <1>3, <1>4, <1>8, <1>1, <1>6
       DEF is_net_mask_valid, trailing_zeros, leading_zeros, leading_ones,
           U32_BITS, on, off
  <1>10. /\ Max(on) \in 0 .. 31 /\ Min(off) \in 1 .. 31
         /\ Max(on) = Min(off) - 1
    <2>1. Max(on) \in 0 .. 31 /\ Min(off) \in 0 .. 31
      BY <1>1, <1>5, <1>6, <1>7
    <2> QED  BY <2>1, <1>9
  <1>11. on = 0 .. Min(off) - 1
    <2>1. ASSUME NEW x \in on
          PROVE  x \in 0 .. Min(off) - 1
      <3>1. x \in 0 .. 31 /\ x <= Max(on)
        BY <1>1, <1>6
      <3> QED  BY <3>1, <1>10
    <2>2. ASSUME NEW x \in 0 .. Min(off) - 1
          PROVE  x \in on
      <3>1. x \in 0 .. 31 /\ ~(Min(off) <= x)
        BY <1>10
      <3>2. x \notin off
        BY <3>1, <1>7
      <3> QED  BY <1>1, <3>1, <3>2
    <2> QED  BY <2>1, <2>2
  <1> QED  BY <1>2, <1>8, <1>10, <1>11

(* Of all 2^32 masks is_net_mask_valid accepts exactly those that          *)
(* prefix_to_mask makes of the prefixes 1 to 31: counting zeros at both    *)
(* ends leaves no mask with a hole.                                        *)
THEOREM MasksAccepted ==
    \A m \in u32 :
        is_net_mask_valid(m) <=> \E p \in 1 .. 31 : m = prefix_to_mask(p)
  <1> TAKE m \in u32
  <1>1. ASSUME is_net_mask_valid(m)
        PROVE  \E p \in 1 .. 31 : m = prefix_to_mask(p)
    <2>1. leading_ones(m) \in 1 .. 31 /\ m = from_ones(0 .. leading_ones(m) - 1)
      BY <1>1, ValidMask
    <2> DEFINE p == leading_ones(m)
    <2>2. p \in 1 .. 31 /\ m = from_ones(0 .. p - 1)
      BY <2>1
    <2> HIDE DEF p
    <2>3. p \in 0 .. 32
      BY <2>2
    <2>4. m = prefix_to_mask(p)
      BY <2>2, <2>3, PrefixMask
    <2> QED  BY <2>2, <2>4
  <1>2. ASSUME NEW p \in 1 .. 31, m = prefix_to_mask(p)
        PROVE  is_net_mask_valid(m)
    BY <1>2, MaskOfPrefix
  <1> QED  BY <1>1, <1>2

-----------------------------------------------------------------------------
(* The entry of a configured network.                                      *)

u16 == [1 .. 2 -> Byte]

Entry == [routing_family_id : u16, route_tag : u16, ip_address : u32,
          subnet_mask : u32, next_hop : u32, metric : u32]

LEMMA SmallIntegers ==
    /\ <<0, 0>> \in u16 /\ <<0, 2>> \in u16
    /\ <<0, 0, 0, 0>> \in u32 /\ <<0, 0, 0, 1>> \in u32
    /\ <<0, 0, 0, 16>> \in u32
  BY DEF u16, u32, Byte

LEMMA UnicastAddress ==
    ASSUME NEW a \in u32
    PROVE  is_unicast_address(a) <=> a[1] \notin {0, 127} \cup 224 .. 255
  <1>1. a[1] \in 0 .. 255
    BY DEF u32, Byte
  <1> QED  BY <1>1 DEF is_unicast_address

LEMMA LocalEntry ==
    ASSUME NEW network \in Network, network.prefix \in 0 .. 32
    PROVE  /\ local_entry(network) \in Entry
           /\ route(local_entry(network)) = Destination(network)
           /\ is_entry_valid(local_entry(network)) <=> Believable(network)
  <1> DEFINE e == local_entry(network)
             p == network.prefix
             m == prefix_to_mask(p)
             S == {i \in ones(network.address) : i < p}
  <1>1. network.address \in u32
    BY WireAssumption
  <1>2. /\ m = from_ones(0 .. p - 1) /\ m \in u32 /\ ones(m) = 0 .. p - 1
        /\ leading_ones(m) = p
        /\ is_net_mask_valid(m) <=> p \in 1 .. 31
    BY PrefixMask, MaskOfPrefix
  <1>3. S \subseteq 0 .. 31 /\ ones(network.address) \cap (0 .. p - 1) = S
    BY DEF ones, U32_BITS
  <1>4. e.ip_address = from_ones(S) /\ e.ip_address \in u32
    BY <1>2, <1>3, OnesFromOnes DEF local_entry, bitand
  <1>5. e.subnet_mask = m /\ e.metric = <<0, 0, 0, 1>>
    BY DEF local_entry
  <1>6. e \in Entry
    BY <1>2, <1>4, SmallIntegers DEF local_entry, Entry
  <1>7. route(e) = Destination(network)
    BY <1>2, <1>4, <1>5 DEF route, Destination
  <1>8. metric_of(e) = 1
    <2> DEFINE v == SubSeq(<<0, 0, 0, 1>>, 1, 3)
    <2>1. v = <<0, 0, 0>>
      <3>1. /\ v \in Seq(Nat) /\ Len(v) = 3
            /\ v[1] = 0 /\ v[2] = 0 /\ v[3] = 0
        BY SubSeqProperties
      <3>2. <<0, 0, 0>> \in Seq(Nat)
        OBVIOUS
      <3> HIDE DEF v
      <3> QED  BY <3>1, <3>2, SeqEqual
    <2> QED  BY <1>5, <2>1 DEF metric_of
  <1>9. is_unicast_address(e.ip_address)
            <=> Destination(network).destination[1] \notin {0, 127} \cup 224 .. 255
    <2>1. Destination(network).destination = e.ip_address
      BY <1>4 DEF Destination
    <2> HIDE DEF e
    <2> QED  BY <1>4, <2>1, UnicastAddress
  <1>10. is_entry_valid(e) <=> Believable(network)
    BY <1>2, <1>5, <1>8, <1>9 DEF is_entry_valid, Believable, U32_BITS
  <1> QED  BY <1>6, <1>7, <1>10

-----------------------------------------------------------------------------
(* The bytes of an entry.                                                  *)

LEMMA ReverseOnce ==
    ASSUME NEW s \in Seq(Byte)
    PROVE  /\ Reverse(s) \in Seq(Byte) /\ Len(Reverse(s)) = Len(s)
           /\ \A i \in 1 .. Len(s) : Reverse(s)[i] = s[(Len(s) - i) + 1]
  BY DEF Reverse

LEMMA ReverseTwice ==
    ASSUME NEW s \in Seq(Byte)
    PROVE  Reverse(Reverse(s)) = s
  <1> DEFINE r == Reverse(s)
  <1>1. /\ r \in Seq(Byte) /\ Len(r) = Len(s)
        /\ \A i \in 1 .. Len(s) : r[i] = s[(Len(s) - i) + 1]
    BY ReverseOnce
  <1> HIDE DEF r
  <1>2. /\ Reverse(r) \in Seq(Byte) /\ Len(Reverse(r)) = Len(s)
        /\ \A i \in 1 .. Len(s) : Reverse(r)[i] = r[(Len(s) - i) + 1]
    BY <1>1, ReverseOnce
  <1>3. ASSUME NEW i \in 1 .. Len(s)
        PROVE  Reverse(r)[i] = s[i]
    <2>1. (Len(s) - i) + 1 \in 1 .. Len(s)
      OBVIOUS
    <2>2. (Len(s) - ((Len(s) - i) + 1)) + 1 = i
      OBVIOUS
    <2> QED  BY <1>1, <1>2, <2>1, <2>2
  <1>4. Reverse(r) = s
    BY <1>2, <1>3, SeqEqual
  <1> QED  BY <1>4 DEF r

(* to_be undoes what the byte order of the machine does.                   *)
LEMMA BigEndianInMemory ==
    ASSUME NEW s \in Seq(Byte)
    PROVE  in_memory(to_be_int(s)) = s
  BY ReverseTwice DEF in_memory, to_be_int

LEMMA FunctionIsSequence ==
    ASSUME NEW S, NEW n \in Nat, NEW s \in [1 .. n -> S]
    PROVE  s \in Seq(S) /\ Len(s) = n
  <1>1. s \in Seq(S)
    BY SeqDef
  <1>2. DOMAIN s = 1 .. Len(s) /\ DOMAIN s = 1 .. n /\ Len(s) \in Nat
    BY <1>1, LenProperties
  <1> QED  BY <1>1, <1>2

LEMMA IntegersAreSequences ==
    /\ \A s \in u16 : s \in Seq(Byte) /\ Len(s) = 2
    /\ \A s \in u32 : s \in Seq(Byte) /\ Len(s) = 4
  BY FunctionIsSequence DEF u16, u32

LEMMA SliceOfConcat ==
    ASSUME NEW s \in Seq(Byte), NEW t \in Seq(Byte)
    PROVE  /\ s \o t \in Seq(Byte) /\ Len(s \o t) = Len(s) + Len(t)
           /\ SubSeq(s \o t, Len(s) + 1, Len(s) + Len(t)) = t
           /\ \A i \in 1 .. Len(s), j \in 1 .. Len(s) :
                  SubSeq(s \o t, i, j) = SubSeq(s, i, j)
  <1>1. /\ s \o t \in Seq(Byte) /\ Len(s \o t) = Len(s) + Len(t)
        /\ \A i \in 1 .. Len(s) + Len(t) :
               (s \o t)[i] = IF i <= Len(s) THEN s[i] ELSE t[i - Len(s)]
    BY ConcatProperties
  <1>2. SubSeq(s \o t, Len(s) + 1, Len(s) + Len(t)) = t
    <2> DEFINE v == SubSeq(s \o t, Len(s) + 1, Len(s) + Len(t))
    <2>1. /\ v \in Seq(Byte) /\ Len(v) = Len(t)
          /\ \A i \in 1 .. Len(t) : v[i] = (s \o t)[Len(s) + i]
      BY <1>1
    <2>2. \A i \in 1 .. Len(t) : v[i] = t[i]
      BY <1>1, <2>1
    <2> QED  BY <2>1, <2>2, SeqEqual
  <1>3. ASSUME NEW i \in 1 .. Len(s), NEW j \in 1 .. Len(s)
        PROVE  SubSeq(s \o t, i, j) = SubSeq(s, i, j)
    <2> DEFINE v == SubSeq(s \o t, i, j)
               w == SubSeq(s, i, j)
    <2>1. /\ v \in Seq(Byte) /\ w \in Seq(Byte) /\ Len(v) = Len(w)
          /\ \A k \in 1 .. Len(v) : v[k] = (s \o t)[i + k - 1]
          /\ \A k \in 1 .. Len(v) : w[k] = s[i + k - 1]
          /\ \A k \in 1 .. Len(v) : i + k - 1 \in 1 .. Len(s)
      BY <1>1
    <2>2. \A k \in 1 .. Len(v) : v[k] = w[k]
      BY <1>1, <2>1
    <2> QED  BY <2>1, <2>2, SeqEqual
  <1> QED  BY <1>1, <1>2, <1>3

(* The same with the numbers written out.  Slice stands for SubSeq, which  *)
(* the provers would otherwise expand.                                     *)
Slice(s, from, to) == SubSeq(s, from, to)

Appended(s, t, from, to) ==
    /\ s \o t \in Seq(Byte) /\ Len(s \o t) = to
    /\ Slice(s \o t, from, to) = t
    /\ \A i, j \in 1 .. from - 1 : Slice(s \o t, i, j) = Slice(s, i, j)

LEMMA AppendSlice ==
    ASSUME NEW s \in Seq(Byte), NEW t \in Seq(Byte),
           NEW from \in Nat, NEW to \in Nat,
           Len(s) = from - 1, Len(t) = to - from + 1
    PROVE  Appended(s, t, from, to)
  <1>1. Len(s) + 1 = from /\ Len(s) + Len(t) = to /\ Len(s) = from - 1
    OBVIOUS
  <1>2. /\ s \o t \in Seq(Byte) /\ Len(s \o t) = Len(s) + Len(t)
        /\ Slice(s \o t, Len(s) + 1, Len(s) + Len(t)) = t
        /\ \A i \in 1 .. Len(s), j \in 1 .. Len(s) :
               Slice(s \o t, i, j) = Slice(s, i, j)
    BY SliceOfConcat DEF Slice
  <1> QED  BY <1>1, <1>2 DEF Appended

(* An entry survives the way over the wire, whatever the byte order.       *)
LEMMA EntryBytes ==
    ASSUME NEW e \in Entry
    PROVE  /\ entry_as_bytes(to_be(e)) \in Seq(Byte)
           /\ Len(entry_as_bytes(to_be(e))) = RIP_ENTRY_SIZE
           /\ entry_from_slice(entry_as_bytes(to_be(e))) = e
  <1> DEFINE s1 == e.routing_family_id
             s2 == e.route_tag
             s3 == e.ip_address
             s4 == e.subnet_mask
             s5 == e.next_hop
             s6 == e.metric
             t2 == s1 \o s2
             t3 == t2 \o s3
             t4 == t3 \o s4
             t5 == t4 \o s5
             t6 == t5 \o s6
  <1>1. /\ s1 \in Seq(Byte) /\ Len(s1) = 2 /\ s2 \in Seq(Byte) /\ Len(s2) = 2
        /\ s3 \in Seq(Byte) /\ Len(s3) = 4 /\ s4 \in Seq(Byte) /\ Len(s4) = 4
        /\ s5 \in Seq(Byte) /\ Len(s5) = 4 /\ s6 \in Seq(Byte) /\ Len(s6) = 4
    BY IntegersAreSequences DEF Entry
  <1>2. entry_as_bytes(to_be(e)) = t6
    <2>1. /\ in_memory(to_be_int(s1)) = s1 /\ in_memory(to_be_int(s2)) = s2
          /\ in_memory(to_be_int(s3)) = s3 /\ in_memory(to_be_int(s4)) = s4
          /\ in_memory(to_be_int(s5)) = s5 /\ in_memory(to_be_int(s6)) = s6
      BY <1>1, BigEndianInMemory
    <2> QED  BY <2>1 DEF entry_as_bytes, to_be
  <1>3. e = [routing_family_id |-> s1, route_tag |-> s2, ip_address |-> s3,
             subnet_mask |-> s4, next_hop |-> s5, metric |-> s6]
    BY DEF Entry
  <1> HIDE DEF s1, s2, s3, s4, s5, s6
  <1>4. /\ t2 \in Seq(Byte) /\ Len(t2) = 4
        /\ Slice(t2, 1, 2) = s1
        /\ Slice(t2, 3, 4) = s2
    <2>1. Slice(s1, 1, 2) = s1
      BY <1>1, SubSeqFull DEF Slice
    <2>2. Appended(s1, s2, 3, 4)
      <3>1. /\ 3 \in Nat /\ 4 \in Nat
            /\ Len(s1) = 3 - 1 /\ Len(s2) = 4 - 3 + 1
        BY <1>1
      <3> QED  BY <1>1, <3>1, AppendSlice, Zenon
    <2> QED  BY <2>1, <2>2 DEF Appended
  <1> HIDE DEF t2
  <1>5. /\ t3 \in Seq(Byte) /\ Len(t3) = 8
        /\ Slice(t3, 1, 2) = s1
        /\ Slice(t3, 3, 4) = s2
        /\ Slice(t3, 5, 8) = s3
    <2>1. Appended(t2, s3, 5, 8)
      <3>1. /\ 5 \in Nat /\ 8 \in Nat
            /\ Len(t2) = 5 - 1 /\ Len(s3) = 8 - 5 + 1
        BY <1>1, <1>4
      <3> QED  BY <1>1, <1>4, <3>1, AppendSlice, Zenon
    <2> QED  BY <1>4, <2>1 DEF Appended
  <1> HIDE DEF t3
  <1>6. /\ t4 \in Seq(Byte) /\ Len(t4) = 12
        /\ Slice(t4, 1, 2) = s1
        /\ Slice(t4, 3, 4) = s2
        /\ Slice(t4, 5, 8) = s3
        /\ Slice(t4, 9, 12) = s4
    <2>1. Appended(t3, s4, 9, 12)
      <3>1. /\ 9 \in Nat /\ 12 \in Nat
            /\ Len(t3) = 9 - 1 /\ Len(s4) = 12 - 9 + 1
        BY <1>1, <1>5
      <3> QED  BY <1>1, <1>5, <3>1, AppendSlice, Zenon
    <2> QED  BY <1>5, <2>1 DEF Appended
  <1> HIDE DEF t4
  <1>7. /\ t5 \in Seq(Byte) /\ Len(t5) = 16
        /\ Slice(t5, 1, 2) = s1
        /\ Slice(t5, 3, 4) = s2
        /\ Slice(t5, 5, 8) = s3
        /\ Slice(t5, 9, 12) = s4
        /\ Slice(t5, 13, 16) = s5
    <2>1. Appended(t4, s5, 13, 16)
      <3>1. /\ 13 \in Nat /\ 16 \in Nat
            /\ Len(t4) = 13 - 1 /\ Len(s5) = 16 - 13 + 1
        BY <1>1, <1>6
      <3> QED  BY <1>1, <1>6, <3>1, AppendSlice, Zenon
    <2> QED  BY <1>6, <2>1 DEF Appended
  <1> HIDE DEF t5
  <1>8. /\ t6 \in Seq(Byte) /\ Len(t6) = 20
        /\ Slice(t6, 1, 2) = s1
        /\ Slice(t6, 3, 4) = s2
        /\ Slice(t6, 5, 8) = s3
        /\ Slice(t6, 9, 12) = s4
        /\ Slice(t6, 13, 16) = s5
        /\ Slice(t6, 17, 20) = s6
    <2>1. Appended(t5, s6, 17, 20)
      <3>1. /\ 17 \in Nat /\ 20 \in Nat
            /\ Len(t5) = 17 - 1 /\ Len(s6) = 20 - 17 + 1
        BY <1>1, <1>7
      <3> QED  BY <1>1, <1>7, <3>1, AppendSlice, Zenon
    <2> QED  BY <1>7, <2>1 DEF Appended
  <1> HIDE DEF t6
  <1>9. entry_from_slice(t6)
            = [routing_family_id |-> Slice(t6, 1, 2),
               route_tag |-> Slice(t6, 3, 4), ip_address |-> Slice(t6, 5, 8),
               subnet_mask |-> Slice(t6, 9, 12),
               next_hop |-> Slice(t6, 13, 16), metric |-> Slice(t6, 17, 20)]
    BY DEF entry_from_slice, Slice
  <1> QED  BY <1>2, <1>3, <1>8, <1>9 DEF RIP_ENTRY_SIZE

LEMMA HeaderBytes ==
    ASSUME NEW command \in Byte
    PROVE  /\ header_as_bytes(command) \in Seq(Byte)
           /\ Len(header_as_bytes(command)) = RIP_HEADER_SIZE
           /\ header_as_bytes(command)[1] = command
           /\ header_as_bytes(command)[2] = RIP_2_VERSION
  <1> DEFINE z == in_memory(<<0, 0>>)
             c == <<command, RIP_2_VERSION>>
  <1>1. z \in Seq(Byte) /\ Len(z) = 2
    <2>1. <<0, 0>> \in Seq(Byte) /\ Len(<<0, 0>>) = 2
      BY DEF Byte
    <2> QED  BY <2>1, ReverseOnce DEF in_memory
  <1>2. /\ c \in Seq(Byte) /\ Len(c) = 2 /\ c[1] = command
        /\ c[2] = RIP_2_VERSION
    BY DEF Byte, RIP_2_VERSION
  <1>3. header_as_bytes(command) = c \o z
    BY DEF header_as_bytes
  <1> HIDE DEF c, z
  <1>4. /\ c \o z \in Seq(Byte) /\ Len(c \o z) = 4
        /\ (c \o z)[1] = c[1] /\ (c \o z)[2] = c[2]
    <2>1. /\ c \o z \in Seq(Byte) /\ Len(c \o z) = Len(c) + Len(z)
          /\ \A i \in 1 .. Len(c) + Len(z) :
                 (c \o z)[i] = IF i <= Len(c) THEN c[i] ELSE z[i - Len(c)]
      BY <1>1, <1>2, ConcatProperties
    <2> QED  BY <1>1, <1>2, <2>1
  <1> QED  BY <1>2, <1>3, <1>4 DEF RIP_HEADER_SIZE

-----------------------------------------------------------------------------
(* Packets.                                                                *)

(* The round trip of the codec: of the bytes build_response_buffer makes,  *)
(* on a machine of either byte order, from_slice makes a response with the *)
(* same entries in their order, however many they are.                     *)
THEOREM ResponseBytes ==
    ASSUME NEW entries \in Seq(Entry)
    PROVE  LET data == build_response_buffer(entries)
           IN  /\ data \in Seq(Byte)
               /\ ~is_malformed(data)
               /\ from_slice(data) = [command |-> RIP_CMD_RESPONSE,
                                      version |-> RIP_2_VERSION,
                                      entries |-> entries]
  <1> DEFINE data == build_response_buffer(entries)
             header == header_as_bytes(RIP_CMD_RESPONSE)
             bytes == [n \in DOMAIN entries |-> entry_as_bytes(to_be(entries[n]))]
             N == Len(entries)
  <1>1. N \in Nat /\ DOMAIN entries = 1 .. N
    BY LenProperties
  <1>2. \A n \in 1 .. N : /\ bytes[n] \in Seq(Byte) /\ Len(bytes[n]) = 20
                          /\ entry_from_slice(bytes[n]) = entries[n]
    BY <1>1, EntryBytes, ElementOfSeq DEF RIP_ENTRY_SIZE
  <1>3. /\ header \in Seq(Byte) /\ Len(header) = 4
        /\ header[1] = RIP_CMD_RESPONSE /\ header[2] = RIP_2_VERSION
    BY HeaderBytes DEF RIP_HEADER_SIZE, RIP_CMD_RESPONSE, Byte
  <1>4. data = [i \in 1 .. 4 + N * 20 |->
                   IF i <= 4 THEN header[i]
                   ELSE bytes[((i - 4 - 1) \div 20) + 1][((i - 4 - 1) % 20) + 1]]
    BY DEF build_response_buffer, RIP_HEADER_SIZE, RIP_ENTRY_SIZE
  <1> HIDE DEF data, header, bytes, N
  <1>5. \A i \in 1 .. 4 + N * 20 : data[i] \in Byte
    <2> SUFFICES ASSUME NEW i \in 1 .. 4 + N * 20
                 PROVE  data[i] \in Byte
      OBVIOUS
    <2>1. CASE i <= 4
      <3>1. data[i] = header[i] /\ i \in 1 .. Len(header)
        BY <1>1, <1>3, <1>4, <2>1
      <3> QED  BY <1>3, <3>1, ElementOfSeq
    <2>2. CASE i > 4
      <3> DEFINE n == ((i - 4 - 1) \div 20) + 1
                 k == ((i - 4 - 1) % 20) + 1
      <3>1. n \in 1 .. N /\ k \in 1 .. 20
        BY <1>1, <2>2
      <3>2. data[i] = bytes[n][k]
        BY <1>1, <1>4, <2>2
      <3> HIDE DEF n, k
      <3> QED  BY <1>2, <3>1, <3>2, ElementOfSeq
    <2> QED  BY <1>1, <2>1, <2>2
  <1>6. data \in Seq(Byte) /\ Len(data) = 4 + N * 20
    <2>1. 4 + N * 20 \in Nat
      BY <1>1
    <2>2. data \in [1 .. 4 + N * 20 -> Byte]
      BY <1>4, <1>5
    <2> QED  BY <2>1, <2>2, FunctionIsSequence
  <1>7. ~is_malformed(data)
    <2>1. (Len(data) - 4) % 20 = 0 /\ ~(Len(data) < 4)
      BY <1>1, <1>6
    <2> QED  BY <1>6, <2>1 DEF is_malformed, RIP_HEADER_SIZE, RIP_ENTRY_SIZE
  <1>8. data[1] = RIP_CMD_RESPONSE /\ data[2] = RIP_2_VERSION
    BY <1>1, <1>3, <1>4
  <1>9. ASSUME NEW n \in 1 .. N
        PROVE  SubSeq(data, 4 + (n - 1) * 20 + 1, 4 + n * 20) = bytes[n]
    <2> DEFINE from == 4 + (n - 1) * 20 + 1
               to == 4 + n * 20
               v == SubSeq(data, from, to)
    <2>1. \A k \in 1 .. 20 : data[from + k - 1] = bytes[n][k]
      <3> SUFFICES ASSUME NEW k \in 1 .. 20
                   PROVE  data[from + k - 1] = bytes[n][k]
        OBVIOUS
      <3> DEFINE i == from + k - 1
      <3>1. /\ i \in 1 .. 4 + N * 20 /\ ~(i <= 4)
            /\ (i - 4 - 1) \div 20 = n - 1
            /\ (i - 4 - 1) % 20 = k - 1
        BY <1>1
      <3>2. data[i] = bytes[((i - 4 - 1) \div 20) + 1][((i - 4 - 1) % 20) + 1]
        BY <1>4, <3>1
      <3>3. (n - 1) + 1 = n /\ (k - 1) + 1 = k
        BY <1>1
      <3> HIDE DEF i
      <3>4. data[i] = bytes[n][k]
        BY <3>1, <3>2, <3>3
      <3> QED  BY <3>4 DEF i
    <2>2. from \in Int /\ to \in Int /\ from <= to /\ to - from + 1 = 20
      BY <1>1
    <2>3. \A i \in from .. to : data[i] \in Byte
      <3>1. \A i \in from .. to : i \in 1 .. 4 + N * 20
        BY <1>1
      <3> QED  BY <1>5, <3>1
    <2> HIDE DEF from, to
    <2>4. /\ v \in Seq(Byte) /\ Len(v) = 20
          /\ \A k \in 1 .. 20 : v[k] = data[from + k - 1]
      <3>1. /\ v \in Seq(Byte)
            /\ Len(v) = IF from <= to THEN to - from + 1 ELSE 0
            /\ \A k \in 1 .. to - from + 1 : v[k] = data[from + k - 1]
        BY <2>2, <2>3, SubSeqProperties
      <3> QED  BY <2>2, <3>1
    <2> HIDE DEF v
    <2>5. v = bytes[n]
      <3>1. /\ bytes[n] \in Seq(Byte) /\ Len(v) = Len(bytes[n])
            /\ \A k \in 1 .. Len(v) : v[k] = bytes[n][k]
        BY <1>2, <2>1, <2>4
      <3> QED  BY <2>4, <3>1, SeqEqual
    <2> QED  BY <2>5 DEF v, from, to
  <1>10. from_slice(data).entries = entries
    <2>1. (Len(data) - 4) \div 20 = N
      BY <1>1, <1>6
    <2>2. from_slice(data).entries
              = [n \in 1 .. N |->
                    entry_from_slice(SubSeq(data, 4 + (n - 1) * 20 + 1,
                                                  4 + n * 20))]
      BY <2>1 DEF from_slice, RIP_HEADER_SIZE, RIP_ENTRY_SIZE
    <2>3. from_slice(data).entries = [n \in 1 .. N |-> entries[n]]
      <3>1. \A n \in 1 .. N :
                entry_from_slice(SubSeq(data, 4 + (n - 1) * 20 + 1, 4 + n * 20))
                    = entries[n]
        BY <1>2, <1>9
      <3> QED  BY <2>2, <3>1
    <2>4. entries = [n \in 1 .. N |-> entries[n]]
      BY <1>1, LenProperties
    <2> QED  BY <2>3, <2>4
  <1>11. from_slice(data) = [command |-> data[1], version |-> data[2],
                             entries |-> from_slice(data).entries]
    BY DEF from_slice
  <1> QED  BY <1>6, <1>7, <1>8, <1>10, <1>11 DEF data

(* A request is understood as one.                                         *)
LEMMA RequestBytes ==
    /\ request_buffer \in Seq(Byte)
    /\ ~is_malformed(request_buffer)
    /\ is_request(from_slice(request_buffer))
  <1> DEFINE h == header_as_bytes(RIP_CMD_REQUEST)
             b == entry_as_bytes(to_be(RIP_ENTRY_REQUEST))
  <1>1. RIP_ENTRY_REQUEST \in Entry
    BY SmallIntegers DEF RIP_ENTRY_REQUEST, Entry
  <1>2. /\ b \in Seq(Byte) /\ Len(b) = 20
        /\ entry_from_slice(b) = RIP_ENTRY_REQUEST
    BY <1>1, EntryBytes DEF RIP_ENTRY_SIZE
  <1>3. h \in Seq(Byte) /\ Len(h) = 4 /\ h[1] = RIP_CMD_REQUEST
    BY HeaderBytes DEF RIP_HEADER_SIZE, RIP_CMD_REQUEST, Byte
  <1>4. request_buffer = h \o b
    BY DEF request_buffer
  <1> HIDE DEF h, b
  <1>5. Appended(h, b, 5, 24)
    <2>1. 5 \in Nat /\ 24 \in Nat /\ Len(h) = 5 - 1 /\ Len(b) = 24 - 5 + 1
      BY <1>2, <1>3
    <2> QED  BY <1>2, <1>3, <2>1, AppendSlice, Zenon
  <1> DEFINE data == request_buffer
  <1>6. data \in Seq(Byte) /\ Len(data) = 24 /\ Slice(data, 5, 24) = b
    BY <1>4, <1>5 DEF Appended
  <1>7. data[1] = RIP_CMD_REQUEST
    <2>1. \A i \in 1 .. Len(h) + Len(b) :
              (h \o b)[i] = IF i <= Len(h) THEN h[i] ELSE b[i - Len(h)]
      BY <1>2, <1>3, ConcatProperties
    <2>2. (h \o b)[1] = h[1]
      <3>1. 1 \in 1 .. Len(h) + Len(b) /\ 1 <= Len(h)
        BY <1>2, <1>3
      <3> QED  BY <2>1, <3>1, Zenon
    <2> QED  BY <1>3, <1>4, <2>2
  <1> HIDE DEF data
  <1>8. ~is_malformed(data)
    <2>1. (Len(data) - 4) % 20 = 0 /\ ~(Len(data) < 4)
      BY <1>6
    <2> QED  BY <2>1 DEF is_malformed, RIP_HEADER_SIZE, RIP_ENTRY_SIZE
  <1>9. from_slice(data).entries = [n \in 1 .. 1 |-> RIP_ENTRY_REQUEST]
    <2>1. (Len(data) - 4) \div 20 = 1
      BY <1>6
    <2>2. from_slice(data).entries
              = [n \in 1 .. 1 |->
                    entry_from_slice(Slice(data, 4 + (n - 1) * 20 + 1,
                                                 4 + n * 20))]
      BY <2>1 DEF from_slice, RIP_HEADER_SIZE, RIP_ENTRY_SIZE, Slice
    <2>3. \A n \in 1 .. 1 : Slice(data, 4 + (n - 1) * 20 + 1, 4 + n * 20) = b
      <3>1. \A n \in 1 .. 1 : 4 + (n - 1) * 20 + 1 = 5 /\ 4 + n * 20 = 24
        OBVIOUS
      <3> QED  BY <1>6, <3>1
    <2>4. \A n \in 1 .. 1 :
              entry_from_slice(Slice(data, 4 + (n - 1) * 20 + 1, 4 + n * 20))
                  = RIP_ENTRY_REQUEST
      BY <1>2, <2>3
    <2> QED  BY <2>2, <2>4
  <1>10. is_request(from_slice(data))
    <2>1. from_slice(data).command = RIP_CMD_REQUEST
      BY <1>7 DEF from_slice
    <2> DEFINE es == [n \in 1 .. 1 |-> RIP_ENTRY_REQUEST]
    <2>2. Len(es) = 1 /\ es[1] = RIP_ENTRY_REQUEST
      OBVIOUS
    <2> HIDE DEF es
    <2>3. from_slice(data).entries = es
      BY <1>9 DEF es
    <2> QED  BY <2>1, <2>2, <2>3 DEF is_request
  <1> QED  BY <1>6, <1>8, <1>10 DEF data

LEMMA WholeEntries ==
    ASSUME NEW len \in Nat, len >= 4, NEW n \in 1 .. (len - 4) \div 20
    PROVE  n \in Nat /\ n >= 1 /\ n * 20 <= len - 4
  <1> DEFINE q == (len - 4) \div 20
  <1>1. q \in Nat /\ q * 20 <= len - 4
    OBVIOUS
  <1>2. n \in Nat /\ n >= 1 /\ n <= q
    BY <1>1
  <1> QED  BY <1>1, <1>2

(* What parsing yields, whoever sent the bytes.                            *)
LEMMA ParsedEntries ==
    ASSUME NEW data \in Seq(Byte), ~is_malformed(data),
           NEW n \in DOMAIN from_slice(data).entries
    PROVE  /\ from_slice(data).entries[n].ip_address \in u32
           /\ from_slice(data).entries[n].subnet_mask \in u32
  <1>1. Len(data) \in Nat /\ Len(data) >= 4
    BY DEF is_malformed, RIP_HEADER_SIZE, RIP_ENTRY_SIZE
  <1>2. DOMAIN from_slice(data).entries = 1 .. (Len(data) - 4) \div 20
    BY DEF from_slice, RIP_HEADER_SIZE, RIP_ENTRY_SIZE
  <1> DEFINE from == 4 + (n - 1) * 20 + 1
             to == 4 + n * 20
             v == SubSeq(data, from, to)
  <1>3. /\ from \in Int /\ to \in Int /\ from <= to /\ to - from + 1 = 20
        /\ 1 <= from /\ to <= Len(data)
    <2>1. n \in 1 .. (Len(data) - 4) \div 20
      BY <1>2
    <2>2. n \in Nat /\ n >= 1 /\ n * 20 <= Len(data) - 4
      BY <1>1, <2>1, WholeEntries
    <2> QED  BY <1>1, <2>2
  <1>4. from_slice(data).entries[n] = entry_from_slice(v)
    BY <1>2 DEF from_slice, RIP_HEADER_SIZE, RIP_ENTRY_SIZE
  <1> HIDE DEF from, to
  <1>5. v \in Seq(Byte) /\ Len(v) = 20
    <2>1. \A i \in from .. to : data[i] \in Byte
      <3>1. \A i \in from .. to : i \in 1 .. Len(data)
        BY <1>1, <1>3
      <3> QED  BY <3>1, ElementOfSeq
    <2>2. /\ v \in Seq(Byte)
          /\ Len(v) = IF from <= to THEN to - from + 1 ELSE 0
      BY <1>3, <2>1, SubSeqProperties
    <2> QED  BY <1>3, <2>2
  <1> HIDE DEF v
  <1>6. ASSUME NEW i \in 1 .. 17
        PROVE  SubSeq(v, i, i + 3) \in u32
    <2> DEFINE w == SubSeq(v, i, i + 3)
    <2>1. \A k \in i .. i + 3 : v[k] \in Byte
      <3>1. \A k \in i .. i + 3 : k \in 1 .. Len(v)
        BY <1>5
      <3> QED  BY <1>5, <3>1, ElementOfSeq
    <2>2. w \in Seq(Byte) /\ Len(w) = IF i <= i + 3 THEN i + 3 - i + 1 ELSE 0
      <3>1. i \in Int /\ i + 3 \in Int
        OBVIOUS
      <3> QED  BY <2>1, <3>1, SubSeqProperties
    <2>3. Len(w) = 4
      BY <2>2
    <2> HIDE DEF w
    <2>4. w \in [1 .. 4 -> Byte]
      BY <2>2, <2>3, LenProperties
    <2> QED  BY <2>4 DEF w, u32
  <1>7. SubSeq(v, 5, 8) \in u32 /\ SubSeq(v, 9, 12) \in u32
    <2>1. /\ 5 \in 1 .. 17 /\ 9 \in 1 .. 17 /\ 5 + 3 = 8 /\ 9 + 3 = 12
      OBVIOUS
    <2>2. SubSeq(v, 5, 5 + 3) \in u32 /\ SubSeq(v, 9, 9 + 3) \in u32
      BY <1>6, <2>1, Zenon
    <2> QED  BY <2>1, <2>2, Zenon
  <1> QED  BY <1>4, <1>7 DEF entry_from_slice

(* The kernel is given the mask that was in the packet.                    *)
LEMMA ParsedRoutes ==
    ASSUME NEW data \in Seq(Byte), ~is_malformed(data),
           NEW r \in routes(from_slice(data))
    PROVE  /\ r.prefix_len \in 1 .. U32_BITS - 1
           /\ r.mask = from_ones(0 .. r.prefix_len - 1)
           /\ r.destination[1] \notin {0, 127} \cup 224 .. 255
  <1>1. PICK n \in DOMAIN from_slice(data).entries :
            /\ is_entry_valid(from_slice(data).entries[n])
            /\ r = route(from_slice(data).entries[n])
    BY DEF routes
  <1> DEFINE e == from_slice(data).entries[n]
  <1>2. e.ip_address \in u32 /\ e.subnet_mask \in u32
    BY ParsedEntries
  <1>3. is_entry_valid(e) /\ r = route(e)
    BY <1>1
  <1> HIDE DEF e
  <1>4. is_unicast_address(e.ip_address) /\ is_net_mask_valid(e.subnet_mask)
    BY <1>3 DEF is_entry_valid
  <1>5. /\ r.destination = e.ip_address /\ r.mask = e.subnet_mask
        /\ r.prefix_len = leading_ones(e.subnet_mask)
    BY <1>3 DEF route
  <1>6. U32_BITS - 1 = 31
    BY DEF U32_BITS
  <1> DEFINE m == e.subnet_mask
  <1>7. leading_ones(m) \in 1 .. 31 /\ m = from_ones(0 .. leading_ones(m) - 1)
    BY <1>2, <1>4, ValidMask
  <1>8. e.ip_address[1] \notin {0, 127} \cup 224 .. 255
    BY <1>2, <1>4, UnicastAddress
  <1> HIDE DEF m
  <1>9. r.mask = m /\ r.prefix_len = leading_ones(m)
    BY <1>5 DEF m
  <1>10. r.prefix_len \in 1 .. U32_BITS - 1
    BY <1>6, <1>7, <1>9
  <1>11. r.mask = from_ones(0 .. r.prefix_len - 1)
    BY <1>7, <1>9
  <1> QED  BY <1>5, <1>8, <1>10, <1>11

-----------------------------------------------------------------------------
(* Responses.                                                              *)

(* Whatever their order, all elements are in the sequence, and only they.  *)
LEMMA AllInSequence ==
    ASSUME NEW S, IsFiniteSet(S), NEW s \in SetToSeqs(S)
    PROVE  /\ s \in Seq(S)
           /\ \A e \in S : \E i \in 1 .. Len(s) : s[i] = e
  <1> DEFINE N == Cardinality(S)
  <1>1. N \in Nat
    BY FS_CardinalityType
  <1>2. s \in [1 .. N -> S] /\ \A i, j \in 1 .. N : i # j => s[i] # s[j]
    BY DEF SetToSeqs
  <1>3. s \in Seq(S) /\ Len(s) = N
    BY <1>1, <1>2, FunctionIsSequence
  <1>4. s \in Injection(1 .. N, S)
    BY <1>2 DEF Injection, IsInjective
  <1>5. Cardinality(1 .. N) = N
    BY <1>1, FS_Interval
  <1> HIDE DEF N
  <1>6. s \in Surjection(1 .. N, S)
    BY <1>4, <1>5, FS_Injection DEF N
  <1> QED  BY <1>3, <1>6 DEF Surjection

(* The chunks hold the elements of the sequence, and every one of them.    *)
LEMMA ChunkOf ==
    ASSUME NEW S, NEW s \in Seq(S), NEW size \in Nat \ {0},
           NEW n \in DOMAIN chunks(s, size)
    PROVE  /\ chunks(s, size)[n] \in Seq(S)
           /\ \A j \in 1 .. Len(chunks(s, size)[n]) :
                  \E i \in 1 .. Len(s) : chunks(s, size)[n][j] = s[i]
  <1> DEFINE from == (n - 1) * size + 1
             to == IF n * size < Len(s) THEN n * size ELSE Len(s)
             c == SubSeq(s, from, to)
  <1>1. n \in Nat /\ n >= 1 /\ Len(s) \in Nat
    BY DEF chunks
  <1>2. chunks(s, size)[n] = c
    BY DEF chunks
  <1>3. from \in Nat /\ from >= 1 /\ to \in Nat /\ to <= Len(s)
    <2>1. n - 1 \in Nat
      BY <1>1
    <2>2. (n - 1) * size \in Nat /\ n * size \in Nat
      BY <1>1, <2>1
    <2> QED  BY <1>1, <2>2
  <1> HIDE DEF from, to
  <1>4. \A i \in from .. to : i \in 1 .. Len(s) /\ s[i] \in S
    <2>1. \A i \in from .. to : i \in 1 .. Len(s)
      BY <1>1, <1>3
    <2> QED  BY <2>1, ElementOfSeq
  <1>5. /\ c \in Seq(S)
        /\ Len(c) = IF from <= to THEN to - from + 1 ELSE 0
        /\ \A k \in 1 .. to - from + 1 : c[k] = s[from + k - 1]
    BY <1>3, <1>4, SubSeqProperties
  <1> HIDE DEF c
  <1>6. ASSUME NEW j \in 1 .. Len(c)
        PROVE  \E i \in 1 .. Len(s) : c[j] = s[i]
    <2>1. j \in 1 .. to - from + 1 /\ from + j - 1 \in from .. to
      BY <1>3, <1>5
    <2>2. from + j - 1 \in 1 .. Len(s) /\ c[j] = s[from + j - 1]
      BY <1>4, <1>5, <2>1
    <2> QED  BY <2>2
  <1> QED  BY <1>2, <1>5, <1>6

LEMMA DivideIndex ==
    ASSUME NEW i \in Nat, NEW len \in Nat, i >= 1, i <= len,
           NEW size \in Nat \ {0}
    PROVE  \E n \in 1 .. (len + size - 1) \div size :
               /\ (n - 1) * size + 1 <= i
               /\ i <= n * size
  <1> DEFINE q == (i - 1) \div size
             m == (len + size - 1) \div size
  <1>1. q \in Nat /\ q * size <= i - 1 /\ i - 1 < (q + 1) * size
    OBVIOUS
  <1>2. m \in Nat /\ len + size - 1 < (m + 1) * size
    OBVIOUS
  <1>3. (q + 1) * size = q * size + size /\ (m + 1) * size = m * size + size
    BY <1>1, <1>2
  <1> HIDE DEF q, m
  <1>4. q * size \in Nat /\ m * size \in Nat
    BY <1>1, <1>2
  <1>5. q * size < m * size
    BY <1>1, <1>2, <1>3, <1>4
  <1>6. q + 1 <= m
    <2> SUFFICES ASSUME m <= q
                 PROVE  m * size <= q * size
      BY <1>1, <1>2, <1>4, <1>5
    <2>1. q = m + (q - m) /\ q - m \in Nat
      BY <1>1, <1>2
    <2>2. q * size = m * size + (q - m) * size /\ (q - m) * size \in Nat
      BY <1>1, <1>2, <2>1
    <2> QED  BY <1>4, <2>2
  <1>7. (q + 1) - 1 = q /\ q + 1 \in 1 .. m
    BY <1>1, <1>2, <1>6
  <1>8. /\ ((q + 1) - 1) * size + 1 <= i
        /\ i <= (q + 1) * size
    BY <1>1, <1>3, <1>4, <1>7
  <1> QED  BY <1>7, <1>8 DEF m

LEMMA InSomeChunk ==
    ASSUME NEW S, NEW s \in Seq(S), NEW size \in Nat \ {0},
           NEW i \in 1 .. Len(s)
    PROVE  \E n \in DOMAIN chunks(s, size) :
               \E j \in 1 .. Len(chunks(s, size)[n]) :
                   chunks(s, size)[n][j] = s[i]
  <1>1. Len(s) \in Nat /\ i \in Nat /\ i >= 1 /\ i <= Len(s)
    OBVIOUS
  <1>2. PICK n \in 1 .. (Len(s) + size - 1) \div size :
            (n - 1) * size + 1 <= i /\ i <= n * size
    BY <1>1, DivideIndex
  <1>3. n \in Nat /\ n >= 1
    BY <1>1
  <1>4. n \in DOMAIN chunks(s, size)
    BY DEF chunks
  <1> DEFINE from == (n - 1) * size + 1
             to == IF n * size < Len(s) THEN n * size ELSE Len(s)
             c == SubSeq(s, from, to)
  <1>5. chunks(s, size)[n] = c
    BY <1>4 DEF chunks
  <1>6. from \in Nat /\ from >= 1 /\ to \in Nat /\ to <= Len(s)
    <2>1. n - 1 \in Nat
      BY <1>3
    <2>2. (n - 1) * size \in Nat /\ n * size \in Nat
      BY <1>3, <2>1
    <2> QED  BY <1>1, <2>2
  <1>7. from <= i /\ i <= to
    BY <1>1, <1>2
  <1> HIDE DEF from, to
  <1>8. /\ c \in Seq(S)
        /\ Len(c) = IF from <= to THEN to - from + 1 ELSE 0
        /\ \A k \in 1 .. to - from + 1 : c[k] = s[from + k - 1]
    <2>1. \A k \in from .. to : k \in 1 .. Len(s)
      BY <1>1, <1>6
    <2>2. \A k \in from .. to : s[k] \in S
      BY <2>1, ElementOfSeq
    <2> QED  BY <1>6, <2>2, SubSeqProperties
  <1> HIDE DEF c
  <1> DEFINE j == i - from + 1
  <1>9. j \in 1 .. Len(c) /\ j \in 1 .. to - from + 1 /\ from + j - 1 = i
    BY <1>1, <1>6, <1>7, <1>8
  <1>10. c[j] = s[i]
    BY <1>8, <1>9
  <1> HIDE DEF j
  <1> QED  BY <1>4, <1>5, <1>9, <1>10

-----------------------------------------------------------------------------
(* The inductive invariant.                                                *)

(* What the receiver will make of a datagram of the sender: the entry of a *)
(* request, or the routes to the believable ones of the networks it was    *)
(* meant to tell of.                                                       *)
Understood(d) ==
    LET packet == from_slice(d.data)
    IN  /\ ~is_malformed(d.data)
        /\ is_request(packet)
           \/ /\ is_response(packet) /\ packet.version = RIP_2_VERSION
              /\ d.meant \subseteq accepted
              /\ routes(packet)
                     = {Destination(n) : n \in {x \in d.meant : Believable(x)}}

(* The local routes are those of the accepted networks, each on the        *)
(* interface it was configured with, and marked until an advertisement.    *)
LocalInv ==
    /\ accepted \subseteq Network /\ advertised \subseteq accepted
    /\ \A n \in accepted : n.prefix \in 0 .. 32
    /\ local = {[rip_entry |-> local_entry(n), if_index |-> IfIndex[n.dev],
                 changed |-> n \notin advertised] : n \in accepted}
    /\ IsFiniteSet(local)

(* What is on the wire is bytes, the sender's datagrams are understood,    *)
(* and a request is alone.                                                 *)
DatagramsInv ==
    \A d \in wire :
        /\ d.data \in Seq(Byte)
        /\ d.meant # None => Understood(d)
        /\ ~is_malformed(d.data) /\ is_request(from_slice(d.data)) => wire = {d}

WireInv == LocalInv /\ DatagramsInv /\ LearnsWhatWasConfigured

-----------------------------------------------------------------------------
(* What is sent.                                                           *)

LEMMA KeyOfLocalEntry ==
    ASSUME NEW n, NEW m, same_key(local_entry(n), local_entry(m))
    PROVE  local_entry(n) = local_entry(m)
  BY DEF same_key, local_entry

LEMMA FiniteImage ==
    ASSUME NEW S, IsFiniteSet(S), NEW f, DOMAIN f = S
    PROVE  IsFiniteSet({f[x] : x \in S})
  <1> DEFINE T == {f[x] : x \in S}
             g == [x \in S |-> f[x]]
  <1>1. g \in [S -> T] /\ \A t \in T : \E x \in S : g[x] = t
    OBVIOUS
  <1>2. g \in Surjection(S, T)
    BY <1>1 DEF Surjection
  <1> HIDE DEF T, g
  <1>3. IsFiniteSet(T)
    BY <1>2, FS_Surjection
  <1> QED  BY <1>3 DEF T

(* The entries of some of the accepted networks.                           *)
Entries(D) == {local_entry(n) : n \in D}

LEMMA LocalEntries ==
    ASSUME LocalInv, NEW D, D \subseteq accepted
    PROVE  \A e \in Entries(D) :
               e \in Entry /\ \E n \in D : e = local_entry(n)
  BY LocalEntry DEF LocalInv, Entries

(* The routes for an advertisement are those of the networks that are due. *)
LEMMA EntriesDue ==
    ASSUME LocalInv, NEW changed_only \in BOOLEAN
    PROVE  /\ Due(changed_only) \subseteq accepted
           /\ get_routes_for_advertisement(Link, changed_only)
                  = Entries(Due(changed_only))
           /\ IsFiniteSet(Entries(Due(changed_only)))
  <1> DEFINE Chosen == {x \in local : /\ changed_only => x.changed
                                      /\ x.if_index # Link}
             sent(r) == [r.rip_entry EXCEPT !.next_hop = <<0, 0, 0, 0>>]
             row(n) == [rip_entry |-> local_entry(n), if_index |-> IfIndex[n.dev],
                        changed |-> n \notin advertised]
             G == get_routes_for_advertisement(Link, changed_only)
  <1>1. Due(changed_only) \subseteq accepted
    BY DEF Due
  <1>2. G = {sent(r) : r \in Chosen}
    BY DEF get_routes_for_advertisement
  <1>3. ASSUME NEW n
        PROVE  sent(row(n)) = local_entry(n)
    <2>1. row(n).rip_entry = local_entry(n)
      OBVIOUS
    <2> HIDE DEF row
    <2> QED  BY <2>1 DEF local_entry
  <1>4. ASSUME NEW n \in accepted
        PROVE  row(n) \in Chosen <=> n \in Due(changed_only)
    <2>1. /\ row(n).if_index = IfIndex[n.dev]
          /\ row(n).changed = (n \notin advertised)
          /\ row(n) \in local
      BY DEF LocalInv
    <2> HIDE DEF row
    <2> QED  BY <2>1 DEF Due
  <1>5. \A r \in Chosen : \E n \in accepted : r = row(n)
    BY DEF LocalInv
  <1> HIDE DEF sent, row, Chosen, G
  <1>6. G = Entries(Due(changed_only))
    BY <1>1, <1>2, <1>3, <1>4, <1>5 DEF Entries
  <1>7. IsFiniteSet(Chosen)
    BY FS_Subset DEF LocalInv, Chosen
  <1>8. IsFiniteSet(G)
    <2> DEFINE f == [r \in Chosen |-> sent(r)]
    <2>1. IsFiniteSet({f[r] : r \in Chosen})
      BY <1>7, FiniteImage
    <2> QED  BY <1>2, <2>1
  <1> QED  BY <1>1, <1>6, <1>8 DEF G

(* A datagram of a response has the entries of one chunk.                  *)
LEMMA ResponseOfChunk ==
    ASSUME LocalInv, NEW D, D \subseteq accepted, IsFiniteSet(Entries(D)),
           NEW s \in SetToSeqs(Entries(D)),
           NEW n \in DOMAIN chunks(s, MaxEntries)
    PROVE  LET c == chunks(s, MaxEntries)[n]
               data == build_response_buffers(s)[n]
           IN  /\ c \in Seq(Entries(D)) /\ DOMAIN c = 1 .. Len(c)
               /\ data \in Seq(Byte)
               /\ ~is_malformed(data)
               /\ from_slice(data) = [command |-> RIP_CMD_RESPONSE,
                                      version |-> RIP_2_VERSION,
                                      entries |-> c]
  <1> DEFINE c == chunks(s, MaxEntries)[n]
             data == build_response_buffers(s)[n]
  <1>1. s \in Seq(Entries(D))
    BY AllInSequence DEF LocalInv
  <1>2. c \in Seq(Entries(D))
    BY <1>1, ChunkOf, WireAssumption
  <1>3. data = build_response_buffer(c)
    BY DEF build_response_buffers
  <1> HIDE DEF c, data
  <1>4. c \in Seq(Entry) /\ DOMAIN c = 1 .. Len(c)
    <2>1. Entries(D) \subseteq Entry
      BY LocalEntries
    <2> QED  BY <1>2, <2>1, SeqMonotonic, LenProperties
  <1>5. /\ data \in Seq(Byte)
        /\ ~is_malformed(data)
        /\ from_slice(data) = [command |-> RIP_CMD_RESPONSE,
                               version |-> RIP_2_VERSION,
                               entries |-> c]
    BY <1>3, <1>4, ResponseBytes
  <1> QED  BY <1>2, <1>4, <1>5 DEF c, data

LEMMA RoutesOfChunk ==
    ASSUME LocalInv, NEW D, D \subseteq accepted,
           NEW c \in Seq(Entries(D)), DOMAIN c = 1 .. Len(c),
           NEW packet, packet.entries = c
    PROVE  routes(packet)
               = {Destination(n) : n \in {x \in meaning(c) : Believable(x)}}
  <1>1. \A j \in DOMAIN c : c[j] \in Entries(D)
    BY ElementOfSeq
  <1>2. ASSUME NEW j \in DOMAIN c, is_entry_valid(c[j])
        PROVE  \E n \in {x \in meaning(c) : Believable(x)} :
                   route(c[j]) = Destination(n)
    <2>1. PICK n \in accepted : c[j] = local_entry(n)
      BY <1>1, LocalEntries
    <2>2. n \in meaning(c)
      BY <2>1 DEF meaning, same_key
    <2>3. Believable(n) /\ route(c[j]) = Destination(n)
      BY <1>2, <2>1, LocalEntry DEF LocalInv
    <2> QED  BY <2>2, <2>3
  <1>3. ASSUME NEW n \in meaning(c), Believable(n)
        PROVE  \E j \in DOMAIN c :
                   is_entry_valid(c[j]) /\ route(c[j]) = Destination(n)
    <2>1. n \in accepted
      BY DEF meaning
    <2>2. PICK j \in DOMAIN c : same_key(c[j], local_entry(n))
      BY DEF meaning
    <2>3. c[j] = local_entry(n)
      <3>1. PICK m \in accepted : c[j] = local_entry(m)
        BY <1>1, LocalEntries
      <3> QED  BY <2>2, <3>1, KeyOfLocalEntry
    <2> QED  BY <1>3, <2>1, <2>3, LocalEntry DEF LocalInv
  <1> DEFINE R == {route(c[j]) : j \in {x \in DOMAIN c : is_entry_valid(c[x])}}
             B == {Destination(n) : n \in {x \in meaning(c) : Believable(x)}}
  <1>4. routes(packet) = R
    BY DEF routes
  <1>5. R \subseteq B
    BY <1>2
  <1>6. B \subseteq R
    BY <1>3
  <1> QED  BY <1>4, <1>5, <1>6

LEMMA MeaningIsNotNone ==
    ASSUME LocalInv, NEW c
    PROVE  meaning(c) # None /\ meaning(c) \subseteq accepted
  <1>1. meaning(c) \subseteq accepted
    BY DEF meaning
  <1>2. meaning(c) \in SUBSET Network
    BY <1>1 DEF LocalInv
  <1> QED  BY <1>1, <1>2, WireAssumption

LEMMA ResponseUnderstood ==
    ASSUME LocalInv, NEW D, D \subseteq accepted, IsFiniteSet(Entries(D)),
           NEW s \in SetToSeqs(Entries(D)), NEW d \in response(s)
    PROVE  /\ d.data \in Seq(Byte)
           /\ d.meant # None
           /\ Understood(d)
           /\ ~is_request(from_slice(d.data))
  <1>1. PICK n \in DOMAIN build_response_buffers(s) :
            d = datagram(build_response_buffers(s)[n],
                         meaning(chunks(s, MaxEntries)[n]))
    BY DEF response
  <1>2. n \in DOMAIN chunks(s, MaxEntries)
    BY DEF build_response_buffers
  <1> DEFINE c == chunks(s, MaxEntries)[n]
             packet == from_slice(d.data)
  <1>3. d.data = build_response_buffers(s)[n] /\ d.meant = meaning(c)
    BY <1>1 DEF datagram
  <1>4. /\ c \in Seq(Entries(D)) /\ DOMAIN c = 1 .. Len(c)
        /\ d.data \in Seq(Byte)
        /\ ~is_malformed(d.data)
        /\ packet = [command |-> RIP_CMD_RESPONSE, version |-> RIP_2_VERSION,
                     entries |-> c]
    BY <1>2, <1>3, ResponseOfChunk
  <1> HIDE DEF c, packet
  <1>5. /\ packet.command = RIP_CMD_RESPONSE /\ packet.version = RIP_2_VERSION
        /\ packet.entries = c
    BY <1>4
  <1>6. routes(packet) = {Destination(x) : x \in {y \in meaning(c) : Believable(y)}}
    BY <1>4, <1>5, RoutesOfChunk
  <1>7. is_response(packet) /\ ~is_request(packet)
    BY <1>5 DEF is_response, is_request, RIP_CMD_REQUEST, RIP_CMD_RESPONSE
  <1>8. d.meant # None /\ d.meant \subseteq accepted
    BY <1>3, MeaningIsNotNone
  <1>9. Understood(d)
    BY <1>3, <1>4, <1>5, <1>6, <1>7, <1>8 DEF Understood, packet
  <1> QED  BY <1>4, <1>7, <1>8, <1>9 DEF packet

(* The datagrams of a response announce all networks it is made for.       *)
LEMMA ResponseAnnounces ==
    ASSUME LocalInv, NEW D, D \subseteq accepted, IsFiniteSet(Entries(D)),
           NEW s \in SetToSeqs(Entries(D))
    PROVE  UNION {announced(from_slice(d.data)) : d \in response(s)}
               = {Destination(n) : n \in D}
  <1> DEFINE c(n) == chunks(s, MaxEntries)[n]
             U == UNION {announced(from_slice(d.data)) : d \in response(s)}
             A == {Destination(n) : n \in D}
  <1>1. DOMAIN build_response_buffers(s) = DOMAIN chunks(s, MaxEntries)
    BY DEF build_response_buffers
  <1>2. ASSUME NEW n \in DOMAIN chunks(s, MaxEntries)
        PROVE  LET d == datagram(build_response_buffers(s)[n], meaning(c(n)))
               IN  /\ d \in response(s)
                   /\ announced(from_slice(d.data))
                          = {route(c(n)[j]) : j \in 1 .. Len(c(n))}
                   /\ \A j \in 1 .. Len(c(n)) : c(n)[j] \in Entries(D)
    <2> DEFINE d == datagram(build_response_buffers(s)[n], meaning(c(n)))
    <2>1. d \in response(s)
      BY <1>1 DEF response
    <2>2. d.data = build_response_buffers(s)[n]
      BY DEF datagram
    <2>3. /\ c(n) \in Seq(Entries(D)) /\ DOMAIN c(n) = 1 .. Len(c(n))
          /\ from_slice(d.data) = [command |-> RIP_CMD_RESPONSE,
                                   version |-> RIP_2_VERSION,
                                   entries |-> c(n)]
      BY <2>2, ResponseOfChunk
    <2> HIDE DEF d, c
    <2>4. from_slice(d.data).entries = c(n)
      BY <2>3
    <2>5. announced(from_slice(d.data)) = {route(c(n)[j]) : j \in 1 .. Len(c(n))}
      BY <2>3, <2>4 DEF announced
    <2>6. \A j \in 1 .. Len(c(n)) : c(n)[j] \in Entries(D)
      BY <2>3, ElementOfSeq
    <2> QED  BY <2>1, <2>5, <2>6 DEF d
  <1> HIDE DEF c
  <1>3. U \subseteq A
    <2> SUFFICES ASSUME NEW d \in response(s),
                        NEW r \in announced(from_slice(d.data))
                 PROVE  r \in A
      OBVIOUS
    <2>1. PICK n \in DOMAIN chunks(s, MaxEntries) :
              d = datagram(build_response_buffers(s)[n], meaning(c(n)))
      BY <1>1 DEF response, c
    <2>2. PICK j \in 1 .. Len(c(n)) : r = route(c(n)[j])
      BY <1>2, <2>1
    <2>3. c(n)[j] \in Entries(D)
      BY <1>2
    <2>4. PICK x \in D : c(n)[j] = local_entry(x)
      BY <2>3, LocalEntries
    <2> QED  BY <2>2, <2>4, LocalEntry DEF LocalInv
  <1>4. A \subseteq U
    <2> SUFFICES ASSUME NEW x \in D
                 PROVE  Destination(x) \in U
      OBVIOUS
    <2>1. local_entry(x) \in Entries(D)
      BY DEF Entries
    <2>2. s \in Seq(Entries(D)) /\ \A e \in Entries(D) : \E i \in 1 .. Len(s) : s[i] = e
      BY <2>1, AllInSequence
    <2>3. PICK n \in DOMAIN chunks(s, MaxEntries) :
              \E j \in 1 .. Len(c(n)) : c(n)[j] = local_entry(x)
      <3>1. PICK i \in 1 .. Len(s) : s[i] = local_entry(x)
        BY <2>1, <2>2
      <3>2. MaxEntries \in Nat \ {0}
        BY WireAssumption
      <3>3. \E n \in DOMAIN chunks(s, MaxEntries) :
                \E j \in 1 .. Len(chunks(s, MaxEntries)[n]) :
                    chunks(s, MaxEntries)[n][j] = s[i]
        BY <2>2, <3>2, InSomeChunk
      <3> QED  BY <3>1, <3>3 DEF c
    <2>4. PICK j \in 1 .. Len(c(n)) : c(n)[j] = local_entry(x)
      BY <2>3
    <2>5. route(c(n)[j]) = Destination(x)
      BY <2>4, LocalEntry DEF LocalInv
    <2> QED  BY <1>2, <2>5
  <1> QED  BY <1>3, <1>4

(* Datagrams of other programs are bytes, too.                             *)
LEMMA ForeignResponseBytes ==
    ASSUME NEW e \in ForeignEntry
    PROVE  header_as_bytes(RIP_CMD_RESPONSE) \o <<0, 2, 0, 0>>
           \o e.address \o e.mask \o <<0, 0, 0, 0>> \o <<0, 0, 0, 1>> \in Seq(Byte)
  <1> DEFINE h == header_as_bytes(RIP_CMD_RESPONSE)
             f == <<0, 2, 0, 0>>
             z == <<0, 0, 0, 0>>
             m == <<0, 0, 0, 1>>
  <1>1. h \in Seq(Byte)
    BY HeaderBytes DEF RIP_CMD_RESPONSE, Byte
  <1>2. f \in Seq(Byte) /\ z \in Seq(Byte) /\ m \in Seq(Byte)
    BY DEF Byte
  <1>3. e.address \in Seq(Byte) /\ e.mask \in Seq(Byte)
    BY WireAssumption, IntegersAreSequences
  <1> HIDE DEF h, f, z, m
  <1>4. h \o f \in Seq(Byte)
    BY <1>1, <1>2, ConcatProperties
  <1>5. h \o f \o e.address \in Seq(Byte)
    BY <1>3, <1>4, ConcatProperties
  <1>6. h \o f \o e.address \o e.mask \in Seq(Byte)
    BY <1>3, <1>5, ConcatProperties
  <1>7. h \o f \o e.address \o e.mask \o z \in Seq(Byte)
    BY <1>2, <1>6, ConcatProperties
  <1>8. h \o f \o e.address \o e.mask \o z \o m \in Seq(Byte)
    BY <1>2, <1>7, ConcatProperties
  <1> QED  BY <1>8 DEF h, f, z, m

LEMMA ForeignBytes ==
    ASSUME NEW len \in ForeignLength, NEW command \in {0, 1, 2}
    PROVE  [n \in 1 .. len |-> IF n = 1 THEN command ELSE IF n = 2 THEN 2 ELSE 0]
               \in Seq(Byte)
  <1>1. len \in Nat
    BY WireAssumption
  <1>2. [n \in 1 .. len |-> IF n = 1 THEN command ELSE IF n = 2 THEN 2 ELSE 0]
            \in [1 .. len -> Byte]
    BY DEF Byte
  <1> QED  BY <1>1, <1>2, FunctionIsSequence

-----------------------------------------------------------------------------
(* The steps.                                                              *)

LEMMA AddNetworkLocal ==
    ASSUME LocalInv, NEW network \in Network, AddNetwork(network)
    PROVE  LocalInv'
  <1>1. network.prefix \in 0 .. 32
    <2>1. network.prefix \in Nat
      BY WireAssumption
    <2> QED  BY <2>1 DEF AddNetwork, prefix_to_mask_fails, U32_BITS
  <1> DEFINE row(n) == [rip_entry |-> local_entry(n), if_index |-> IfIndex[n.dev],
                        changed |-> n \notin advertised]
             new == [rip_entry |-> local_entry(network),
                     if_index |-> IfIndex[network.dev], changed |-> TRUE]
  <1>2. /\ local' = local \cup {new}
        /\ accepted' = accepted \cup {network} /\ advertised' = advertised
        /\ \A r \in local : ~same_key(r.rip_entry, local_entry(network))
    BY DEF AddNetwork, ifc_nametoindex
  <1>3. local = {row(n) : n \in accepted}
    BY DEF LocalInv
  <1>4. network \notin advertised
    <2>1. network \notin accepted
      <3>1. row(network).rip_entry = local_entry(network)
        OBVIOUS
      <3>2. same_key(row(network).rip_entry, local_entry(network))
        BY <3>1 DEF same_key
      <3> HIDE DEF row
      <3> QED  BY <1>2, <1>3, <3>2
    <2> QED  BY <2>1 DEF LocalInv
  <1>5. new = row(network)
    BY <1>4
  <1> HIDE DEF new
  <1>6. IsFiniteSet(local')
    BY <1>2, FS_AddElement DEF LocalInv
  <1>7. local' = {row(n) : n \in accepted'}
    <2> HIDE DEF row
    <2> QED  BY <1>2, <1>3, <1>5
  <1>8. /\ accepted' \subseteq Network /\ advertised' \subseteq accepted'
        /\ \A n \in accepted' : n.prefix \in 0 .. 32
    BY <1>1, <1>2 DEF LocalInv
  <1> QED  BY <1>2, <1>6, <1>7, <1>8 DEF LocalInv

LEMMA MarkedRoute ==
    ASSUME NEW e, NEW i, NEW S, NEW T, NEW n \in T
    PROVE  [[rip_entry |-> e, if_index |-> i, changed |-> n \notin S]
                EXCEPT !.changed = FALSE]
               = [rip_entry |-> e, if_index |-> i, changed |-> n \notin T]
  <1> DEFINE b == n \notin S
             c == n \notin T
             marked(x) == [rip_entry |-> e, if_index |-> i, changed |-> x]
  <1>1. c = FALSE
    BY Zenon
  <1>2. \A x, y : [marked(x) EXCEPT !.changed = y] = marked(y)
    OBVIOUS
  <1> HIDE DEF b, c, marked
  <1>3. [marked(b) EXCEPT !.changed = c] = [marked(b) EXCEPT !.changed = FALSE]
    BY <1>1
  <1>4. [marked(b) EXCEPT !.changed = FALSE] = marked(c)
    BY <1>2, <1>3
  <1> QED  BY <1>4 DEF b, c, marked

LEMMA MarkedLocal ==
    ASSUME LocalInv, local' = mark_all_routes_as_unchanged,
           accepted' = accepted, advertised' = accepted
    PROVE  LocalInv'
  <1> DEFINE row(n) == [rip_entry |-> local_entry(n), if_index |-> IfIndex[n.dev],
                        changed |-> n \notin advertised]
             after(n) == [rip_entry |-> local_entry(n), if_index |-> IfIndex[n.dev],
                          changed |-> n \notin accepted]
             mark(r) == [r EXCEPT !.changed = FALSE]
  <1>1. local = {row(n) : n \in accepted}
    BY DEF LocalInv
  <1>2. local' = {mark(r) : r \in local}
    BY DEF mark_all_routes_as_unchanged
  <1>3. \A n \in accepted : mark(row(n)) = after(n)
    BY MarkedRoute
  <1> HIDE DEF row, mark
  <1>4. local' = {after(n) : n \in accepted}
    <2> HIDE DEF after
    <2> QED  BY <1>1, <1>2, <1>3
  <1>5. IsFiniteSet(local')
    <2> DEFINE f == [r \in local |-> mark(r)]
    <2>1. IsFiniteSet({f[r] : r \in local})
      <3>1. IsFiniteSet(local)
        BY DEF LocalInv
      <3>2. DOMAIN f = local
        OBVIOUS
      <3> HIDE DEF f
      <3> QED  BY <3>1, <3>2, FiniteImage
    <2>2. {f[r] : r \in local} = {mark(r) : r \in local}
      OBVIOUS
    <2> HIDE DEF f
    <2> QED  BY <1>2, <2>1, <2>2
  <1> QED  BY <1>4, <1>5 DEF LocalInv

(* More networks, or fewer datagrams, do no harm to the others.            *)
LEMMA DatagramsKept ==
    ASSUME DatagramsInv, accepted \subseteq accepted', wire' = wire
    PROVE  DatagramsInv'
  BY DEF DatagramsInv, Understood

LEMMA DatagramTaken ==
    ASSUME DatagramsInv, accepted' = accepted, NEW d, wire' = wire \ {d}
    PROVE  DatagramsInv'
  <1> SUFFICES ASSUME NEW g \in wire'
               PROVE  /\ g.data \in Seq(Byte)
                      /\ g.meant # None => Understood(g)'
                      /\ ~is_malformed(g.data) /\ is_request(from_slice(g.data))
                             => wire' = {g}
    BY DEF DatagramsInv
  <1>1. g \in wire /\ g # d
    OBVIOUS
  <1>2. /\ g.data \in Seq(Byte)
        /\ g.meant # None => Understood(g)
        /\ ~is_malformed(g.data) /\ is_request(from_slice(g.data)) => wire = {g}
    BY <1>1 DEF DatagramsInv
  <1>3. Understood(g) => Understood(g)'
    BY DEF Understood
  <1> QED  BY <1>1, <1>2, <1>3

LEMMA DatagramSent ==
    ASSUME NEW d, d.data \in Seq(Byte), wire' = {d},
           d.meant # None => Understood(d)'
    PROVE  DatagramsInv'
  BY DEF DatagramsInv

LEMMA ResponseSent ==
    ASSUME LocalInv, accepted' = accepted, NEW changed_only \in BOOLEAN,
           NEW s \in SetToSeqs(get_routes_for_advertisement(Link, changed_only)),
           wire' = response(s)
    PROVE  DatagramsInv'
  <1> SUFFICES ASSUME NEW d \in response(s)
               PROVE  /\ d.data \in Seq(Byte)
                      /\ Understood(d)'
                      /\ ~is_request(from_slice(d.data))
    BY DEF DatagramsInv
  <1>1. /\ d.data \in Seq(Byte) /\ Understood(d)
        /\ ~is_request(from_slice(d.data))
    BY EntriesDue, ResponseUnderstood
  <1>2. Understood(d)'
    BY <1>1 DEF Understood
  <1> QED  BY <1>1, <1>2

(* A request is alone on the wire, so its answer is all there is then.     *)
LEMMA AnswerOfRequest ==
    ASSUME DatagramsInv, NEW d \in wire, ReceiveRequest(d)
    PROVE  \E s \in SetToSeqs(get_routes_for_advertisement(Link, FALSE)) :
               wire' = response(s)
  <1>1. wire = {d}
    BY DEF ReceiveRequest, DatagramsInv
  <1>2. PICK s \in SetToSeqs(get_routes_for_advertisement(Link, FALSE)) :
            wire' = (wire \ {d}) \cup response(s)
    BY DEF ReceiveRequest
  <1>3. wire' = response(s)
    BY <1>1, <1>2
  <1> QED  BY <1>3

LEMMA RequestUnderstood ==
    Understood(datagram(request_buffer, {}))
  <1> DEFINE d == datagram(request_buffer, {})
  <1>1. d.data = request_buffer
    BY DEF datagram
  <1> HIDE DEF d
  <1>2. ~is_malformed(d.data) /\ is_request(from_slice(d.data))
    BY <1>1, RequestBytes
  <1>3. Understood(d)
    BY <1>2 DEF Understood
  <1> QED  BY <1>3 DEF d

LEMMA InitWire ==
    ASSUME Init
    PROVE  WireInv
  <1>1. LocalInv
    BY FS_EmptySet DEF Init, LocalInv
  <1>2. DatagramsInv
    BY DEF Init, DatagramsInv
  <1>3. LearnsWhatWasConfigured
    BY DEF Init, LearnsWhatWasConfigured
  <1> QED  BY <1>1, <1>2, <1>3 DEF WireInv

(* Who is told of more networks learns the routes to the believable ones.  *)
LEMMA LearnsMore ==
    ASSUME LearnsWhatWasConfigured, NEW meant,
           told' = told \cup meant,
           learned' = learned \cup
               {Destination(n) : n \in {x \in meant : Believable(x)}}
    PROVE  LearnsWhatWasConfigured'
  BY DEF LearnsWhatWasConfigured

LEMMA NextWire ==
    ASSUME WireInv, [Next]_vars
    PROVE  WireInv'
  <1> USE DEF WireInv
  <1>1. ASSUME NEW network \in Network, AddNetwork(network)
        PROVE  WireInv'
    <2>1. LocalInv'
      BY <1>1, AddNetworkLocal
    <2>2. DatagramsInv'
      BY <1>1, DatagramsKept DEF AddNetwork
    <2>3. LearnsWhatWasConfigured'
      BY <1>1 DEF AddNetwork, LearnsWhatWasConfigured
    <2> QED  BY <2>1, <2>2, <2>3
  <1>2. CASE /\ UNCHANGED <<local, accepted, advertised>>
             /\ DatagramsInv' /\ LearnsWhatWasConfigured'
    <2>1. LocalInv'
      BY <1>2 DEF LocalInv
    <2> QED  BY <1>2, <2>1
  <1>3. ASSUME NEW changed_only \in BOOLEAN, SendAdvertisement(changed_only)
        PROVE  WireInv'
    <2>1. LocalInv'
      BY <1>3, MarkedLocal DEF SendAdvertisement
    <2>2. DatagramsInv'
      BY <1>3, ResponseSent DEF SendAdvertisement
    <2>3. LearnsWhatWasConfigured'
      BY <1>3 DEF SendAdvertisement, LearnsWhatWasConfigured
    <2> QED  BY <2>1, <2>2, <2>3
  <1>4. CASE SendRequest
    <2>1. PICK d : d = datagram(request_buffer, {})
      OBVIOUS
    <2>2. d.data \in Seq(Byte)
      BY <2>1, RequestBytes DEF datagram
    <2>3. Understood(d)'
      BY <1>4, <2>1, RequestUnderstood DEF Understood, SendRequest
    <2>4. DatagramsInv'
      BY <1>4, <2>1, <2>2, <2>3, DatagramSent DEF SendRequest
    <2>5. LearnsWhatWasConfigured'
      BY <1>4 DEF SendRequest, LearnsWhatWasConfigured
    <2> QED  BY <1>2, <1>4, <2>4, <2>5 DEF SendRequest
  <1>5. ASSUME NEW e \in ForeignEntry, SendForeignResponse(e)
        PROVE  WireInv'
    <2>1. PICK d : d = datagram(header_as_bytes(RIP_CMD_RESPONSE) \o <<0, 2, 0, 0>>
                                \o e.address \o e.mask
                                \o <<0, 0, 0, 0>> \o <<0, 0, 0, 1>>, None)
      OBVIOUS
    <2>2. d.data \in Seq(Byte) /\ d.meant = None
      BY <2>1, ForeignResponseBytes DEF datagram
    <2>3. wire' = {d}
      BY <1>5, <2>1 DEF SendForeignResponse
    <2>4. DatagramsInv'
      BY <2>2, <2>3, DatagramSent
    <2>5. LearnsWhatWasConfigured'
      BY <1>5 DEF SendForeignResponse, LearnsWhatWasConfigured
    <2> QED  BY <1>2, <1>5, <2>4, <2>5 DEF SendForeignResponse
  <1>6. ASSUME NEW len \in ForeignLength, NEW command \in {0, 1, 2},
               SendForeign(len, command)
        PROVE  WireInv'
    <2>1. PICK d : d = datagram([n \in 1 .. len |->
                                    IF n = 1 THEN command
                                    ELSE IF n = 2 THEN 2 ELSE 0], None)
      OBVIOUS
    <2>2. d.data \in Seq(Byte) /\ d.meant = None
      BY <2>1, ForeignBytes DEF datagram
    <2>3. wire' = {d}
      BY <1>6, <2>1 DEF SendForeign
    <2>4. DatagramsInv'
      BY <2>2, <2>3, DatagramSent
    <2>5. LearnsWhatWasConfigured'
      BY <1>6 DEF SendForeign, LearnsWhatWasConfigured
    <2> QED  BY <1>2, <1>6, <2>4, <2>5 DEF SendForeign
  <1>7. ASSUME NEW d \in wire,
               Lose(d) \/ ReceiveMalformed(d) \/ ReceiveUnknown(d)
        PROVE  WireInv'
    <2>1. /\ wire' = wire \ {d}
          /\ UNCHANGED <<local, accepted, advertised, told, learned>>
      BY <1>7 DEF Lose, ReceiveMalformed, ReceiveUnknown
    <2>2. DatagramsInv'
      BY <2>1, DatagramTaken
    <2>3. LearnsWhatWasConfigured'
      BY <2>1 DEF LearnsWhatWasConfigured
    <2> QED  BY <1>2, <2>1, <2>2, <2>3
  <1>8. ASSUME NEW d \in wire, ReceiveRequest(d)
        PROVE  WireInv'
    <2>1. PICK s \in SetToSeqs(get_routes_for_advertisement(Link, FALSE)) :
              wire' = response(s)
      BY <1>8, AnswerOfRequest
    <2>2. DatagramsInv'
      BY <1>8, <2>1, ResponseSent DEF ReceiveRequest
    <2>3. LearnsWhatWasConfigured'
      BY <1>8 DEF ReceiveRequest, LearnsWhatWasConfigured
    <2> QED  BY <1>2, <1>8, <2>2, <2>3 DEF ReceiveRequest
  <1>9. ASSUME NEW d \in wire, ReceiveResponse(d)
        PROVE  WireInv'
    <2>1. wire' = wire \ {d} /\ UNCHANGED <<local, accepted, advertised>>
      BY <1>9 DEF ReceiveResponse
    <2>2. DatagramsInv'
      BY <2>1, DatagramTaken
    <2>3. CASE d.meant = None
      <3>1. UNCHANGED <<told, learned>>
        BY <1>9, <2>3 DEF ReceiveResponse
      <3>2. LearnsWhatWasConfigured'
        BY <3>1 DEF LearnsWhatWasConfigured
      <3> QED  BY <1>2, <2>1, <2>2, <3>2
    <2>4. CASE d.meant # None
      <3>1. /\ told' = told \cup d.meant
            /\ learned' = learned \cup routes(from_slice(d.data))
            /\ ~is_request(from_slice(d.data))
        BY <1>9, <2>4 DEF ReceiveResponse
      <3>2. routes(from_slice(d.data))
                = {Destination(n) : n \in {x \in d.meant : Believable(x)}}
        BY <2>4, <3>1 DEF DatagramsInv, Understood
      <3>3. LearnsWhatWasConfigured'
        BY <3>1, <3>2, LearnsMore
      <3> QED  BY <1>2, <2>1, <2>2, <3>3
    <2> QED  BY <2>3, <2>4
  <1>10. CASE Restart
    <2>1. DatagramsInv'
      BY <1>10, DatagramsKept DEF Restart
    <2>2. LearnsWhatWasConfigured'
      BY <1>10 DEF Restart, LearnsWhatWasConfigured
    <2> QED  BY <1>2, <1>10, <2>1, <2>2 DEF Restart
  <1>11. CASE UNCHANGED vars
    <2>1. DatagramsInv'
      BY <1>11, DatagramsKept DEF vars
    <2>2. LearnsWhatWasConfigured'
      BY <1>11 DEF vars, LearnsWhatWasConfigured
    <2> QED  BY <1>2, <1>11, <2>1, <2>2 DEF vars
  <1> QED  BY <1>1, <1>3, <1>4, <1>5, <1>6, <1>7, <1>8, <1>9, <1>10, <1>11
           DEF Next

-----------------------------------------------------------------------------
(* The theorems.                                                           *)

(* The sender's local routes are those of the networks it accepted, the    *)
(* receiver understands what is on the wire as it was meant, and knows     *)
(* what it was told.                                                       *)
THEOREM WireInvariant == Spec => []WireInv
  <1>1. Init => WireInv
    BY InitWire
  <1>2. WireInv /\ [Next]_vars => WireInv'
    BY NextWire
  <1> QED  BY <1>1, <1>2, PTL DEF Spec

(* A neighbour learns exactly the believable networks it is told of, as    *)
(* they were configured: prefix_to_mask, to_be, chunks, from_slice and the *)
(* checks on a received entry fit together, for every network, every       *)
(* number of routes per packet and both byte orders.                       *)
THEOREM LearnsWhatWasConfiguredHolds == Spec => []LearnsWhatWasConfigured
  <1>1. WireInv => LearnsWhatWasConfigured
    BY DEF WireInv
  <1> QED  BY <1>1, WireInvariant, PTL

(* is_net_mask_valid lets no mask through that leading_ones would turn     *)
(* into another one for the kernel, and is_unicast_address nothing but     *)
(* unicast destinations, whatever the datagram.                            *)
THEOREM KernelMeansTheSameHolds == Spec => []KernelMeansTheSame
  <1>1. WireInv => KernelMeansTheSame
    BY ParsedRoutes DEF WireInv, DatagramsInv, KernelMeansTheSame
  <1> QED  BY <1>1, WireInvariant, PTL

(* build_response_buffers announces on an interface the accepted networks  *)
(* of the other interfaces and no others, of a triggered update those that *)
(* are new since the last one, wherever chunks cuts the list.              *)
THEOREM AnnouncesWhatIsConfiguredHolds == Spec => AnnouncesWhatIsConfigured
  <1> DEFINE Advertised ==
                 \A changed_only \in BOOLEAN :
                     SendAdvertisement(changed_only)
                         => Announce(wire')
                                = {Destination(n) : n \in Due(changed_only)}
             Answered ==
                 \A d \in wire \ wire' :
                     ReceiveRequest(d)
                         => Announce(wire' \ wire)
                                = {Destination(n) : n \in Due(FALSE)}
             Said == (\A d \in wire' : d.meant # None) => Advertised /\ Answered
  <1>1. ASSUME LocalInv, NEW changed_only \in BOOLEAN,
               NEW s \in SetToSeqs(get_routes_for_advertisement(Link, changed_only))
        PROVE  Announce(response(s)) = {Destination(n) : n \in Due(changed_only)}
    BY <1>1, EntriesDue, ResponseAnnounces DEF Announce
  <1>2. ASSUME WireInv, NEW changed_only \in BOOLEAN,
               SendAdvertisement(changed_only)
        PROVE  Announce(wire') = {Destination(n) : n \in Due(changed_only)}
    BY <1>1, <1>2 DEF SendAdvertisement, WireInv
  <1>3. ASSUME WireInv, NEW d \in wire \ wire', ReceiveRequest(d)
        PROVE  Announce(wire' \ wire) = {Destination(n) : n \in Due(FALSE)}
    <2>1. wire = {d} /\ is_request(from_slice(d.data))
      BY <1>3 DEF ReceiveRequest, WireInv, DatagramsInv
    <2>2. PICK s \in SetToSeqs(get_routes_for_advertisement(Link, FALSE)) :
              wire' = response(s)
      BY <1>3, AnswerOfRequest DEF WireInv
    <2>3. wire' \ wire = response(s)
      BY <1>3, <2>1, <2>2
    <2> QED  BY <1>1, <1>3, <2>2, <2>3 DEF WireInv
  <1>4. WireInv => Said
    BY <1>2, <1>3
  <1>5. WireInv => [Said]_vars
    BY <1>4
  <1> QED  BY <1>5, WireInvariant, PTL DEF AnnouncesWhatIsConfigured

(* No response and no request of a daemon ends the receive task or run()   *)
(* of another one: from_slice does not find it malformed, and              *)
(* handle_packet knows what it is.                                         *)
THEOREM OwnDatagramsUnderstoodHolds == Spec => OwnDatagramsUnderstood
  <1> DEFINE Ends == receiver = "running" /\ receiver' # "running"
             Foreign == \E d \in wire \ wire' : d.meant = None
  <1>1. ASSUME WireInv, [Next]_vars, Ends
        PROVE  Foreign
    <2>1. \E d \in wire : ReceiveMalformed(d) \/ ReceiveUnknown(d)
      BY <1>1 DEF Next, vars, AddNetwork, SendAdvertisement, SendRequest,
                  SendForeignResponse, SendForeign, Lose, ReceiveRequest,
                  ReceiveResponse, Restart
    <2>2. PICK d \in wire : ReceiveMalformed(d) \/ ReceiveUnknown(d)
      BY <2>1
    <2>3. d \in wire \ wire'
      BY <2>2 DEF ReceiveMalformed, ReceiveUnknown
    <2>4. ~Understood(d)
      BY <2>2 DEF ReceiveMalformed, ReceiveUnknown, Understood
    <2>5. d.meant = None
      BY <1>1, <2>4 DEF WireInv, DatagramsInv
    <2> QED  BY <2>3, <2>5
  <1>2. WireInv /\ [Next]_vars => [Ends => Foreign]_vars
    BY <1>1
  <1> QED  BY <1>2, WireInvariant, PTL DEF Spec, OwnDatagramsUnderstood

=============================================================================
