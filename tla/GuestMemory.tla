---------------------------- MODULE GuestMemory ----------------------------
(***************************************************************************)
(* Guest addresses: runtime/memory/guest.h.  A guest address is a 32-bit   *)
(* number, written here as its four bytes, the first the most significant. *)
(* Memory is two blocks; an address outside both is refused, never         *)
(* followed.                                                               *)
(***************************************************************************)
EXTENDS Integers, Sequences

RamSize  == 24 * 1024 * 1024     \* GUEST_RAM_SIZE
VmemBase == 126 * 16777216       \* GUEST_VMEM_BASE, 0x7E000000
VmemSize == 32 * 1024 * 1024     \* GUEST_VMEM_SIZE

Byte == 0..255
Word == [1..4 -> Byte]

\* The bits lo..lo+n-1 of a word, bit 0 the least significant; the field is in
\* the upper or in the lower three bytes.
Field(w, lo, n) ==
  LET upper == (w[1] * 256 + w[2]) * 256 + w[3]
      lower == (w[2] * 256 + w[3]) * 256 + w[4]
  IN  IF lo >= 8 THEN (upper \div 2^(lo - 8)) % 2^n ELSE (lower \div 2^lo) % 2^n

\* be32, of a word whose top bit is clear.
Number(w) == ((w[1] * 256 + w[2]) * 256 + w[3]) * 256 + w[4]

\* The bytes of a number below 2^31.
Bytes(n) == <<n \div 16777216, (n \div 65536) % 256, (n \div 256) % 256, n % 256>>

InVmem(addr) == addr[1] \in {126, 127}

\* An address that folds below 24 MB; the cached and the uncached form, and
\* the physical, name one byte.
RamOffset(addr) == Field(addr, 24, 6) * 16777216 + Field(addr, 0, 24)

\* guest_ptr: the block and the offset, or a refusal.
Refused == <<"none", 0>>
Place(addr, size) ==
  IF InVmem(addr)
  THEN LET off == Number(addr) - VmemBase
       IN  IF size > VmemSize - off THEN Refused ELSE <<"vmem", off>>
  ELSE LET off == RamOffset(addr)
       IN  IF off > RamSize \/ size > RamSize - off THEN Refused ELSE <<"ram", off>>

\* guest_from_phys26: a 26-bit hardware address, back in the guest's space.
FromPhys26(w) ==
  LET top == w[1] % 4
  IN  <<IF top >= 2 THEN 124 + top ELSE 128 + top, w[2], w[3], w[4]>>
=============================================================================
