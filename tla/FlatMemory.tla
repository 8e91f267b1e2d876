---------------------------- MODULE FlatMemory ----------------------------
(***************************************************************************)
(* What the RAM device promises: an array of bytes.  This is also what     *)
(* memory.c is without CONFIG_DOS, where self->data is one calloc'ed block *)
(* and the three operations are memcpy and memcmp.                         *)
(***************************************************************************)
EXTENDS Naturals

CONSTANTS Size,       \* dev.size, in bytes
          Value,      \* what a byte may hold
          MaxAccess   \* bound: the longest access the callers make

VARIABLES data,       \* the bytes of RAM
          ret         \* the answer the call in progress hands to its caller

flatVars == <<data, ret>>

Address == 0 .. Size - 1

Buffer == UNION {[0 .. n - 1 -> Value] : n \in 1 .. MaxAccess}

\* sizeof(buf): the accesses are never empty
Len(buf) == CHOOSE n \in 1 .. MaxAccess : DOMAIN buf = 0 .. n - 1

\* assert(addr < dev.size); assert(size <= dev.size - addr)
InRange(a, n) == a < Size /\ n <= Size - a

Bytes(a, n) == LET now == data IN [i \in 0 .. n - 1 |-> now[a + i]]

Idle == [op |-> "none"]

FlatInit ==
  /\ data \in [Address -> Value]
  /\ ret = Idle

mem_read(a, n) ==
  /\ ret = Idle
  /\ InRange(a, n)
  /\ ret' = [op |-> "read", addr |-> a, buf |-> Bytes(a, n)]
  /\ UNCHANGED data

mem_write(a, buf) ==
  /\ ret = Idle
  /\ InRange(a, Len(buf))
  /\ LET old == data IN
       data' = [x \in Address |->
                  IF x >= a /\ x - a \in DOMAIN buf THEN buf[x - a] ELSE old[x]]
  /\ UNCHANGED ret

\* Only whether memcmp finds a difference is kept, not its sign: memory.h
\* offers mem_cmp, and nothing in the emulator calls it.
mem_cmp(a, buf) ==
  /\ ret = Idle
  /\ InRange(a, Len(buf))
  /\ ret' = [op |-> "cmp", addr |-> a, buf |-> buf, equal |-> Bytes(a, Len(buf)) = buf]
  /\ UNCHANGED data

Return ==
  /\ ret # Idle
  /\ ret' = Idle
  /\ UNCHANGED data

FlatNext ==
  \/ Return
  \/ \E a \in Address :
       \/ \E n \in 1 .. MaxAccess : mem_read(a, n)
       \/ \E buf \in Buffer : mem_write(a, buf)
       \/ \E buf \in Buffer : mem_cmp(a, buf)

FlatSpec == FlatInit /\ [][FlatNext]_flatVars
=============================================================================
