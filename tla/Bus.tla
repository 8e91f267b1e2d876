-------------------------------- MODULE Bus --------------------------------
(***************************************************************************)
(* bus.c: finding the device an access falls on, and the reservation that  *)
(* LR makes and SC asks for.  Addresses are unsigned and wrap at AddrMod.  *)
(* MemAccess is the hart that accesses the bus.                            *)
(***************************************************************************)
EXTENDS Integers, Sequences

CONSTANTS AddrMod,    \* 2^64 or 2^32
          Devices     \* the base and size of what main registers, in its order

BUS_MAX_DEVICES == 4

ASSUME BusAssumption ==
  /\ AddrMod \in Nat \ {0}
  /\ Devices \in Seq([base : Nat, size : Nat \ {0}])
  /\ Len(Devices) <= BUS_MAX_DEVICES
  /\ \A k \in 1 .. Len(Devices) : Devices[k].base + Devices[k].size < AddrMod

VARIABLES devices,      \* the devices registered so far
          reservation

busVars == <<devices, reservation>>

None == [dev |-> 0, addr |-> 0, size |-> 0]

bus_init == devices = <<>> /\ reservation = [addr |-> 0, size |-> 0, valid |-> FALSE]

\* The sums wrap, so an access across the top of the address space ends low.
_includes(base, size, a, s) == a >= base /\ (a + s) % AddrMod <= (base + size) % AddrMod

\* The access as the first device that includes it sees it, or None.
_findDevice(a, s) ==
  LET I == {k \in 1 .. Len(devices) : _includes(devices[k].base, devices[k].size, a, s)}
  IN IF I = {} THEN None
     ELSE LET k == CHOOSE k \in I : \A j \in I : k <= j
          IN [dev |-> k, addr |-> (a - devices[k].base) % AddrMod, size |-> s]

bus_register ==
  /\ Len(devices) < Len(Devices)
  /\ devices' = Append(devices, Devices[Len(devices) + 1])
  /\ UNCHANGED reservation

\* Mutant: a store leaves the reservation alone.
MutantAfterWrite(r, a, s) == r

\* What bus_write leaves of the reservation r when it has found a device
AfterWrite(r, a, s) ==
  [r EXCEPT !.valid = @ /\ ~_includes(r.addr, r.size, a, s)]

bus_reservationCreate(a, s) == [addr |-> a, size |-> s, valid |-> TRUE]

\* What bus_reservationCheckInvalidate returns and what it leaves of r
bus_reservationCheck(r, a, s) == r.valid /\ _includes(r.addr, r.size, a, s)
Invalidated(r) == [r EXCEPT !.valid = FALSE]
=============================================================================
