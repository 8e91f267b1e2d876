----------------------------- MODULE DeviceTree -----------------------------
(***************************************************************************)
(* device_tree.c: the tree that tells the guest where the devices are and  *)
(* how their interrupts are wired.  A node is a record of what in it       *)
(* refers to the board or to another node: its phandle, its reg, the       *)
(* interrupts it raises as pairs of a phandle and a specifier, and the     *)
(* length of the specifiers it takes; the rest of the tree is text.  Every *)
(* call of libfdt may fail, which Boot adds.                               *)
(***************************************************************************)
EXTENDS Naturals, Sequences

VARIABLE dt     \* the DeviceTree, and what was written to its buffer

PLIC_INTERRUPTS == 1
NS16550A_IRQ == 1
IRQ_MACHINE_SW_INT == 3
IRQ_MACHINE_TMR_INT == 7
IRQ_SUPERVISOR_EXT_INT == 9
IRQ_MACHINE_EXT_INT == 11

NoReg == <<"none", "none">>
Node(name, phandle, reg, cells, irqs) ==
  [name |-> name, phandle |-> phandle, reg |-> reg, cells |-> cells, irqs |-> irqs]

\* Mutant: the counter is read before it is advanced.
Mutant_nextPhandle(d) == d.nextPhandle

_nextPhandle(d) == d.nextPhandle + 1

EmptyTree ==
  [nextPhandle |-> 0, inSOC |-> FALSE, uart0Phandle |-> 0, intcPhandle |-> 0, plicPhandle |-> 0,
   memory |-> NoReg, nodes |-> {}, stdout |-> 0, depth |-> 0]

\* The root, the hart with its interrupt controller, and the soc left open
dt_init ==
  LET ph == _nextPhandle(EmptyTree)
  IN dt' = [EmptyTree EXCEPT !.nextPhandle = @ + 1, !.intcPhandle = ph, !.inSOC = TRUE, !.depth = 2,
              !.nodes = {Node("cpu-intc", ph, NoReg, 1, <<>>)}]

dt_addMemeory(reg) ==
  /\ dt.inSOC
  /\ dt' = [dt EXCEPT !.memory = reg]

dt_addAclint(reg) ==
  /\ dt.inSOC
  /\ dt' = [dt EXCEPT !.nodes = @ \cup
              {Node("clint", 0, reg, 0, <<<<dt.intcPhandle, <<IRQ_MACHINE_SW_INT>>>>,
                                          <<dt.intcPhandle, <<IRQ_MACHINE_TMR_INT>>>>>>)}]

dt_addPlic(reg, irqs) ==
  LET ph == _nextPhandle(dt)
  IN /\ dt.inSOC
     /\ dt' = [dt EXCEPT !.nextPhandle = @ + 1, !.plicPhandle = ph, !.nodes = @ \cup
                 {Node("plic", ph, reg, irqs, <<<<dt.intcPhandle, <<IRQ_MACHINE_EXT_INT>>>>,
                                                <<dt.intcPhandle, <<IRQ_SUPERVISOR_EXT_INT>>>>>>)}]

\* Only the first UART gets a phandle, and only one with an interrupt is wired.
dt_addNs16550a(reg, irq) ==
  LET first == dt.uart0Phandle = 0
      ph == IF first THEN _nextPhandle(dt) ELSE 0
      wired == irq # 0 /\ dt.plicPhandle # 0
  IN /\ dt.inSOC
     /\ dt' = [dt EXCEPT !.nextPhandle = IF first THEN @ + 1 ELSE @,
                         !.uart0Phandle = IF first THEN ph ELSE @,
                         !.nodes = @ \cup {Node("serial", ph, reg, 0,
                                                IF wired THEN <<<<dt.plicPhandle, <<irq>>>>>> ELSE <<>>)}]

\* soc is closed, memory and chosen follow, and the root is closed
dt_finish ==
  /\ dt.inSOC
  /\ dt' = [dt EXCEPT !.inSOC = FALSE, !.depth = @ - 2, !.stdout = dt.uart0Phandle,
                      !.nodes = @ \cup {Node("memory", 0, dt.memory, 0, <<>>)}]

-----------------------------------------------------------------------------
\* The cause that plic.c raises for a context: contexts go in pairs, M then S.
ContextCause(i) == IF i % 2 # 0 THEN IRQ_SUPERVISOR_EXT_INT ELSE IRQ_MACHINE_EXT_INT

\* The tree describes the board: each node's reg is a device on the bus and each
\* device has a node; a phandle names one node, and what refers to one names a
\* node that takes a specifier of that length; the PLIC's contexts are listed
\* in the order in which plic.c numbers them, and the UART raises the
\* interrupt that ns16550a.c raises.
Describes(d, board) ==
  LET Targets(ph) == {m \in d.nodes : m.phandle = ph}
  IN /\ d.depth = 0
     /\ {m.reg : m \in d.nodes} \ {NoReg} = board
     /\ \A m \in d.nodes : \A k \in DOMAIN m.irqs :
          /\ m.irqs[k][1] # 0
          /\ \E t \in d.nodes : Targets(m.irqs[k][1]) = {t} /\ Len(m.irqs[k][2]) = t.cells
     /\ d.stdout # 0 /\ \E t \in d.nodes : Targets(d.stdout) = {t} /\ t.name = "serial"
     /\ \E m \in d.nodes : /\ m.name = "plic" /\ Len(m.irqs) = 2
                           /\ \A i \in 0 .. 1 : m.irqs[i + 1][2] = <<ContextCause(i)>>
     /\ \E m \in d.nodes : /\ m.name = "serial"
                           /\ m.irqs = <<<<d.plicPhandle, <<NS16550A_IRQ>>>>>>
=============================================================================
