----------------------------- MODULE MemoryPorts -----------------------------
(***************************************************************************)
(* What the fabric of the core complex promises to those who use it: each  *)
(* port has one access at a time, the access takes effect once, between    *)
(* its request and its answer, a bank does one access at a time, and the   *)
(* answer is what the access found.  Nothing is said about clocks, masks   *)
(* or priorities.                                                          *)
(***************************************************************************)
CONSTANTS
  Ports,    \* who may ask
  Masters,  \* the ports a reset of the core does not touch
  Bank,     \* the bank of each word of memory
  Data,     \* what a word may hold
  Fixed     \* words that cannot be written and hold their own name

VARIABLES
  mem,      \* the contents of the memories
  port      \* the access of each port, waiting or answered

Words == DOMAIN Bank

Idle == [st |-> "idle"]
Wait(op) == [st |-> "wait", op |-> op]
Done(val) == [st |-> "done", val |-> val]

\* A master is not told that an address is nowhere: its access does nothing.
Result(p, op) ==
  CASE op.addr \in Words -> IF op.wr THEN "ok" ELSE mem[op.addr]
    [] op.addr \in Fixed -> op.addr
    [] OTHER             -> IF p \in Masters THEN "ok" ELSE "error"

MemInit ==
  /\ mem \in [Words -> Data]
  /\ port = [p \in Ports |-> Idle]

Waits(p) == port[p].st = "wait"

Served(p) == Waits(p) /\ port'[p].st = "done"

InBank(p, w) ==
  /\ Served(p)
  /\ port[p].op.addr \in Words
  /\ Bank[port[p].op.addr] = Bank[w]

Writes(p, w) == Served(p) /\ port[p].op.wr /\ port[p].op.addr = w

\* An access waits, is served, or makes place for another.
PortStep(p) ==
  \/ port'[p] = port[p]
  \/ Served(p) /\ port'[p] = Done(Result(p, port[p].op))
  \/ /\ port[p].st \in {"idle", "done"}
     /\ port'[p].st \in {"idle", "wait"}

Access ==
  /\ \A p \in Ports : PortStep(p)
  /\ \A w \in Words : \A p, q \in Ports :
       InBank(p, w) /\ InBank(q, w) => p = q
  /\ \A w \in Words :
       \/ mem'[w] = mem[w] /\ ~\E p \in Ports : Writes(p, w)
       \/ \E p \in Ports : Writes(p, w) /\ mem'[w] = port[p].op.data

\* A reset of the core withdraws its accesses, served or not.
Withdraw ==
  /\ port' = [p \in Ports |-> IF p \in Masters THEN port[p] ELSE Idle]
  /\ UNCHANGED mem

MemNext == Access \/ Withdraw

MemSpec == MemInit /\ [][MemNext]_<<mem, port>>
==============================================================================
