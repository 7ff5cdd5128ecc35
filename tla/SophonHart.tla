---------------------------- MODULE SophonHart ----------------------------
(***************************************************************************)
(* What the Sophon core promises to software: a hart that completes one    *)
(* instruction after another and takes traps between instructions.  This   *)
(* is the abstract specification that the clock-edge model of the core,    *)
(* SophonCore, is shown to implement.                                      *)
(*                                                                         *)
(*   apc    the address of the next instruction to complete                *)
(*   last   the address execution had reached at the last step             *)
(*   wasmie mstatus.MIE as it was before the last instruction completed    *)
(*   mode   the mode field of mtvec                                        *)
(*   mie, mpie, mepc, level, plevel   the trap state software sees         *)
(*   trap   how the last trap came about, and the mcause its handler finds *)
(***************************************************************************)
EXTENDS SophonIsa

VARIABLES apc, last, wasmie, mode, mie, mpie, mepc, level, plevel, trap

hartVars == <<apc, last, wasmie, mode, mie, mpie, mepc, level, plevel,
              trap>>

HartInit ==
  /\ apc = BootAddr
  /\ last = ZeroAddr
  /\ wasmie = FALSE
  /\ mode = "direct"
  /\ mie = FALSE
  /\ mpie = TRUE
  /\ mepc = ZeroAddr
  /\ level = 0
  /\ plevel = 0
  /\ trap = NoTrap

\* An instruction completes and execution goes on at target.
Complete(target) ==
  /\ apc' = target
  /\ last' = apc
  /\ wasmie' = mie
  /\ UNCHANGED trap

\* Instructions that leave the trap state alone.
Exec(i) ==
  /\ i.op \in {"alu", "load", "store", "cust", "jump"}
  /\ Complete(NextOf(i, apc, mepc))
  /\ UNCHANGED <<mode, mie, mpie, mepc, level, plevel>>

WriteMstatus(i) ==
  /\ i.op \in {"mie_on", "mie_off", "mpie_on"}
  /\ Complete(Succ[apc])
  /\ mie' = (i.op = "mie_on")
  /\ mpie' = (mpie \/ i.op = "mpie_on")
  /\ UNCHANGED <<mode, mepc, level, plevel>>

WriteTrapRegister(i) ==
  /\ i.op \in {"mepc", "mtvec", "mcause"}
  /\ Complete(Succ[apc])
  /\ mepc' = IF i.op = "mepc" THEN i.arg ELSE mepc
  /\ mode' = IF i.op = "mtvec" THEN i.arg ELSE mode
  /\ IF i.op = "mcause" /\ mode = "clic"
       THEN mpie' = TRUE /\ plevel' = 0
       ELSE UNCHANGED <<mpie, plevel>>
  /\ UNCHANGED <<mie, level>>

TrapReturn ==
  /\ Complete(mepc)
  /\ mie' = mpie
  /\ mpie' = TRUE
  /\ level' = plevel
  /\ UNCHANGED <<mode, mepc, plevel>>

\* csrrsi mnxti: enables interrupts and claims the next one, if there is one
\* above the level that the current handler interrupted.
ReadNext ==
  /\ Complete(Succ[apc])
  /\ mie' = (mie \/ mode = "clic")
  /\ \/ level' = level
     \/ /\ mode = "clic"
        /\ \E id \in ClicIrqs \ ShvIrqs :
             Level[id] > plevel /\ level' = Level[id]
  /\ UNCHANGED <<mode, mpie, mepc, plevel>>

EnterTrap(epc, by, cause) ==
  /\ mepc' = epc
  /\ last' = epc
  /\ mpie' = mie
  /\ mie' = FALSE
  /\ wasmie' = FALSE
  /\ trap' = [by |-> by, cause |-> cause]
  /\ UNCHANGED mode

\* Instruction i at apc traps.
Exception(i) ==
  /\ i.op \in DOMAIN ExcCode
  /\ EnterTrap(apc, "exception", Exc(ExcCode[i.op]))
  /\ apc' = TrapBase
  /\ UNCHANGED <<level, plevel>>

\* The instruction at apc cannot be fetched: the core reports the address
\* execution had reached before (pc does not advance on a fetch error).
FetchFault ==
  /\ EnterTrap(last, "exception", Exc(1))
  /\ apc' = TrapBase
  /\ UNCHANGED <<level, plevel>>

\* A CLINT interrupt is taken before the instruction at apc.  It may still be
\* taken right after the instruction that cleared mstatus.MIE.
ClintInterrupt(line) ==
  /\ mie \/ wasmie
  /\ mode # "clic"
  /\ EnterTrap(apc, "interrupt", Irq(IrqCode[line]))
  /\ apc' = IF mode = "vector" THEN Slot[IrqCode[line]] ELSE TrapBase
  /\ UNCHANGED <<level, plevel>>

\* A CLIC interrupt preempts what runs at a lower level.
ClicInterrupt(id) ==
  /\ mode = "clic"
  /\ mie
  /\ Level[id] > level
  /\ EnterTrap(apc, "interrupt", Irq(id))
  /\ apc' = IF id \in ShvIrqs THEN Vec[id] ELSE TrapBase
  /\ level' = Level[id]
  /\ plevel' = level

\* The soft reset of the core.
Reset ==
  /\ apc' = BootAddr /\ last' = ZeroAddr /\ mepc' = ZeroAddr
  /\ wasmie' = FALSE /\ mie' = FALSE /\ mpie' = TRUE /\ mode' = "direct"
  /\ level' = 0 /\ plevel' = 0 /\ trap' = NoTrap

HartNext ==
  \/ \E i \in Insns : \/ Exec(i) \/ WriteMstatus(i) \/ WriteTrapRegister(i)
                       \/ Exception(i)
  \/ TrapReturn
  \/ ReadNext
  \/ FetchFault
  \/ \E line \in IrqLines : ClintInterrupt(line)
  \/ \E id \in ClicIrqs : ClicInterrupt(id)
  \/ Reset

HartSpec == HartInit /\ [][HartNext]_hartVars
=============================================================================
