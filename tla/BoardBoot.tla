------------------------------ MODULE BoardBoot ------------------------------
(***************************************************************************)
(* The board from reset to the service loop: Reset_Handler, main and       *)
(* InitSystemClock as one program of named steps, the registers they write *)
(* and the hardware that follows them in its own time.  A write to a       *)
(* peripheral without a clock is dropped, and so is one to a field the     *)
(* hardware has locked.  The regulator scale is left out: the step writes  *)
(* the value it has out of reset.                                          *)
(***************************************************************************)
EXTENDS Naturals, Sequences

CONSTANTS
  PollLimit,     \* kReadyPollLimit, scaled
  MaxCycles,     \* times the power is cut
  MaxEvents      \* interrupts queued between two passes of the loop

BootConstants == PollLimit \in Nat \ {0} /\ MaxCycles \in Nat /\ MaxEvents \in Nat \ {0}
ASSUME BootAssumption == BootConstants

VARIABLES
  cpu,     \* program position, polls made, clock status, FPU, and the RAM image
  reg,     \* the registers of RCC, FLASH and GPIOA that the boot touches
  app,     \* what the static constructors found, the effect, the timer, the queue
  broken,  \* the parts of this board that do not work
  cycles   \* power cycles so far
bootVars == <<cpu, reg, app, broken, cycles>>

Parts == {"hse", "flash", "pll", "switch", "usb"}
MHz == 1000000

---------------------------------------------------------------------------
(* Clock tree.  The P field of PLLCFGR is an encoding and not the divider. *)

kHsiHz == 16 * MHz
kHseHz == 8 * MHz
kPllM == 4
kPllN == 168
kPllP == 2
kPllQ == 7
kSysclkHz == (((kHseHz \div kPllM) * kPllN) \div kPllP)
kUsbClkHz == 48 * MHz
\* MUTANT of kPllCfgr: the divider where the field takes its encoding.
PllCfgrWithDivider == [m |-> kPllM, n |-> kPllN, p |-> kPllP, q |-> kPllQ]
kPllCfgr == [m |-> kPllM, n |-> kPllN, p |-> (kPllP \div 2) - 1, q |-> kPllQ]

Vco(r) == (kHseHz \div r.config.m) * r.config.n
Sysclk(r) == IF r.sws = "pll" THEN Vco(r) \div (2 * (r.config.p + 1)) ELSE kHsiHz
UsbClock(r) == IF r.pllReady /\ r.mux = "pllq" THEN Vco(r) \div r.config.q ELSE 0

---------------------------------------------------------------------------
(* The program.                                                            *)

\* Reset_Handler up to main.
\* MUTANT of ResetSequence: the FPU enabled last, as the first thing main needs.
FpuAfterConstructors == << "CopyData", "ZeroBss", "Constructors", "EnableFpu" >>
ResetSequence == << "EnableFpu", "CopyData", "ZeroBss", "Constructors" >>

\* InitSystemClock: a write, and where the hardware answers late the poll after it.
\* MUTANT of ClockSequence: wait states and prescalers after the switch.
SlowBusesLast ==
  << "HseOff", "HseGone", "HseBypass", "HseOn", "HseReady", "PllOff", "PllGone", "PllConfig",
     "PllOn", "PllReady", "Switch", "Switched", "Latency", "LatencyTaken", "Prescalers" >>
ClockSequence ==
  << "HseOff", "HseGone", "HseBypass", "HseOn", "HseReady", "Latency", "LatencyTaken", "Prescalers",
     "PllOff", "PllGone", "PllConfig", "PllOn", "PllReady", "Switch", "Switched" >>

Bringup == << "InitOtgFsGpio", "InitOtgFsClock", "InitTinyUsbStack", "PrepareEffect", "EnableBlockTimer", "Serve" >>
Program == ResetSequence \o << "InitFaultLed" >> \o ClockSequence \o Bringup
After(step) == LET n == CHOOSE i \in DOMAIN Program : Program[i] = step IN Program[n + 1]
IsIn(sequence, step) == \E n \in DOMAIN sequence : sequence[n] = step

\* ClockInitStatus, by the poll that gives up.
ClockInitStatus ==
  [HseGone |-> "kHsePriorDisableTimeout", HseReady |-> "kHseNotReady",
   LatencyTaken |-> "kFlashLatencyRejected", PllGone |-> "kPllPriorDisableTimeout",
   PllReady |-> "kPllNotReady", Switched |-> "kSysclkSwitchFailed"]

\* Reset gives every register its default.  A debugger that starts the image
\* without a reset leaves oscillator and PLL as the image before set them.
ResetRegisters ==
  [gpio |-> FALSE, otg |-> FALSE, led |-> FALSE, pins |-> "analog",
   hse |-> FALSE, bypass |-> FALSE, hseReady |-> FALSE, latency |-> 0, prescalers |-> <<1, 1, 1>>,
   pll |-> FALSE, pllReady |-> FALSE, config |-> [m |-> 16, n |-> 192, p |-> 0, q |-> 4],
   mux |-> "pllq", sw |-> "hsi", sws |-> "hsi"]
LeftRunning == [ResetRegisters EXCEPT !.hse = TRUE, !.hseReady = TRUE, !.pll = TRUE, !.pllReady = TRUE]

PoweredUp == [pc |-> Program[1], polls |-> 0, status |-> "none", fpu |-> FALSE, data |-> FALSE, bss |-> FALSE]
Unbuilt == [built |-> "nothing", effect |-> 0, timer |-> FALSE, irq |-> FALSE, queue |-> 0]

BootInit ==
  /\ cpu = PoweredUp
  /\ reg \in {ResetRegisters, LeftRunning}
  /\ app = Unbuilt
  /\ broken \in {{}} \cup {{part} : part \in Parts}
  /\ cycles = 0

At(step) == cpu.pc = step
Proceed == cpu' = [cpu EXCEPT !.pc = After(@)]

---------------------------------------------------------------------------
(* Reset_Handler.  An instruction of the FPU before it is on is a fault.   *)

EnableFpu ==
  /\ At("EnableFpu")
  /\ cpu' = [cpu EXCEPT !.fpu = TRUE, !.pc = After(@)]
  /\ UNCHANGED <<reg, app, broken, cycles>>
CopyData ==
  /\ At("CopyData")
  /\ cpu' = [cpu EXCEPT !.data = TRUE, !.pc = After(@)]
  /\ UNCHANGED <<reg, app, broken, cycles>>
ZeroBss ==
  /\ At("ZeroBss")
  /\ cpu' = [cpu EXCEPT !.bss = TRUE, !.pc = After(@)]
  /\ UNCHANGED <<reg, app, broken, cycles>>

\* __libc_init_array
Constructors ==
  /\ At("Constructors")
  /\ IF cpu.fpu
     THEN /\ Proceed
          /\ app' = [app EXCEPT !.built = IF cpu.data /\ cpu.bss THEN "whole" ELSE "garbage"]
     ELSE cpu' = [cpu EXCEPT !.pc = "HardFault_Handler"] /\ UNCHANGED app
  /\ UNCHANGED <<reg, broken, cycles>>

---------------------------------------------------------------------------
(* InitFaultLed, InitSystemClock.                                          *)

InitFaultLed ==
  /\ At("InitFaultLed")
  /\ Proceed
  /\ reg' = [reg EXCEPT !.gpio = TRUE, !.led = TRUE]
  /\ UNCHANGED <<app, broken, cycles>>

\* HSEBYP is writable only with the oscillator off, PLLCFGR only with the PLL off.
AfterWrite(step) ==
  CASE step = "HseOff" -> [reg EXCEPT !.hse = FALSE]
    [] step = "HseBypass" -> IF reg.hse THEN reg ELSE [reg EXCEPT !.bypass = TRUE]
    [] step = "HseOn" -> [reg EXCEPT !.hse = TRUE]
    [] step = "Latency" -> IF "flash" \in broken THEN reg ELSE [reg EXCEPT !.latency = 5]
    [] step = "Prescalers" -> [reg EXCEPT !.prescalers = <<1, 4, 2>>]
    [] step = "PllOff" -> [reg EXCEPT !.pll = FALSE]
    [] step = "PllConfig" -> IF reg.pll THEN reg ELSE [reg EXCEPT !.config = kPllCfgr, !.mux = "pllq"]
    [] step = "PllOn" -> [reg EXCEPT !.pll = TRUE]
    [] step = "Switch" -> [reg EXCEPT !.sw = "pll"]
Writes == {"HseOff", "HseBypass", "HseOn", "Latency", "Prescalers", "PllOff", "PllConfig", "PllOn", "Switch"}

InitSystemClock ==
  /\ cpu.pc \in Writes
  /\ reg' = AfterWrite(cpu.pc)
  /\ cpu' = [cpu EXCEPT !.pc = After(@)]
  /\ UNCHANGED <<app, broken, cycles>>

Arrived(step) ==
  CASE step = "HseGone" -> ~reg.hseReady
    [] step = "HseReady" -> reg.hseReady
    [] step = "LatencyTaken" -> reg.latency = 5
    [] step = "PllGone" -> ~reg.pllReady
    [] step = "PllReady" -> reg.pllReady
    [] step = "Switched" -> reg.sws = "pll"

\* MUTANT of Poll: one turn more than the bound.
PollPastTheLimit ==
  /\ cpu.pc \in DOMAIN ClockInitStatus
  /\ cpu' = IF Arrived(cpu.pc)
            THEN [cpu EXCEPT !.pc = After(@), !.polls = 0,
                             !.status = IF cpu.pc = ClockSequence[Len(ClockSequence)] THEN "kOk" ELSE @]
            ELSE IF cpu.polls <= PollLimit
            THEN [cpu EXCEPT !.polls = @ + 1]
            ELSE [cpu EXCEPT !.pc = Bringup[1], !.polls = 0, !.status = ClockInitStatus[cpu.pc]]
  /\ UNCHANGED <<reg, app, broken, cycles>>

\* Every poll has its bound, and the first one to reach it is InitSystemClock's
\* result.  main discards the result and goes on.
Poll ==
  /\ cpu.pc \in DOMAIN ClockInitStatus
  /\ cpu' = IF Arrived(cpu.pc)
            THEN [cpu EXCEPT !.pc = After(@), !.polls = 0,
                             !.status = IF cpu.pc = ClockSequence[Len(ClockSequence)] THEN "kOk" ELSE @]
            ELSE IF cpu.polls < PollLimit
            THEN [cpu EXCEPT !.polls = @ + 1]
            ELSE [cpu EXCEPT !.pc = Bringup[1], !.polls = 0, !.status = ClockInitStatus[cpu.pc]]
  /\ UNCHANGED <<reg, app, broken, cycles>>

\* The hardware follows the request, when it works and has what it needs.
HseSettles ==
  /\ reg.hse # reg.hseReady /\ "hse" \notin broken
  /\ reg.hse => reg.bypass
  /\ reg' = [reg EXCEPT !.hseReady = reg.hse]
  /\ UNCHANGED <<cpu, app, broken, cycles>>
PllSettles ==
  /\ reg.pll # reg.pllReady /\ "pll" \notin broken
  /\ reg.pll => reg.hseReady
  /\ reg' = [reg EXCEPT !.pllReady = reg.pll]
  /\ UNCHANGED <<cpu, app, broken, cycles>>
SwitchSettles ==
  /\ reg.sw # reg.sws /\ reg.pllReady /\ "switch" \notin broken
  /\ reg' = [reg EXCEPT !.sws = reg.sw]
  /\ UNCHANGED <<cpu, app, broken, cycles>>

---------------------------------------------------------------------------
(* The rest of main.                                                       *)

InitOtgFsGpio ==
  /\ At("InitOtgFsGpio")
  /\ Proceed
  /\ reg' = IF reg.gpio THEN [reg EXCEPT !.pins = "af10"] ELSE reg
  /\ UNCHANGED <<app, broken, cycles>>

InitOtgFsClock ==
  /\ At("InitOtgFsClock")
  /\ Proceed
  /\ reg' = [reg EXCEPT !.otg = TRUE]
  /\ UNCHANGED <<app, broken, cycles>>

\* tusb_init: the core reads zeroes without its bus clock, and without its 48 MHz
\* it may answer or not.  The NVIC comes last.  A stack that does not come up
\* leaves main in an empty loop.
InitTinyUsbStack ==
  /\ At("InitTinyUsbStack")
  /\ \E answers \in BOOLEAN :
     IF reg.otg /\ "usb" \notin broken /\ (answers \/ UsbClock(reg) = kUsbClkHz)
     THEN Proceed /\ app' = [app EXCEPT !.irq = TRUE]
     ELSE cpu' = [cpu EXCEPT !.pc = "Halted"] /\ UNCHANGED app
  /\ UNCHANGED <<reg, broken, cycles>>

PrepareEffect ==
  /\ At("PrepareEffect")
  /\ Proceed
  /\ app' = [app EXCEPT !.effect = 48000]
  /\ UNCHANGED <<reg, broken, cycles>>
StartBlockTimer ==
  /\ At("EnableBlockTimer")
  /\ Proceed
  /\ app' = [app EXCEPT !.timer = TRUE]
  /\ UNCHANGED <<reg, broken, cycles>>

\* The vector table: a slot for each of the 97 interrupts, the ones this device
\* does not have left null, and Default_Handler behind each name not overridden.
OTG_FS_IRQn == 67
Reserved == {61, 62, 79, 80, 82, 83, 85, 86, 88, 89, 90}
Handlers == [irq \in 0..96 |-> CASE irq \in Reserved -> "null"
                                 [] irq = OTG_FS_IRQn -> "OTG_FS_IRQHandler"
                                 [] OTHER -> "Default_Handler"]
\* MUTANT of Vector: the table without its null entries.
VectorWithoutNulls(irq) == Handlers[irq + IF irq > 60 THEN 2 ELSE 0]
Vector(irq) == Handlers[irq]

\* OTG_FS_IRQHandler only queues; the default handler never returns.
Interrupt ==
  /\ app.irq /\ app.queue < MaxEvents /\ cpu.pc # "Default_Handler"
  /\ IF Vector(OTG_FS_IRQn) = "OTG_FS_IRQHandler"
     THEN app' = [app EXCEPT !.queue = @ + 1] /\ UNCHANGED cpu
     ELSE cpu' = [cpu EXCEPT !.pc = "Default_Handler"] /\ UNCHANGED app
  /\ UNCHANGED <<reg, broken, cycles>>

\* A pass of the service loop, as far as the boot goes: tud_task drains the queue.
ServicePass ==
  /\ At("Serve") /\ app.queue > 0
  /\ app' = [app EXCEPT !.queue = 0]
  /\ UNCHANGED <<cpu, reg, broken, cycles>>

PowerCycle ==
  /\ cycles < MaxCycles
  /\ cycles' = cycles + 1
  /\ cpu' = PoweredUp /\ reg' = ResetRegisters /\ app' = Unbuilt
  /\ UNCHANGED broken

BootStep ==
  \/ EnableFpu \/ CopyData \/ ZeroBss \/ Constructors
  \/ InitFaultLed \/ InitSystemClock \/ Poll
  \/ InitOtgFsGpio \/ InitOtgFsClock \/ InitTinyUsbStack \/ PrepareEffect \/ StartBlockTimer
BootNext ==
  \/ BootStep
  \/ HseSettles \/ PllSettles \/ SwitchSettles
  \/ Interrupt \/ ServicePass \/ PowerCycle

BootSpec == BootInit /\ [][BootNext]_bootVars

---------------------------------------------------------------------------
BootTypeOK ==
  /\ IsIn(Program, cpu.pc) \/ cpu.pc \in {"Halted", "HardFault_Handler", "Default_Handler"}
  /\ cpu.polls \in 0..PollLimit /\ cpu.fpu \in BOOLEAN
  /\ cpu.status \in {"none", "kOk"} \cup {ClockInitStatus[p] : p \in DOMAIN ClockInitStatus}
  /\ reg.sws \in {"hsi", "pll"} /\ reg.latency \in {0, 5}
  /\ app.queue \in 0..MaxEvents /\ app.effect \in {0, 48000}
  /\ broken \subseteq Parts /\ cycles \in 0..MaxCycles

\* Whatever works or not on the board, the core never runs on the PLL with too
\* few wait states or a bus past its maximum, never executes into a fault or the
\* default handler, and no constructor sees RAM that is not initialised yet
\* (clock-init.h:135-239, startup.cpp:51-121, vector-table.cpp:1-30).
NeverOutOfSpec ==
  /\ reg.sws = "pll" =>
       /\ reg.latency = 5
       /\ Sysclk(reg) <= 168 * MHz
       /\ Sysclk(reg) \div reg.prescalers[2] <= 42 * MHz
       /\ Sysclk(reg) \div reg.prescalers[3] <= 84 * MHz
  /\ cpu.pc \notin {"HardFault_Handler", "Default_Handler"}
  /\ app.built # "garbage"

\* The service loop is entered with everything it uses in place, and after a
\* clean clock bring-up with the frequencies the firmware assumes: exactly
\* 48 MHz at the USB core and SystemCoreClock at the processor
\* (nucleo-main.cpp:163-324).
ServedIsWhole ==
  cpu.pc = "Serve" =>
    /\ reg.otg /\ reg.pins = "af10" /\ reg.led /\ app.irq
    /\ app.built = "whole" /\ app.effect = 48000 /\ app.timer
    /\ cpu.status = "kOk" => UsbClock(reg) = kUsbClkHz /\ Sysclk(reg) = kSysclkHz

\* The boot stays within the hardware's limits on the way and arrives complete
\* (startup.cpp, clock-init.h, nucleo-main.cpp).
BoardComesUpWhole == NeverOutOfSpec /\ ServedIsWhole

\* No board stays dark: the boot reaches the service loop or the empty loop main
\* stops in, whatever part is broken (clock-init.h:114-129).
BootEnds == <>[](cpu.pc \in {"Serve", "Halted"})

=============================================================================
