------------------------------ MODULE IrqPort ------------------------------
(***************************************************************************)
(* How an event of the DW3000 reaches the driver's interrupt handler: the  *)
(* IRQ section of port.c on top of the GPIOTE peripheral (external, SDK).  *)
(*                                                                         *)
(* The IRQ line of the chip is high while an event of its interrupt mask   *)
(* is up in SYS_STATUS. GPIOTE latches a rising edge, not the level; the   *)
(* handler therefore repeats dwt_isr until the line is low. The driver's   *)
(* dwt_isr (external) reads SYS_STATUS once and handles what it found:     *)
(* it clears each event and calls the application's call-back for it.      *)
(*                                                                         *)
(* A module of an application EXTENDS this one, adds its call-backs to     *)
(* Handle and lets its main loop step only when ctx = "main". The time     *)
(* the processor takes to enter the handler is not zero: the main loop may *)
(* take a step after the edge.                                             *)
(***************************************************************************)
EXTENDS Naturals, FiniteSets

CONSTANT Event    \* the events in the chip's interrupt mask

VARIABLES
  status,   \* the events that are up in SYS_STATUS
  sensing,  \* GPIOTE watches the pin
  enabled,  \* and interrupts the processor
  latched,  \* a rising edge that waits to be served
  isr,      \* port_dwic_isr is installed
  ctx,      \* what the processor runs: "main", the test of process_deca_irq
            \* ("loop"), or dwt_isr ("isr")
  found     \* what dwt_isr read and has not handled yet

irqVars == <<status, sensing, enabled, latched, isr, ctx, found>>

Line == status # {}                                  \* port_CheckEXT_IRQ
-----------------------------------------------------------------------------
(* The chip raises events; every other variable of irqVars is as before.   *)
Raise(S) ==
  /\ status'  = status \cup S
  /\ latched' = (latched \/ (sensing /\ ~Line /\ S # {}))
  /\ UNCHANGED <<sensing, enabled, isr, ctx, found>>

(* dwt_writesysstatuslo by the main loop.                                  *)
ClearEvents(S) ==
  /\ status' = status \ S
  /\ UNCHANGED <<sensing, enabled, latched, isr, ctx, found>>

(* The processor enters GPIOTE_IRQHandler and deca_irq_handler.            *)
TakeIrq ==
  /\ ctx = "main" /\ enabled /\ latched
  /\ latched' = FALSE
  /\ ctx' = "loop"
  /\ UNCHANGED <<status, sensing, enabled, isr, found>>

(* The test of the while loop of process_deca_irq. The interrupt is only   *)
(* enabled after a handler is installed, so the handler is there.          *)
TestLine ==
  /\ ctx = "loop"
  /\ Line => isr
  /\ IF Line
     THEN ctx' = "isr" /\ found' = status
     ELSE ctx' = "main" /\ UNCHANGED found
  /\ UNCHANGED <<status, sensing, enabled, latched, isr>>

(* dwt_isr handles one of the events it found.                             *)
Handle(e) ==
  /\ ctx = "isr" /\ e \in found
  /\ status' = status \ {e}
  /\ found'  = found \ {e}
  /\ UNCHANGED <<sensing, enabled, latched, isr, ctx>>

(* Mutant of LeaveIsr: process_deca_irq has no loop.                       *)
LeaveIsrForGood ==
  /\ ctx = "isr" /\ found = {}
  /\ ctx' = "main"
  /\ UNCHANGED <<status, sensing, enabled, latched, isr, found>>

(* dwt_isr returns to the loop.                                            *)
LeaveIsr ==
  /\ ctx = "isr" /\ found = {}
  /\ ctx' = "loop"
  /\ UNCHANGED <<status, sensing, enabled, latched, isr, found>>
-----------------------------------------------------------------------------
(* nrf_drv_gpiote_in_event_enable(pin, true) forgets an edge it finds.     *)
EnableIrq ==
  /\ sensing' = TRUE
  /\ enabled' = TRUE
  /\ latched' = FALSE

DisableIrq ==
  /\ sensing' = FALSE
  /\ enabled' = FALSE
  /\ UNCHANGED latched

(* port_set_dwic_isr. What it takes for the activation status is the level *)
(* of the pin: with the line high the interrupt stays deactivated.         *)
InstallIsr ==
  /\ isr' = TRUE
  /\ IF Line THEN DisableIrq ELSE EnableIrq
  /\ UNCHANGED <<status, ctx, found>>

(* dw_irq_init: the edge is watched and does not interrupt yet. The chip   *)
(* may have raised some of the events in "up" before the application runs. *)
IrqInit(up) ==
  /\ status \in SUBSET up
  /\ sensing = TRUE
  /\ enabled = FALSE
  /\ latched \in BOOLEAN
  /\ isr = FALSE
  /\ ctx = "main"
  /\ found = {}

IrqTypeOK ==
  /\ status \subseteq Event
  /\ sensing \in BOOLEAN /\ enabled \in BOOLEAN /\ latched \in BOOLEAN
  /\ isr \in BOOLEAN
  /\ ctx \in {"main", "loop", "isr"}
  /\ found \subseteq Event

(* With the line high and the interrupt on, the handler runs or is about   *)
(* to: the edge that raised the line was not consumed without the level    *)
(* being looked at afterwards.                                             *)
Served == Line => enabled /\ (latched \/ ctx # "main")
=============================================================================
