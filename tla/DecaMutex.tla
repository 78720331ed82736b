----------------------------- MODULE DecaMutex -----------------------------
(***************************************************************************)
(* deca_mutex.c: the critical sections of the driver (a binary library,    *)
(* external) that keep its interrupt handler out. An application has       *)
(* installed the handler; the driver enters and leaves sections in the     *)
(* main loop while the chip raises events at any time.                     *)
(***************************************************************************)
EXTENDS IrqPort

VARIABLES
  pc,  \* "clear", "install", "run", or "section"
  s    \* what decamutexon returned

vars == <<irqVars, pc, s>>

Step(from, to) == pc = from /\ ctx = "main" /\ pc' = to

Clear   == Step("clear", "install") /\ ClearEvents(Event) /\ UNCHANGED s
Install == Step("install", "run") /\ InstallIsr /\ UNCHANGED s

(* decamutexon: "s" is the level of the pin, and only a high pin has its   *)
(* interrupt disabled.                                                     *)
MutexOn ==
  /\ Step("run", "section")
  /\ s' = Line
  /\ IF Line THEN DisableIrq ELSE UNCHANGED <<sensing, enabled, latched>>
  /\ UNCHANGED <<status, isr, ctx, found>>

(* decamutexoff(s).                                                        *)
MutexOff ==
  /\ Step("section", "run")
  /\ IF s THEN EnableIrq ELSE UNCHANGED <<sensing, enabled, latched>>
  /\ UNCHANGED <<status, isr, ctx, found, s>>

Isr ==
  /\ TakeIrq \/ TestLine \/ LeaveIsr \/ \E e \in Event : Handle(e)
  /\ UNCHANGED <<pc, s>>

ChipEvent(e) ==
  /\ pc \in {"run", "section"} /\ e \notin status
  /\ Raise({e})
  /\ UNCHANGED <<pc, s>>

Init == IrqInit(Event) /\ pc = "clear" /\ s = FALSE

Next == Clear \/ Install \/ MutexOn \/ MutexOff \/ Isr \/ \E e \in Event : ChipEvent(e)

Spec == Init /\ [][Next]_vars
-----------------------------------------------------------------------------
(* What decamutexon is for: "This function should disable interrupts. This *)
(* is called at the start of a critical section" (deca_mutex.c).           *)
SectionExcludesIsr == pc = "section" => ctx = "main"
=============================================================================
