------------------------------- MODULE SpiBus -------------------------------
(***************************************************************************)
(* deca_spi.c: writetospi, readfromspi and writetospiwithcrc, called from  *)
(* the main loop and, by dwt_isr, from the interrupt, which may come       *)
(* between any two steps of a transfer. The three differ in what they copy *)
(* and share all the rest: the length check, the wait for the lock, the    *)
(* buffer idatabuf, chip select and the unlock.                            *)
(*                                                                         *)
(* The interrupt cannot wait for main: if it finds the lock taken it spins *)
(* for ever. Whether it can depends on when the chip raises events: with   *)
(* REACT ticks or more after the command that main's transfer carried, or  *)
(* (async) at any time, as with a receiver that is on all the while.       *)
(***************************************************************************)
EXTENDS IrqPort

CONSTANTS
  REACT,   \* ticks from a command to the first event it leads to
  MaxLag   \* ticks the processor may take for a step of a transfer

ASSUME SpiAssumption ==
  /\ REACT \in Nat /\ MaxLag \in Nat

Context == {"main", "isr"}

VARIABLES
  async,  \* events may come at any time
  lock,   \* pgSpiHandler->lock
  owner,  \* whose request idatabuf holds
  cs,     \* chip select is asserted
  at,     \* at[c]: where c is in a transfer, "out" if in none
  owed,   \* events main's last command still leads to: of a transmission,
          \* of the reception after it
  react,  \* ticks until it can
  lag     \* ticks since the last step of a transfer

busVars == <<irqVars, async, lock, owner, cs, at, owed, react, lag>>
spiVars == <<async, lock, owner, cs, at, owed, react, lag>>

(* Does context c run, and is it at that point?                            *)
Runs(c) == IF c = "main" THEN ctx = "main" /\ enabled ELSE ctx = "isr"

Step(c, from, to) ==
  /\ Runs(c) /\ at[c] = from
  /\ at' = [at EXCEPT ![c] = to]
  /\ lag' = 0
  /\ UNCHANGED irqVars

-----------------------------------------------------------------------------
(* Mutant of Request: main does not wait for the end of what it started.   *)
RequestUnawaited(c) ==
  /\ Step(c, "out", "wait")
  /\ UNCHANGED <<async, lock, owner, cs, owed, react>>

(* A transfer is asked for. One that is too long for the buffers returns   *)
(* NRF_ERROR_NO_MEM at once, before the lock is touched. Main asks for one *)
(* only when the event of its last command was handled.                    *)
Request(c) ==
  /\ c = "main" /\ ~async => owed = 0 /\ ~Line
  /\ Step(c, "out", "wait")
  /\ UNCHANGED <<async, lock, owner, cs, owed, react>>

RequestTooLong(c) == Runs(c) /\ at[c] = "out" /\ UNCHANGED busVars

(* while (lock): the interrupt that finds it taken never gets further.     *)
Spin(c) == Runs(c) /\ at[c] = "wait" /\ lock /\ UNCHANGED busVars

(* The lock is found free ...                                              *)
FindFree(c) ==
  /\ ~lock
  /\ Step(c, "wait", "lock")
  /\ UNCHANGED <<async, lock, owner, cs, owed, react>>

(* Mutant of Lock: the lock is not taken.                                  *)
LockNothing(c) ==
  /\ Step(c, "lock", "fill")
  /\ UNCHANGED <<async, lock, owner, cs, owed, react>>

(* ... and __HAL_LOCK takes it, unless it is taken by now: an interrupt in *)
(* between must have given it back.                                        *)
Lock(c) ==
  /\ Step(c, "lock", IF lock THEN "out" ELSE "fill")
  /\ lock' = TRUE
  /\ UNCHANGED <<async, owner, cs, owed, react>>

(* Header and body are copied to idatabuf.                                 *)
Fill(c) ==
  /\ Step(c, "fill", "select")
  /\ owner' = c
  /\ UNCHANGED <<async, lock, cs, owed, react>>

(* Chip select is toggled, and the bytes go out.                           *)
Select(c) ==
  /\ Step(c, "select", "deselect")
  /\ cs' = ~cs
  /\ UNCHANGED <<async, lock, owner, owed, react>>

(* Chip select is toggled back: the chip acts on a command of main.        *)
Deselect(c) ==
  /\ Step(c, "deselect", "unlock")
  /\ cs' = ~cs
  /\ \/ c = "main" /\ owed' \in 1 .. 2 /\ react' = REACT
     \/ UNCHANGED <<owed, react>>
  /\ UNCHANGED <<async, lock, owner>>

Unlock(c) ==
  /\ Step(c, "unlock", "out")
  /\ lock' = FALSE
  /\ UNCHANGED <<async, owner, cs, owed, react>>

Transfer(c) ==
  Request(c) \/ RequestTooLong(c) \/ Spin(c) \/ FindFree(c) \/ Lock(c) \/ Fill(c)
    \/ Select(c) \/ Deselect(c) \/ Unlock(c)
-----------------------------------------------------------------------------
Install ==
  /\ ~isr /\ ctx = "main"
  /\ InstallIsr
  /\ UNCHANGED spiVars

(* dwt_isr handles an event, or returns, between two transfers.            *)
Isr ==
  /\ \/ TakeIrq \/ TestLine
     \/ at["isr"] = "out" /\ (LeaveIsr \/ \E e \in Event : Handle(e))
  /\ UNCHANGED spiVars

ChipEvent(e) ==
  /\ isr
  /\ async \/ (owed > 0 /\ react = 0)
  /\ e \notin status
  /\ Raise({e})
  /\ owed' = IF owed > 0 THEN owed - 1 ELSE 0
  /\ UNCHANGED <<async, lock, owner, cs, at, react, lag>>

InTransfer == \E c \in Context : at[c] \notin {"out", "wait"}

Tick ==
  /\ ~async /\ react > 0
  /\ InTransfer => lag < MaxLag
  /\ react' = react - 1
  /\ lag' = IF InTransfer THEN lag + 1 ELSE 0
  /\ UNCHANGED <<irqVars, async, lock, owner, cs, at, owed>>

SpiInit ==
  /\ IrqInit({})
  /\ async \in BOOLEAN
  /\ lock = FALSE /\ owner = "main" /\ cs = FALSE
  /\ at = [c \in Context |-> "out"]
  /\ owed = 0 /\ react = 0 /\ lag = 0

SpiNext ==
  \/ Install
  \/ \E c \in Context : Transfer(c)
  \/ Isr
  \/ \E e \in Event : ChipEvent(e)
  \/ Tick

SpiSpec == SpiInit /\ [][SpiNext]_busVars
-----------------------------------------------------------------------------
SpiTypeOK ==
  /\ IrqTypeOK
  /\ async \in BOOLEAN /\ lock \in BOOLEAN /\ cs \in BOOLEAN /\ owed \in 0 .. 2
  /\ owner \in Context
  /\ at \in [Context -> {"out", "wait", "lock", "fill", "select", "deselect", "unlock"}]
  /\ react \in 0 .. REACT /\ lag \in 0 .. MaxLag

Inside(c) == at[c] \in {"fill", "select", "deselect", "unlock"}

(* One transfer at a time, and the bytes that go out are those of its      *)
(* request: an interrupt never fills idatabuf nor toggles chip select in   *)
(* the middle of a transfer of main, although the lock is tested and taken *)
(* in two steps and neither is atomic.                                     *)
TransfersWhole ==
  /\ ~(Inside("main") /\ Inside("isr"))
  /\ \A c \in Context : at[c] = "deselect" => cs /\ owner = c

(* The interrupt never meets a taken lock, at which it would spin for      *)
(* ever: what main's command leads to takes longer than main needs to give *)
(* the lock back, and main leaves the bus alone until that is handled.     *)
NeverMeetsLock == ~async /\ at["isr"] = "wait" => ~lock
=============================================================================
