---------------------------- MODULE FakeSignals ----------------------------
(***************************************************************************)
(* FakeSignals (src/signal/fake.rs): a queue under a mutex and a Notify,   *)
(* shared by a test that injects and a client that calls next and may drop *)
(* the call.  Unlike the streams of UnixSignals the queue keeps every      *)
(* signal and their order.                                                 *)
(*                                                                         *)
(* tokio's Notify holds one permit.  notify_one wakes the waiter there is, *)
(* or leaves the permit; the first poll of a Notified takes the permit or  *)
(* registers as the waiter, in one step; a Notified that is dropped after  *)
(* it was woken gives the permit back.                                     *)
(***************************************************************************)
EXTENDS Integers, Sequences

CONSTANTS
  Injectable,       \* the kinds of signal a test injects
  MaxInjected       \* bound: the signals on the queue

ASSUME InjectAssumption == MaxInjected \in Nat

VARIABLES
  queue,
  permit,       \* of the Notify
  owed,         \* the calls of inject that have pushed and not yet notified
  at,           \* where next is: "idle", "check" (the queue is next), "await"
                \* (the poll of notified is next) or "asleep"
  woken         \* whether the waiter has been notified

signalVars == <<queue, permit, owed, at, woken>>

SignalsInit == queue = <<>> /\ permit = FALSE /\ owed = 0 /\ at = "idle" /\ woken = FALSE

InjectPush(kind) ==
  /\ Len(queue) < MaxInjected
  /\ owed < MaxInjected
  /\ queue' = Append(queue, kind)
  /\ owed' = owed + 1
  /\ UNCHANGED <<permit, at, woken>>

NotifyOne ==
  IF at = "asleep" /\ ~woken
    THEN woken' = TRUE /\ UNCHANGED permit
    ELSE permit' = TRUE /\ UNCHANGED woken

InjectNotify ==
  /\ owed > 0
  /\ owed' = owed - 1
  /\ NotifyOne
  /\ UNCHANGED <<queue, at>>

\* Mutant of CallNext: it awaits the notification before it looks at the queue.
CallNext_AwaitFirst ==
  /\ at = "idle"
  /\ at' = "await"
  /\ UNCHANGED <<queue, permit, owed, woken>>

CallNext ==
  /\ at = "idle"
  /\ at' = "check"
  /\ UNCHANGED <<queue, permit, owed, woken>>

CheckQueue ==
  /\ at = "check"
  /\ IF queue = <<>>
       THEN at' = "await" /\ UNCHANGED queue
       ELSE at' = "idle" /\ queue' = Tail(queue)
  /\ UNCHANGED <<permit, owed, woken>>

AwaitNotified ==
  /\ at = "await"
  /\ permit' = FALSE
  /\ at' = IF permit THEN "check" ELSE "asleep"
  /\ UNCHANGED <<queue, owed, woken>>

Wake ==
  /\ at = "asleep"
  /\ woken
  /\ woken' = FALSE
  /\ at' = "check"
  /\ UNCHANGED <<queue, permit, owed>>

\* The future can be dropped only when a poll has left it pending.
DropNext ==
  /\ at = "asleep"
  /\ at' = "idle"
  /\ permit' = (permit \/ woken)
  /\ woken' = FALSE
  /\ UNCHANGED <<queue, owed>>

SignalsNext ==
  \/ \E kind \in Injectable : InjectPush(kind)
  \/ InjectNotify
  \/ CallNext \/ CheckQueue \/ AwaitNotified \/ Wake \/ DropNext

-----------------------------------------------------------------------------
\* next does not sleep on a signal that was injected, however the injection
\* falls between its look at the queue and its sleep, and whatever calls of
\* next were dropped before.
NoSleepOnSignal == (at = "asleep" /\ ~woken /\ queue # <<>>) => owed > 0
=============================================================================
