----------------------------- MODULE UnixSignals -----------------------------
(***************************************************************************)
(* RealSignals (src/signal/real.rs): the four tokio signal streams condrun *)
(* reads, and what becomes of a signal sent to condrun.  A stream holds at *)
(* most one notification: signals of a kind that arrive before the stream  *)
(* is read are read as one.                                                *)
(***************************************************************************)
EXTENDS Naturals, Sequences

Kinds == {"Interrupt", "Terminate", "Quit", "Hup"}

\* Mutant of HandlerOrder: SIGHUP is left to its default disposition.
HandlerOrder_NoHup == <<"Interrupt", "Terminate", "Quit">>

\* The order in which RealSignals::new installs its handlers.
HandlerOrder == <<"Interrupt", "Terminate", "Quit", "Hup">>

AllHandlers == {HandlerOrder[i] : i \in DOMAIN HandlerOrder}

VARIABLES
  handled,      \* the kinds whose handler is installed
  pending       \* the kinds whose stream has a notification to be read

signalVars == <<handled, pending>>

SignalsInit == handled = {} /\ pending = {}

\* One of the four calls of tokio_signal in RealSignals::new.
InstallHandler ==
  /\ \E i \in DOMAIN HandlerOrder :
       /\ handled = {HandlerOrder[j] : j \in 1..(i - 1)}
       /\ handled' = handled \cup {HandlerOrder[i]}
  /\ UNCHANGED pending

\* The kernel delivers a signal of a kind that has its handler.  (One that has
\* not takes its default disposition: condrun dies of it.)
Notify(kind) ==
  /\ kind \in handled
  /\ pending' = pending \cup {kind}
  /\ UNCHANGED handled

\* Signals::next: an unbiased select over the four streams.
NextSignal(kind) ==
  /\ kind \in pending
  /\ pending' = pending \ {kind}
  /\ UNCHANGED handled

SignalsTypeOK == handled \subseteq Kinds /\ pending \subseteq handled
=============================================================================
