-------------------------- MODULE MacOsNetworkState --------------------------
(***************************************************************************)
(* MacOsNetworkState (src/state/macos.rs): the thread that constructs and  *)
(* later drops it, the update handler that Network.framework runs on a     *)
(* serial dispatch queue, the mutex and condition variable between the     *)
(* two, and the reference counts that decide how long what they share      *)
(* lives.                                                                  *)
(*                                                                         *)
(* A section under the mutex never blocks but in the wait of the condition *)
(* variable, so each is one step.  The mutex is never poisoned: nothing    *)
(* that runs under it panics.                                              *)
(*                                                                         *)
(* pc is where the thread is in new and Drop: "queue", "monitor", "start"  *)
(* (what is created next), "check" (the condition of the first-update      *)
(* barrier is next), "asleep" (in the condition variable), "ready" (new    *)
(* has returned), "drop", then "dropped"; "failed" if new has failed.      *)
(***************************************************************************)
EXTENDS Integers, Sequences

CONSTANT MaxQueued    \* bound: callbacks on the dispatch queue

ASSUME QueueAssumption == MaxQueued \in Nat \ {0}

Flags == {"expensive", "low_data"}
Paths == [Flags -> BOOLEAN]
Default == [f \in Flags |-> FALSE]
NoPath == [f \in {} |-> FALSE]    \* a null nw_path_t

Objects == {"queue", "monitor", "block", "shared"}

VARIABLES
  pc,
  snapshot, ready,  \* SharedState
  expired,          \* whether FIRST_UPDATE_TIMEOUT is over
  refs,             \* the reference counts of Objects
  dropped,          \* how many steps of DropOrder have been made
  path,             \* the system's path
  monitoring,       \* whether the monitor schedules callbacks
  owed,             \* whether it has yet to schedule one for path
  callbacks,        \* the callbacks on the queue, each with its path
  running           \* the callback that has read the flags of its path and
                    \* has not stored them, as a sequence of at most one

threadVars == <<pc, expired, dropped>>
sharedVars == <<snapshot, ready>>
frameworkVars == <<path, monitoring, owed, callbacks, running>>
vars == <<threadVars, sharedVars, refs, frameworkVars>>

Init ==
  /\ pc = "queue"
  /\ snapshot = Default
  /\ ready = FALSE
  /\ expired = FALSE
  /\ refs = [o \in Objects |-> IF o = "shared" THEN 1 ELSE 0]
  /\ dropped = 0
  /\ path \in Paths
  /\ monitoring = FALSE
  /\ owed = FALSE
  /\ callbacks = <<>>
  /\ running = <<>>

-----------------------------------------------------------------------------
(* Reference counts.  The monitor has a reference to its handler and its   *)
(* queue, the handler's block to the shared state it captures.             *)

Retain(r, objects) == [o \in Objects |-> IF o \in objects THEN r[o] + 1 ELSE r[o]]

Drop1(r, o) == [r EXCEPT ![o] = @ - 1]

ReleaseBlock(r) ==
  LET s == Drop1(r, "block") IN IF s["block"] = 0 THEN Drop1(s, "shared") ELSE s

ReleaseMonitor(r) ==
  LET s == Drop1(r, "monitor")
  IN  IF s["monitor"] = 0 THEN ReleaseBlock(Drop1(s, "queue")) ELSE s

-----------------------------------------------------------------------------
(* MacOsNetworkState::new                                                  *)

\* An early return of new drops the Arc it has made.
Fail(r) == pc' = "failed" /\ refs' = Drop1(r, "shared")

CreateQueue ==
  /\ pc = "queue"
  /\ \/ pc' = "monitor" /\ refs' = Retain(refs, {"queue"})
     \/ Fail(refs)
  /\ UNCHANGED <<expired, dropped, sharedVars, frameworkVars>>

\* Mutant of RollBack: the queue is not released.
RollBack_Leak == refs

RollBack == Drop1(refs, "queue")

CreateMonitor ==
  /\ pc = "monitor"
  /\ \/ pc' = "start" /\ refs' = Retain(refs, {"monitor"})
     \/ Fail(RollBack)
  /\ UNCHANGED <<expired, dropped, sharedVars, frameworkVars>>

\* Mutant of BuildHandler: the handler borrows the shared state.
BuildHandler_Borrow == Retain(refs, {"block"})

\* The block, with its clone of the Arc.
BuildHandler == Retain(refs, {"block", "shared"})

\* set_update_handler copies the block, set_queue retains the queue, and
\* from start on callbacks may come.
StartMonitor ==
  /\ pc = "start"
  /\ refs' = Retain(BuildHandler, {"block", "queue"})
  /\ monitoring' = TRUE
  /\ owed' = TRUE
  /\ pc' = "check"
  /\ UNCHANGED <<expired, dropped, sharedVars, path, callbacks, running>>

\* Mutant of CheckReady: a wait without a timeout.
CheckReady_NoTimeout ==
  /\ pc = "check"
  /\ pc' = IF ready THEN "ready" ELSE "asleep"
  /\ UNCHANGED <<expired, dropped, sharedVars, refs, frameworkVars>>

\* One turn of wait_timeout_while: the condition first, then the time left.
CheckReady ==
  /\ pc = "check"
  /\ pc' = IF ready \/ expired THEN "ready" ELSE "asleep"
  /\ UNCHANGED <<expired, dropped, sharedVars, refs, frameworkVars>>

Woken == IF pc = "asleep" THEN "check" ELSE pc

TimeoutExpires ==
  /\ pc \in {"check", "asleep"}
  /\ expired' = TRUE
  /\ pc' = Woken
  /\ UNCHANGED <<dropped, sharedVars, refs, frameworkVars>>

SpuriousWakeup ==
  /\ pc = "asleep"
  /\ pc' = Woken
  /\ UNCHANGED <<expired, dropped, sharedVars, refs, frameworkVars>>

-----------------------------------------------------------------------------
(* The update handler on its queue.                                        *)

\* Mutant of BeginCallback: the newest callback runs first.
BeginCallback_Newest ==
  /\ running = <<>>
  /\ callbacks # <<>>
  /\ running' = <<callbacks[Len(callbacks)]>>
  /\ callbacks' = SubSeq(callbacks, 1, Len(callbacks) - 1)
  /\ UNCHANGED <<threadVars, sharedVars, refs, path, monitoring, owed>>

\* The callback at the head of the queue runs: it reads the flags of its path.
BeginCallback ==
  /\ running = <<>>
  /\ callbacks # <<>>
  /\ running' = <<Head(callbacks)>>
  /\ callbacks' = Tail(callbacks)
  /\ UNCHANGED <<threadVars, sharedVars, refs, path, monitoring, owed>>

\* Mutants of StoreUpdate: nobody is notified, and one flag alone is stored.
StoreUpdate_Silent ==
  /\ snapshot' = running[1]
  /\ ready' = TRUE
  /\ UNCHANGED pc

StoreUpdate_Torn ==
  /\ snapshot' = [snapshot EXCEPT !["expensive"] = running[1]["expensive"]]
  /\ ready' = TRUE
  /\ pc' = Woken

\* The section under the mutex, and notify_all.
StoreUpdate ==
  /\ snapshot' = running[1]
  /\ ready' = TRUE
  /\ pc' = Woken

\* Mutant of EndCallback: the flags of a null path are stored, too.
EndCallback_NullPath ==
  /\ running # <<>>
  /\ StoreUpdate
  /\ running' = <<>>
  /\ refs' = ReleaseBlock(Drop1(refs, "queue"))
  /\ UNCHANGED <<expired, dropped, path, monitoring, owed, callbacks>>

\* The handler takes no notice of a null path.  The queue releases a callback
\* that has run.
EndCallback ==
  /\ running # <<>>
  /\ IF running[1] = NoPath THEN UNCHANGED <<sharedVars, pc>> ELSE StoreUpdate
  /\ running' = <<>>
  /\ refs' = ReleaseBlock(Drop1(refs, "queue"))
  /\ UNCHANGED <<expired, dropped, path, monitoring, owed, callbacks>>

-----------------------------------------------------------------------------
(* Drop                                                                    *)

BeginDrop ==
  /\ pc = "ready"
  /\ pc' = "drop"
  /\ UNCHANGED <<expired, dropped, sharedVars, refs, frameworkVars>>

\* The calls of drop, then the fields in the order of their declaration.
DropOrder == <<"nw_path_monitor_cancel", "nw_release", "dispatch_release", "shared", "_handler">>

\* A cancelled monitor schedules no callback; those on the queue stay there.
DropStep ==
  LET call == DropOrder[dropped + 1] IN
  /\ pc = "drop"
  /\ dropped' = dropped + 1
  /\ pc' = IF dropped' = Len(DropOrder) THEN "dropped" ELSE "drop"
  /\ \/ call = "nw_path_monitor_cancel" /\ monitoring' = FALSE /\ owed' = FALSE /\ UNCHANGED refs
     \/ /\ \/ call = "nw_release" /\ refs' = ReleaseMonitor(refs)
           \/ call = "dispatch_release" /\ refs' = Drop1(refs, "queue")
           \/ call = "shared" /\ refs' = Drop1(refs, "shared")
           \/ call = "_handler" /\ refs' = ReleaseBlock(refs)
        /\ UNCHANGED <<monitoring, owed>>
  /\ UNCHANGED <<expired, sharedVars, path, callbacks, running>>

-----------------------------------------------------------------------------
(* Network.framework and the system.                                       *)

NetworkChanges ==
  /\ path' \in Paths \ {path}
  /\ owed' = monitoring
  /\ UNCHANGED <<threadVars, sharedVars, refs, monitoring, callbacks, running>>

\* The monitor puts a callback on the queue, which retains its block and the
\* queue: for the path there is, or a stray one without a path.
Deliver ==
  /\ monitoring
  /\ Len(callbacks) < MaxQueued
  /\ \/ owed /\ callbacks' = Append(callbacks, path) /\ owed' = FALSE
     \/ callbacks' = Append(callbacks, NoPath) /\ UNCHANGED owed
  /\ refs' = Retain(refs, {"block", "queue"})
  /\ UNCHANGED <<threadVars, sharedVars, path, monitoring, running>>

ThreadStep ==
  \/ CreateQueue \/ CreateMonitor \/ StartMonitor \/ CheckReady
  \/ DropStep

Next ==
  \/ ThreadStep \/ BeginDrop
  \/ TimeoutExpires \/ SpuriousWakeup
  \/ BeginCallback \/ EndCallback
  \/ NetworkChanges \/ Deliver

Spec == Init /\ [][Next]_vars

\* The thread that is in new or in Drop runs, time passes, and a callback that is on the queue is run.
\* The framework owes nothing: it may never deliver an update.
Fairness ==
  /\ WF_vars(ThreadStep)
  /\ WF_vars(TimeoutExpires)
  /\ WF_vars(BeginCallback \/ EndCallback)

FairSpec == Spec /\ Fairness

-----------------------------------------------------------------------------
\* Types.
TypeOK ==
  /\ pc \in {"queue", "monitor", "start", "check", "asleep", "ready", "drop", "dropped", "failed"}
  /\ snapshot \in Paths /\ ready \in BOOLEAN
  /\ expired \in BOOLEAN
  /\ refs \in [Objects -> Nat]
  /\ dropped \in 0..Len(DropOrder)
  /\ path \in Paths /\ monitoring \in BOOLEAN /\ owed \in BOOLEAN
  /\ callbacks \in Seq(Paths \cup {NoPath}) /\ Len(callbacks) <= MaxQueued
  /\ running \in Seq(Paths \cup {NoPath}) /\ Len(running) <= 1

\* What the readers return is the path of the system as soon as the monitor
\* has delivered it and its handler has run, whatever callbacks came before
\* (the serial queue, and one section for both flags).
SnapshotCurrent ==
  (monitoring /\ ~owed /\ callbacks = <<>> /\ running = <<>>) => snapshot = path

\* An update that is stored while new waits for it wakes new: it does not
\* sleep on until the timeout (the pairing of wait_timeout_while with
\* notify_all under the same mutex).
NoLostWakeup == pc = "asleep" => ~ready

\* The barrier opens, also when the framework is wedged.
BarrierOpens == pc \in {"check", "asleep"} ~> pc = "ready"

\* Nothing is used after it was freed: a callback that runs while or after the
\* struct is dropped has its block, its queue and the shared state, and the
\* monitor that Drop cancels still exists (the "Drop / cancel race" of the
\* module's documentation).
NoUseAfterFree ==
  /\ running # <<>> \/ callbacks # <<>> => \A o \in {"block", "queue", "shared"} : refs[o] > 0
  /\ (pc = "drop" /\ DropOrder[dropped + 1] = "nw_path_monitor_cancel") => refs["monitor"] > 0

\* When the struct is gone, or new has failed at any point, what was created
\* is freed in the end.
AllReleased == pc \in {"dropped", "failed"} ~> (\A o \in Objects : refs[o] = 0)

-----------------------------------------------------------------------------
(* The promise to the readers this keeps.                                  *)

Promise == INSTANCE NetworkReports
             WITH MaxReports <- MaxQueued + 1, open <- monitoring, reports <- running \o callbacks

\* For its readers MacOsNetworkState is NetworkReports: whatever the thread in
\* new or Drop, the handler and the framework do in between, reports are stored
\* in the order of the changes, each whole, and one change is never skipped for
\* an older one.
ImplementsReports == Promise!Spec
=============================================================================
