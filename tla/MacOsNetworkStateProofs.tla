----------------------- MODULE MacOsNetworkStateProofs -----------------------
(***************************************************************************)
(* Proofs about MacOsNetworkState, for every bound on its queue.           *)
(***************************************************************************)
EXTENDS MacOsNetworkState, SequenceTheorems, TLAPS

-----------------------------------------------------------------------------
(* The invariant.                                                          *)

\* What is on its way to the snapshot, from the newest report to the oldest,
\* begins with the path of the system, null reports aside.
PathInv ==
  (monitoring /\ ~owed) =>
    \/ \E i \in 1..Len(callbacks) :
         /\ callbacks[i] = path
         /\ \A j \in 1..Len(callbacks) : j > i => callbacks[j] = NoPath
    \/ /\ \A j \in 1..Len(callbacks) : callbacks[j] = NoPath
       /\ \/ running # <<>> /\ running[1] = path
          \/ (running # <<>> => running[1] = NoPath) /\ snapshot = path

Count(b) == IF b THEN 1 ELSE 0

Queued == Len(callbacks) + Len(running)

\* Until when the struct, or new before it, holds its references.
New == {"queue", "monitor", "start", "check", "asleep", "ready"}
HoldsMonitor == pc \in {"start", "check", "asleep", "ready"} \/ (pc = "drop" /\ dropped <= 1)
HoldsQueue == pc \in New \ {"queue"} \/ (pc = "drop" /\ dropped <= 2)
HoldsShared == pc \in New \/ (pc = "drop" /\ dropped <= 3)
HoldsBlock == pc \in {"check", "asleep", "ready", "drop"}
Attached == HoldsMonitor /\ pc # "start"

\* Who holds what.
RefInv ==
  /\ refs["monitor"] = Count(HoldsMonitor)
  /\ refs["queue"] = Count(HoldsQueue) + Count(Attached) + Queued
  /\ refs["block"] = Count(HoldsBlock) + Count(Attached) + Queued
  /\ refs["shared"] = Count(HoldsShared) + Count(refs["block"] > 0)

PhaseInv ==
  /\ pc \in {"queue", "monitor", "start", "failed"} => callbacks = <<>> /\ running = <<>>
  /\ monitoring => Attached /\ (pc = "drop" => dropped = 0)
  /\ pc = "drop" => dropped < 5
  /\ pc \in New => dropped = 0

IInv == TypeOK /\ PathInv /\ RefInv /\ PhaseInv /\ NoLostWakeup

-----------------------------------------------------------------------------
(* It is inductive.                                                        *)

\* Reports are functions on the flags, and no path is the null one.
LEMMA PathFacts ==
  /\ Default \in Paths
  /\ NoPath \notin Paths
<1>1. Default \in Paths
  BY DEF Default, Paths
<1>2. ASSUME NoPath \in Paths PROVE FALSE
  <2>1. DOMAIN NoPath = Flags
    BY <1>2 DEF Paths
  <2>2. DOMAIN NoPath = {}
    BY DEF NoPath
  <2> QED BY <2>1, <2>2 DEF Flags
<1> QED BY <1>1, <1>2

\* The invariant holds at first.
LEMMA InitInv == Init => IInv
<1> SUFFICES ASSUME Init PROVE IInv
  OBVIOUS
<1>1. TypeOK
  <2>1. refs \in [Objects -> Nat]
    BY DEF Init
  <2>2. <<>> \in Seq(Paths \cup {NoPath}) /\ Len(<<>>) = 0 /\ Len(DropOrder) = 5
    BY DEF DropOrder
  <2>3. dropped \in 0..Len(DropOrder)
    BY <2>2 DEF Init
  <2>4. Len(callbacks) <= MaxQueued /\ Len(running) <= 1
    BY <2>2, QueueAssumption DEF Init
  <2> QED
    BY <2>1, <2>2, <2>3, <2>4, PathFacts DEF Init, TypeOK
<1>2. RefInv
  BY DEF Init, RefInv, Objects, Count, HoldsMonitor, HoldsQueue, HoldsShared, HoldsBlock, Attached, New, Queued
<1>3. PathInv /\ PhaseInv /\ NoLostWakeup
  BY DEF Init, PathInv, PhaseInv, NoLostWakeup, New
<1> QED BY <1>1, <1>2, <1>3 DEF IInv

\* The types but for the counts.
Types ==
  /\ pc \in {"queue", "monitor", "start", "check", "asleep", "ready", "drop", "dropped", "failed"}
  /\ snapshot \in Paths /\ ready \in BOOLEAN
  /\ expired \in BOOLEAN
  /\ dropped \in 0..Len(DropOrder)
  /\ path \in Paths /\ monitoring \in BOOLEAN /\ owed \in BOOLEAN
  /\ callbacks \in Seq(Paths \cup {NoPath}) /\ Len(callbacks) <= MaxQueued
  /\ running \in Seq(Paths \cup {NoPath}) /\ Len(running) <= 1

\* Every step keeps the types.
LEMMA TypesStep == IInv /\ [Next]_vars => Types'
<1> SUFFICES ASSUME IInv, [Next]_vars PROVE Types'
  OBVIOUS
<1> USE QueueAssumption DEF IInv, TypeOK, Types, PhaseInv
<1>0. Len(DropOrder) = 5
  BY DEF DropOrder
<1>1. CASE CreateQueue \/ CreateMonitor \/ StartMonitor \/ CheckReady
  BY <1>1 DEF CreateQueue, CreateMonitor, StartMonitor, CheckReady, Fail, sharedVars, frameworkVars
<1>2. CASE BeginDrop
  BY <1>2 DEF BeginDrop, sharedVars, frameworkVars
<1>3. CASE DropStep
  <2>1. dropped' \in 0..Len(DropOrder)
    BY <1>3, <1>0 DEF DropStep
  <2>2. pc' = "drop" \/ pc' = "dropped"
    BY <1>3 DEF DropStep
  <2>3. monitoring' \in BOOLEAN /\ owed' \in BOOLEAN
    BY <1>3 DEF DropStep
  <2>4. UNCHANGED <<expired, sharedVars, path, callbacks, running>>
    BY <1>3 DEF DropStep
  <2> QED BY <2>1, <2>2, <2>3, <2>4 DEF sharedVars
<1>4. CASE TimeoutExpires \/ SpuriousWakeup
  BY <1>4 DEF TimeoutExpires, SpuriousWakeup, Woken, sharedVars, frameworkVars
<1>5. CASE BeginCallback
  <2> DEFINE Reports == Paths \cup {NoPath}
  <2>1. callbacks \in Seq(Reports) /\ callbacks # <<>>
    BY <1>5 DEF BeginCallback
  <2>2. Head(callbacks) \in Reports /\ Tail(callbacks) \in Seq(Reports) /\ Len(Tail(callbacks)) = Len(callbacks) - 1
    BY <2>1
  <2>3. <<Head(callbacks)>> \in Seq(Reports) /\ Len(<<Head(callbacks)>>) = 1
    BY <2>2
  <2> QED
    BY <1>5, <2>2, <2>3 DEF BeginCallback, threadVars, sharedVars
<1>6. CASE EndCallback
  <2>1. running[1] \in Paths \cup {NoPath}
    BY <1>6 DEF EndCallback
  <2>2. running' \in Seq(Paths \cup {NoPath}) /\ Len(running') <= 1
    BY <1>6 DEF EndCallback
  <2>3. snapshot' \in Paths /\ ready' \in BOOLEAN
    BY <1>6, <2>1 DEF EndCallback, StoreUpdate, sharedVars
  <2>4. pc' = pc \/ pc' = "check"
    BY <1>6 DEF EndCallback, StoreUpdate, Woken
  <2>5. UNCHANGED <<expired, dropped, path, monitoring, owed, callbacks>>
    BY <1>6 DEF EndCallback
  <2> QED
    BY <2>2, <2>3, <2>4, <2>5
<1>7. CASE NetworkChanges
  BY <1>7 DEF NetworkChanges, threadVars, sharedVars
<1>8. CASE Deliver
  <2>1. callbacks' \in Seq(Paths \cup {NoPath}) /\ Len(callbacks') <= MaxQueued
    <3>1. PICK e \in Paths \cup {NoPath} : callbacks' = Append(callbacks, e)
      BY <1>8 DEF Deliver
    <3>2. Len(callbacks) \in Nat /\ Len(callbacks) < MaxQueued
      BY <1>8 DEF Deliver
    <3>3. Append(callbacks, e) \in Seq(Paths \cup {NoPath}) /\ Len(Append(callbacks, e)) = Len(callbacks) + 1
      OBVIOUS
    <3> QED BY <3>1, <3>2, <3>3
  <2> QED
    BY <1>8, <2>1 DEF Deliver, threadVars, sharedVars
<1>9. CASE UNCHANGED vars
  BY <1>9 DEF vars, threadVars, sharedVars, frameworkVars
<1> QED
  BY <1>1, <1>2, <1>3, <1>4, <1>5, <1>6, <1>7, <1>8, <1>9 DEF Next, ThreadStep

\* Every step keeps what is so at each point of new and Drop.  (The thread goes
\* to sleep on a condition it has checked under the mutex, and every update
\* wakes it.)
LEMMA PhaseStep == IInv /\ [Next]_vars => PhaseInv' /\ NoLostWakeup'
<1> SUFFICES ASSUME IInv, [Next]_vars PROVE PhaseInv' /\ NoLostWakeup'
  OBVIOUS
<1> USE DEF IInv, TypeOK, PhaseInv, NoLostWakeup, New, Attached, HoldsMonitor
<1>0. Len(DropOrder) = 5 /\ DropOrder[1] = "nw_path_monitor_cancel"
  BY DEF DropOrder
<1>1. CASE CreateQueue \/ CreateMonitor \/ StartMonitor \/ CheckReady
  BY <1>1 DEF CreateQueue, CreateMonitor, StartMonitor, CheckReady, Fail, sharedVars, frameworkVars
<1>2. CASE DropStep
  <2>1. dropped' \in 1..5 /\ pc' = IF dropped' = 5 THEN "dropped" ELSE "drop"
    BY <1>2, <1>0 DEF DropStep
  <2>2. ~monitoring'
    BY <1>2, <1>0 DEF DropStep
  <2> QED BY <2>1, <2>2
<1>3. CASE BeginDrop
  BY <1>3 DEF BeginDrop, sharedVars, frameworkVars
<1>4. CASE TimeoutExpires \/ SpuriousWakeup
  BY <1>4 DEF TimeoutExpires, SpuriousWakeup, Woken, sharedVars, frameworkVars
<1>5. CASE BeginCallback
  BY <1>5 DEF BeginCallback, threadVars, sharedVars
<1>6. CASE EndCallback
  BY <1>6 DEF EndCallback, StoreUpdate, Woken, sharedVars
<1>7. CASE NetworkChanges
  BY <1>7 DEF NetworkChanges, threadVars, sharedVars
<1>8. CASE Deliver
  BY <1>8 DEF Deliver, threadVars, sharedVars
<1>9. CASE UNCHANGED vars
  BY <1>9 DEF vars, threadVars, sharedVars, frameworkVars
<1> QED
  BY <1>1, <1>2, <1>3, <1>4, <1>5, <1>6, <1>7, <1>8, <1>9 DEF Next, ThreadStep

\* Every step keeps the report of the path on its way.
LEMMA PathStep == IInv /\ [Next]_vars => PathInv'
<1> SUFFICES ASSUME IInv, [Next]_vars PROVE PathInv'
  OBVIOUS
<1> USE DEF IInv, TypeOK, PathInv, PhaseInv
<1>1. CASE CreateQueue \/ CreateMonitor \/ CheckReady \/ BeginDrop \/ TimeoutExpires \/ SpuriousWakeup \/ UNCHANGED vars
  <2>1. UNCHANGED <<snapshot, frameworkVars>>
    BY <1>1 DEF CreateQueue, CreateMonitor, CheckReady, BeginDrop, TimeoutExpires, SpuriousWakeup, vars, sharedVars
  <2> QED BY <2>1 DEF frameworkVars
<1>2. CASE StartMonitor \/ NetworkChanges
  BY <1>2 DEF StartMonitor, NetworkChanges
<1>3. CASE DropStep
  <2>1. ~monitoring' \/ UNCHANGED <<snapshot, frameworkVars>>
    BY <1>3 DEF DropStep, sharedVars, frameworkVars
  <2> QED BY <2>1 DEF frameworkVars
<1>4. CASE BeginCallback
  <2> SUFFICES ASSUME monitoring, ~owed PROVE PathInv'
    BY <1>4 DEF BeginCallback
  <2>1. /\ running = <<>> /\ callbacks # <<>>
        /\ running' = <<callbacks[1]>> /\ callbacks' = Tail(callbacks)
        /\ UNCHANGED <<snapshot, path>>
    BY <1>4 DEF BeginCallback, sharedVars
  <2>2. /\ Len(callbacks) \in Nat \ {0} /\ Len(callbacks') = Len(callbacks) - 1
        /\ \A j \in 1..Len(callbacks') : callbacks'[j] = callbacks[j + 1]
    BY <2>1
  <2>3. running' # <<>> /\ running'[1] = callbacks[1]
    BY <2>1
  <2>4. CASE \E i \in 1..Len(callbacks) :
               /\ callbacks[i] = path
               /\ \A j \in 1..Len(callbacks) : j > i => callbacks[j] = NoPath
    <3>1. PICK i \in 1..Len(callbacks) :
            /\ callbacks[i] = path
            /\ \A j \in 1..Len(callbacks) : j > i => callbacks[j] = NoPath
      BY <2>4
    <3>2. CASE i = 1
      BY <2>1, <2>2, <2>3, <3>1, <3>2
    <3>3. CASE i # 1
      <4>1. i - 1 \in 1..Len(callbacks') /\ callbacks'[i - 1] = path'
        BY <2>1, <2>2, <3>1, <3>3
      <4>2. \A j \in 1..Len(callbacks') : j > i - 1 => callbacks'[j] = NoPath
        BY <2>2, <3>1
      <4> QED BY <4>1, <4>2
    <3> QED BY <3>2, <3>3
  <2>5. CASE (\A j \in 1..Len(callbacks) : callbacks[j] = NoPath) /\ snapshot = path
    BY <2>1, <2>2, <2>3, <2>5
  <2> QED BY <2>1, <2>4, <2>5
<1>5. CASE EndCallback
  <2>1. UNCHANGED <<monitoring, owed, path, callbacks>> /\ running # <<>> /\ running' = <<>>
    BY <1>5 DEF EndCallback
  <2>2. IF running[1] = NoPath THEN snapshot' = snapshot ELSE snapshot' = running[1]
    BY <1>5 DEF EndCallback, StoreUpdate, sharedVars
  <2> QED BY <2>1, <2>2, PathFacts
<1>6. CASE Deliver
  <2> SUFFICES ASSUME monitoring', ~owed' PROVE PathInv'
    OBVIOUS
  <2>1. UNCHANGED <<monitoring, path, snapshot, running>>
    BY <1>6 DEF Deliver, sharedVars
  <2>2. CASE callbacks' = Append(callbacks, path)
    <3>1. /\ Len(callbacks') = Len(callbacks) + 1 /\ Len(callbacks) \in Nat
          /\ callbacks'[Len(callbacks')] = path
      BY <2>2
    <3>2. \E i \in 1..Len(callbacks') :
            /\ callbacks'[i] = path
            /\ \A j \in 1..Len(callbacks') : j > i => callbacks'[j] = NoPath
      BY <3>1
    <3> QED BY <2>1, <3>2
  <2>3. CASE callbacks' = Append(callbacks, NoPath) /\ UNCHANGED owed
    <3>1. /\ Len(callbacks') = Len(callbacks) + 1 /\ Len(callbacks) \in Nat
          /\ callbacks'[Len(callbacks')] = NoPath
          /\ \A j \in 1..Len(callbacks) : callbacks'[j] = callbacks[j]
      BY <2>3
    <3> QED BY <2>1, <2>3, <3>1
  <2> QED BY <1>6, <2>2, <2>3 DEF Deliver
<1> QED
  BY <1>1, <1>2, <1>3, <1>4, <1>5, <1>6 DEF Next, ThreadStep

\* What retaining and releasing does to each count.
LEMMA RetainStep ==
  ASSUME NEW r \in [Objects -> Int], NEW s
  PROVE  /\ Retain(r, s) \in [Objects -> Int]
         /\ \A o \in Objects : Retain(r, s)[o] = IF o \in s THEN r[o] + 1 ELSE r[o]
BY DEF Retain

LEMMA Drop1Step ==
  ASSUME NEW r \in [Objects -> Int], NEW o \in Objects
  PROVE  /\ Drop1(r, o) \in [Objects -> Int]
         /\ \A p \in Objects : Drop1(r, o)[p] = IF p = o THEN r[p] - 1 ELSE r[p]
BY DEF Drop1

LEMMA ReleaseBlockStep ==
  ASSUME NEW r \in [Objects -> Int]
  PROVE  /\ ReleaseBlock(r) \in [Objects -> Int]
         /\ ReleaseBlock(r)["block"] = r["block"] - 1
         /\ ReleaseBlock(r)["queue"] = r["queue"]
         /\ ReleaseBlock(r)["monitor"] = r["monitor"]
         /\ ReleaseBlock(r)["shared"] = IF r["block"] = 1 THEN r["shared"] - 1 ELSE r["shared"]
BY DEF Objects, Drop1, ReleaseBlock

\* Counts that are sums of what holds a reference are not negative.
LEMMA RefNat ==
  ASSUME refs' \in [Objects -> Int], RefInv', Queued' \in Nat
  PROVE  refs' \in [Objects -> Nat]
<1>1. /\ Count(HoldsMonitor)' \in Nat /\ Count(HoldsQueue)' \in Nat /\ Count(HoldsBlock)' \in Nat
      /\ Count(HoldsShared)' \in Nat /\ Count(Attached)' \in Nat /\ Count(refs["block"] > 0)' \in Nat
  BY DEF Count
<1>2. refs'["monitor"] \in Nat /\ refs'["queue"] \in Nat /\ refs'["block"] \in Nat /\ refs'["shared"] \in Nat
  BY <1>1 DEF RefInv
<1>3. \A o \in Objects : refs'[o] \in Nat
  BY <1>2 DEF Objects
<1> QED BY <1>3

\* Every step keeps the counts in step with who holds what.
LEMMA RefStep == IInv /\ [Next]_vars => RefInv' /\ refs' \in [Objects -> Nat]
<1> SUFFICES ASSUME IInv, [Next]_vars PROVE RefInv' /\ refs' \in [Objects -> Nat]
  OBVIOUS
<1> DEFINE Held == refs' \in [Objects -> Int] /\ RefInv'
<1>0. Queued \in Nat /\ Queued' \in Nat
  <2>1. Types'
    BY TypesStep
  <2> QED BY <2>1 DEF IInv, TypeOK, Types, Queued
<1>a. refs \in [Objects -> Int]
  BY DEF IInv, TypeOK
<1>b. Objects = {"queue", "monitor", "block", "shared"}
  BY DEF Objects
<1> USE <1>0, <1>a DEF RefInv, Count, HoldsMonitor, HoldsQueue, HoldsShared, HoldsBlock, Attached, New
<1>1. CASE UNCHANGED <<pc, dropped, refs>> /\ Queued' = Queued
  <2>1. Held
    BY <1>1 DEF IInv
  <2> QED BY <2>1, <1>1 DEF IInv, TypeOK
<1>2. SUFFICES Held
  BY RefNat
<1>3. CASE CreateQueue \/ CreateMonitor
  <2>1. Queued = 0 /\ Queued' = 0 /\ dropped = 0 /\ dropped' = 0
    BY <1>3 DEF IInv, PhaseInv, CreateQueue, CreateMonitor, frameworkVars, Queued
  <2>2. CASE pc = "queue" /\ pc' = "monitor" /\ refs' = Retain(refs, {"queue"})
    <3>1. refs' \in [Objects -> Int] /\ \A o \in Objects : refs'[o] = IF o = "queue" THEN refs[o] + 1 ELSE refs[o]
      BY <2>2, RetainStep
    <3> QED BY <2>1, <2>2, <3>1, <1>b DEF IInv
  <2>3. CASE pc = "queue" /\ pc' = "failed" /\ refs' = Drop1(refs, "shared")
    <3>1. refs' \in [Objects -> Int] /\ \A o \in Objects : refs'[o] = IF o = "shared" THEN refs[o] - 1 ELSE refs[o]
      BY <2>3, <1>b, Drop1Step
    <3> QED BY <2>1, <2>3, <3>1, <1>b DEF IInv
  <2>4. CASE pc = "monitor" /\ pc' = "start" /\ refs' = Retain(refs, {"monitor"})
    <3>1. refs' \in [Objects -> Int] /\ \A o \in Objects : refs'[o] = IF o = "monitor" THEN refs[o] + 1 ELSE refs[o]
      BY <2>4, RetainStep
    <3> QED BY <2>1, <2>4, <3>1, <1>b DEF IInv
  <2>5. CASE pc = "monitor" /\ pc' = "failed" /\ refs' = Drop1(Drop1(refs, "queue"), "shared")
    <3> DEFINE r == Drop1(refs, "queue")
    <3>1. r \in [Objects -> Int] /\ \A o \in Objects : r[o] = IF o = "queue" THEN refs[o] - 1 ELSE refs[o]
      BY <1>b, Drop1Step
    <3>2. refs' \in [Objects -> Int] /\ \A o \in Objects : refs'[o] = IF o = "shared" THEN r[o] - 1 ELSE r[o]
      BY <2>5, <3>1, <1>b, Drop1Step
    <3> QED BY <2>1, <2>5, <3>1, <3>2, <1>b DEF IInv
  <2> QED
    BY <1>3, <2>2, <2>3, <2>4, <2>5 DEF CreateQueue, CreateMonitor, Fail, RollBack
<1>4. CASE StartMonitor
  <2> DEFINE r == Retain(refs, {"block", "shared"})
  <2>1. Queued = 0 /\ Queued' = 0 /\ dropped = 0 /\ dropped' = 0 /\ pc = "start" /\ pc' = "check"
    BY <1>4 DEF IInv, PhaseInv, StartMonitor, Queued
  <2>2. r \in [Objects -> Int] /\ \A o \in Objects : r[o] = IF o \in {"block", "shared"} THEN refs[o] + 1 ELSE refs[o]
    BY RetainStep
  <2>3. refs' = Retain(r, {"block", "queue"})
    BY <1>4 DEF StartMonitor, BuildHandler
  <2>4. refs' \in [Objects -> Int] /\ \A o \in Objects : refs'[o] = IF o \in {"block", "queue"} THEN r[o] + 1 ELSE r[o]
    BY <2>2, <2>3, RetainStep
  <2> QED
    BY <2>1, <2>2, <2>4, <1>b DEF IInv
<1>5. CASE CheckReady \/ BeginDrop \/ TimeoutExpires \/ SpuriousWakeup
  <2>1. /\ refs' = refs /\ Queued' = Queued /\ dropped' = dropped
        /\ pc \in {"check", "asleep", "ready"}
        /\ pc' \in {"check", "asleep", "ready", "drop"}
        /\ dropped = 0
    BY <1>5 DEF IInv, PhaseInv, CheckReady, BeginDrop, TimeoutExpires, SpuriousWakeup, Woken, frameworkVars, Queued
  <2> QED BY <2>1 DEF IInv
<1>6. CASE DropStep
  <2>1. /\ pc = "drop" /\ dropped \in 0..4 /\ dropped' = dropped + 1
        /\ pc' = IF dropped = 4 THEN "dropped" ELSE "drop"
        /\ Queued' = Queued
    BY <1>6 DEF DropStep, DropOrder, IInv, TypeOK, PhaseInv, Queued
  <2>2. CASE dropped = 0
    <3>1. refs' = refs
      BY <1>6, <2>2 DEF DropStep, DropOrder
    <3> QED BY <2>1, <2>2, <3>1 DEF IInv
  <2>3. CASE dropped = 1
    <3> DEFINE m == Drop1(refs, "monitor")
    <3> DEFINE q == Drop1(m, "queue")
    <3>1. m \in [Objects -> Int] /\ \A o \in Objects : m[o] = IF o = "monitor" THEN refs[o] - 1 ELSE refs[o]
      BY <1>b, Drop1Step
    <3>2. q \in [Objects -> Int] /\ \A o \in Objects : q[o] = IF o = "queue" THEN m[o] - 1 ELSE m[o]
      BY <3>1, <1>b, Drop1Step
    <3>3. refs' = ReleaseMonitor(refs)
      BY <1>6, <2>3 DEF DropStep, DropOrder
    <3>4. m["monitor"] = 0
      BY <3>1, <2>1, <2>3, <1>b DEF IInv
    <3>5. refs' = ReleaseBlock(q)
      BY <3>3, <3>4 DEF ReleaseMonitor
    <3> HIDE DEF m, q
    <3>6. /\ refs' \in [Objects -> Int]
          /\ refs'["block"] = q["block"] - 1
          /\ refs'["queue"] = q["queue"]
          /\ refs'["monitor"] = q["monitor"]
          /\ refs'["shared"] = IF q["block"] = 1 THEN q["shared"] - 1 ELSE q["shared"]
      BY <3>2, <3>5, ReleaseBlockStep
    <3> QED BY <2>1, <2>3, <3>1, <3>2, <3>6, <1>b DEF IInv
  <2>4. CASE dropped = 2
    <3>1. refs' = Drop1(refs, "queue")
      BY <1>6, <2>4 DEF DropStep, DropOrder
    <3>2. refs' \in [Objects -> Int] /\ \A o \in Objects : refs'[o] = IF o = "queue" THEN refs[o] - 1 ELSE refs[o]
      BY <3>1, <1>b, Drop1Step
    <3> QED BY <2>1, <2>4, <3>2, <1>b DEF IInv
  <2>5. CASE dropped = 3
    <3>1. refs' = Drop1(refs, "shared")
      BY <1>6, <2>5 DEF DropStep, DropOrder
    <3>2. refs' \in [Objects -> Int] /\ \A o \in Objects : refs'[o] = IF o = "shared" THEN refs[o] - 1 ELSE refs[o]
      BY <3>1, <1>b, Drop1Step
    <3> QED BY <2>1, <2>5, <3>2, <1>b DEF IInv
  <2>6. CASE dropped = 4
    <3>1. refs' = ReleaseBlock(refs)
      BY <1>6, <2>6 DEF DropStep, DropOrder
    <3>2. /\ refs' \in [Objects -> Int]
          /\ refs'["block"] = refs["block"] - 1
          /\ refs'["queue"] = refs["queue"]
          /\ refs'["monitor"] = refs["monitor"]
          /\ refs'["shared"] = IF refs["block"] = 1 THEN refs["shared"] - 1 ELSE refs["shared"]
      BY <3>1, ReleaseBlockStep
    <3> QED BY <2>1, <2>6, <3>2 DEF IInv
  <2> QED BY <2>1, <2>2, <2>3, <2>4, <2>5, <2>6
<1>7. CASE BeginCallback
  <2>1. Len(callbacks) \in Nat /\ running = <<>> /\ callbacks # <<>>
    BY <1>7 DEF BeginCallback, IInv, TypeOK
  <2>2. Len(callbacks') = Len(callbacks) - 1 /\ Len(running') = 1 /\ Len(running) = 0
    BY <1>7, <2>1 DEF BeginCallback, IInv, TypeOK
  <2>3. Queued' = Queued /\ UNCHANGED <<pc, dropped, refs>>
    BY <1>7, <2>1, <2>2 DEF BeginCallback, threadVars, Queued
  <2> QED BY <2>3, <1>1
<1>8. CASE EndCallback
  <2> DEFINE r == Drop1(refs, "queue")
  <2>1. Queued' = Queued - 1 /\ dropped' = dropped
    BY <1>8 DEF EndCallback, Queued, IInv, TypeOK
  <2>2. pc' = pc \/ (pc = "asleep" /\ pc' = "check")
    BY <1>8 DEF EndCallback, StoreUpdate, Woken
  <2>3. pc # "start"
    BY <1>8 DEF EndCallback, IInv, PhaseInv
  <2>4. r \in [Objects -> Int] /\ \A o \in Objects : r[o] = IF o = "queue" THEN refs[o] - 1 ELSE refs[o]
    BY <1>b, Drop1Step
  <2>5. refs' = ReleaseBlock(r)
    BY <1>8 DEF EndCallback
  <2>6. /\ refs' \in [Objects -> Int]
        /\ refs'["block"] = r["block"] - 1
        /\ refs'["queue"] = r["queue"]
        /\ refs'["monitor"] = r["monitor"]
        /\ refs'["shared"] = IF r["block"] = 1 THEN r["shared"] - 1 ELSE r["shared"]
    BY <2>4, <2>5, ReleaseBlockStep
  <2> QED
    BY <2>1, <2>2, <2>3, <2>4, <2>6, <1>b DEF IInv
<1>9. CASE NetworkChanges \/ UNCHANGED vars
  <2>1. Queued' = Queued /\ UNCHANGED <<pc, dropped, refs>>
    BY <1>9 DEF NetworkChanges, vars, threadVars, frameworkVars, Queued
  <2> QED BY <2>1, <1>1
<1>10. CASE Deliver
  <2>1. PICK e \in Paths \cup {NoPath} : callbacks' = Append(callbacks, e)
    BY <1>10 DEF Deliver, IInv, TypeOK
  <2>2. Len(callbacks') = Len(callbacks) + 1 /\ Len(callbacks) \in Nat
    BY <2>1 DEF IInv, TypeOK
  <2>3. Queued' = Queued + 1 /\ UNCHANGED <<pc, dropped>>
    BY <1>10, <2>2 DEF Deliver, threadVars, Queued, IInv, TypeOK
  <2>4. refs' = Retain(refs, {"block", "queue"}) /\ HoldsBlock
    BY <1>10 DEF Deliver, IInv, PhaseInv
  <2>5. refs' \in [Objects -> Int] /\ \A o \in Objects : refs'[o] = IF o \in {"block", "queue"} THEN refs[o] + 1 ELSE refs[o]
    BY <2>4, RetainStep
  <2> QED BY <2>3, <2>4, <2>5, <1>b DEF IInv
<1> QED
  BY <1>3, <1>4, <1>5, <1>6, <1>7, <1>8, <1>9, <1>10 DEF Next, ThreadStep

\* IInv is an invariant.
LEMMA Invariant == Spec => []IInv
<1>1. IInv /\ [Next]_vars => IInv'
  <2>1. IInv /\ [Next]_vars => TypeOK'
    BY TypesStep, RefStep DEF Types, TypeOK
  <2> QED
    BY <2>1, PathStep, RefStep, PhaseStep DEF IInv
<1> QED
  BY <1>1, InitInv, PTL DEF Spec

-----------------------------------------------------------------------------
(* What follows from it.                                                   *)

\* The variables of MacOsNetworkState keep their types; in particular no
\* reference count ever becomes negative.
THEOREM TypeCorrect == Spec => []TypeOK
<1>1. IInv => TypeOK
  BY DEF IInv
<1> QED
  BY <1>1, Invariant, PTL

\* The readers of macos.rs:245-265 return the system's path once it has been
\* delivered and its handler has run.
THEOREM CurrentSnapshot == Spec => []SnapshotCurrent
<1>1. IInv => SnapshotCurrent
  <2> SUFFICES ASSUME IInv, monitoring, ~owed, callbacks = <<>>, running = <<>>
               PROVE snapshot = path
    BY DEF SnapshotCurrent
  <2>1. Len(callbacks) = 0
    OBVIOUS
  <2> QED BY <2>1 DEF IInv, PathInv
<1> QED
  BY <1>1, Invariant, PTL

\* new never sleeps on an update that was stored (macos.rs:192-234).
THEOREM NoWakeupLost == Spec => []NoLostWakeup
<1>1. IInv => NoLostWakeup
  BY DEF IInv
<1> QED
  BY <1>1, Invariant, PTL

\* Drop does not free what a callback that is queued or running uses, and
\* cancels a monitor that still exists (macos.rs:267-283).
THEOREM DropIsSafe == Spec => []NoUseAfterFree
<1>1. IInv => NoUseAfterFree
  <2> SUFFICES ASSUME IInv PROVE NoUseAfterFree
    OBVIOUS
  <2> USE DEF IInv, TypeOK, RefInv, PhaseInv, Count
  <2>1. ASSUME running # <<>> \/ callbacks # <<>>
        PROVE  \A o \in {"block", "queue", "shared"} : refs[o] > 0
    <3>1. Queued > 0 /\ Queued \in Nat
      BY <2>1 DEF Queued
    <3>2. refs["queue"] > 0 /\ refs["block"] > 0
      BY <3>1
    <3>3. refs["shared"] > 0
      BY <3>2
    <3> QED BY <3>2, <3>3
  <2>2. ASSUME pc = "drop", DropOrder[dropped + 1] = "nw_path_monitor_cancel"
        PROVE  refs["monitor"] > 0
    <3>1. dropped \in 0..4
      BY <2>2 DEF DropOrder
    <3>2. dropped = 0
      BY <2>2, <3>1 DEF DropOrder
    <3> QED BY <2>2, <3>2 DEF HoldsMonitor
  <2> QED BY <2>1, <2>2 DEF NoUseAfterFree
<1> QED
  BY <1>1, Invariant, PTL

\* When the struct is gone, or new has failed at any of its points, no callback
\* is scheduled any more, and when the last of those on the queue has run every
\* object is freed (macos.rs:119-190, 267-283).  That the queue does run them is
\* what AllReleased adds.
Drained ==
  pc \in {"dropped", "failed"} =>
    /\ ~monitoring
    /\ (callbacks = <<>> /\ running = <<>>) => \A o \in Objects : refs[o] = 0

THEOREM NothingLeaks == Spec => []Drained
<1>1. IInv => Drained
  <2> SUFFICES ASSUME IInv, pc \in {"dropped", "failed"}
               PROVE  ~monitoring /\ (callbacks = <<>> /\ running = <<>> => \A o \in Objects : refs[o] = 0)
    BY DEF Drained
  <2>1. ~HoldsMonitor /\ ~HoldsQueue /\ ~HoldsShared /\ ~HoldsBlock /\ ~Attached
    BY DEF HoldsMonitor, HoldsQueue, HoldsShared, HoldsBlock, Attached, New
  <2>2. ~monitoring
    BY <2>1 DEF IInv, PhaseInv
  <2>3. ASSUME callbacks = <<>>, running = <<>> PROVE \A o \in Objects : refs[o] = 0
    <3>1. Queued = 0
      BY <2>3 DEF Queued
    <3>2. refs["monitor"] = 0 /\ refs["queue"] = 0 /\ refs["block"] = 0
      BY <2>1, <3>1 DEF IInv, RefInv, Count
    <3>3. refs["shared"] = 0
      BY <2>1, <3>2 DEF IInv, RefInv, Count
    <3> QED BY <3>2, <3>3 DEF Objects
  <2> QED BY <2>2, <2>3
<1> QED BY <1>1, Invariant, PTL

-----------------------------------------------------------------------------
(* The promise to the readers.                                             *)

\* An update is owed only by a monitor that runs.
OwedInv == owed => monitoring

LEMMA OwedStep == OwedInv /\ [Next]_vars => OwedInv'
  BY DEF OwedInv, Next, ThreadStep, CreateQueue, CreateMonitor, StartMonitor, CheckReady, DropStep,
     BeginDrop, TimeoutExpires, SpuriousWakeup, BeginCallback, EndCallback, NetworkChanges, Deliver,
     vars, frameworkVars

\* A sequence of one element or none, with another one behind it.
LEMMA ShortConcat ==
  ASSUME NEW S, NEW one \in S, NEW s \in Seq(S), NEW e \in S
  PROVE  /\ <<>> \o s = s
         /\ <<one>> \o s # <<>> /\ Head(<<one>> \o s) = one /\ Tail(<<one>> \o s) = s
         /\ Len(<<one>> \o s) = Len(s) + 1
         /\ <<one>> \o Append(s, e) = Append(<<one>> \o s, e)
         /\ s # <<>> => <<Head(s)>> \o Tail(s) = s
<1>1. <<one>> \o s = [i \in 1..(Len(s) + 1) |-> IF i = 1 THEN one ELSE s[i - 1]]
  OBVIOUS
<1>2. <<one>> \in Seq(S) /\ <<one>> \o s \in Seq(S) /\ Len(<<one>> \o s) = Len(s) + 1
  OBVIOUS
<1>3. Head(<<one>> \o s) = one /\ <<one>> \o s # <<>>
  BY <1>1, <1>2
<1>4. Tail(<<one>> \o s) = s
  <2>1. Len(Tail(<<one>> \o s)) = Len(s) /\ Tail(<<one>> \o s) \in Seq(S)
    BY <1>2
  <2>2. \A i \in 1..Len(s) : Tail(<<one>> \o s)[i] = s[i]
    BY <1>1, <1>2
  <2> QED BY <2>1, <2>2, SeqEqual
<1>5. <<one>> \o Append(s, e) = Append(<<one>> \o s, e)
  <2>1. /\ <<one>> \o Append(s, e) \in Seq(S) /\ Append(<<one>> \o s, e) \in Seq(S)
        /\ Len(<<one>> \o Append(s, e)) = Len(s) + 2 /\ Len(Append(<<one>> \o s, e)) = Len(s) + 2
    BY <1>2
  <2>2. \A i \in 1..(Len(s) + 2) : (<<one>> \o Append(s, e))[i] = Append(<<one>> \o s, e)[i]
    BY <1>1, <1>2
  <2> QED BY <2>1, <2>2, SeqEqual
<1>6. ASSUME s # <<>> PROVE <<Head(s)>> \o Tail(s) = s
  <2>1. Head(s) \in S /\ Tail(s) \in Seq(S) /\ Len(Tail(s)) = Len(s) - 1 /\ Len(s) \in Nat \ {0}
    BY <1>6
  <2>2. <<Head(s)>> \o Tail(s) \in Seq(S) /\ Len(<<Head(s)>> \o Tail(s)) = Len(s)
    BY <2>1
  <2>3. \A i \in 1..Len(s) : (<<Head(s)>> \o Tail(s))[i] = s[i]
    BY <1>6, <2>1
  <2> QED BY <2>2, <2>3, SeqEqual
<1>7. <<>> \o s = s
  OBVIOUS
<1> QED BY <1>2, <1>3, <1>4, <1>5, <1>6, <1>7

LEMMA RefinementStep ==
  IInv /\ OwedInv /\ [Next]_vars => [Promise!Next]_(Promise!reportVars)
<1> SUFFICES ASSUME IInv, OwedInv, [Next]_vars PROVE [Promise!Next]_(Promise!reportVars)
  OBVIOUS
<1> DEFINE Reported == Paths \cup {NoPath}
<1>t. /\ callbacks \in Seq(Reported) /\ Len(callbacks) <= MaxQueued
      /\ running = <<>> \/ \E r \in Reported : running = <<r>>
  <2>1. running # <<>> => running = <<running[1]>>
    <3>1. running \in Seq(Reported) /\ Len(running) <= 1
      BY DEF IInv, TypeOK
    <3> HIDE DEF Reported
    <3>2. running # <<>> => Len(running) = 1
      BY <3>1, EmptySeq
    <3>3. running # <<>> => running[1] \in Reported
      BY <3>1, <3>2
    <3>4. running # <<>> => <<running[1]>> \in Seq(Reported) /\ Len(<<running[1]>>) = 1
      BY <3>3
    <3> QED BY <3>1, <3>2, <3>4, SeqEqual
  <2>2. running # <<>> => running[1] \in Reported
    BY DEF IInv, TypeOK
  <2> QED BY <2>1, <2>2 DEF IInv, TypeOK
<1>p. Promise!Networks = Paths /\ Promise!Empty = NoPath
  BY DEF Promise!Networks, Promise!Empty, Paths, NoPath
<1> HIDE DEF Reported
<1>1. CASE UNCHANGED <<sharedVars, frameworkVars>>
  BY <1>1 DEF sharedVars, frameworkVars, Promise!reportVars
<1>2. CASE CreateQueue \/ CreateMonitor \/ CheckReady \/ TimeoutExpires \/ SpuriousWakeup \/ BeginDrop
  BY <1>1, <1>2 DEF CreateQueue, CreateMonitor, CheckReady, TimeoutExpires, SpuriousWakeup, BeginDrop
<1>3. CASE StartMonitor
  <2>1. ~monitoring
    BY <1>3 DEF StartMonitor, IInv, PhaseInv, Attached
  <2>2. Promise!Open
    BY <1>3, <2>1 DEF StartMonitor, sharedVars, Promise!Open
  <2> QED BY <2>2 DEF Promise!Next
<1>4. CASE BeginCallback
  <2>1. running \o callbacks = callbacks
    BY <1>4, <1>t, ShortConcat DEF BeginCallback
  <2>2. running' \o callbacks' = callbacks
    BY <1>4, <1>t DEF BeginCallback
  <2> QED BY <1>4, <2>1, <2>2 DEF BeginCallback, sharedVars, Promise!reportVars
<1>5. CASE EndCallback
  <2>1. PICK r \in Reported : running = <<r>>
    BY <1>5, <1>t DEF EndCallback
  <2>2. /\ running \o callbacks # <<>> /\ Head(running \o callbacks) = r
        /\ Tail(running \o callbacks) = callbacks
    BY <1>t, <2>1, ShortConcat
  <2>3. running' \o callbacks' = callbacks
    BY <1>5, <1>t DEF EndCallback
  <2>4. running[1] = r
    BY <2>1
  <2>5. Promise!Apply
    BY <1>5, <1>p, <2>2, <2>3, <2>4 DEF EndCallback, StoreUpdate, sharedVars, Promise!Apply
  <2> QED BY <2>5 DEF Promise!Next
<1>6. CASE NetworkChanges
  <2>1. Promise!Change
    BY <1>6, <1>p DEF NetworkChanges, sharedVars, Promise!Change
  <2> QED BY <2>1 DEF Promise!Next
<1>7. CASE Deliver
  <2>1. ASSUME NEW e \in Reported, callbacks' = Append(callbacks, e)
        PROVE  running' \o callbacks' = Append(running \o callbacks, e)
    <3>1. CASE running = <<>>
      <4>1. running' = <<>> /\ Append(callbacks, e) \in Seq(Reported)
        BY <1>7, <1>t, <2>1, <3>1 DEF Deliver
      <4>2. <<>> \o callbacks = callbacks /\ <<>> \o Append(callbacks, e) = Append(callbacks, e)
        BY <1>t, <4>1
      <4> QED BY <2>1, <3>1, <4>1, <4>2
    <3>2. CASE running # <<>>
      <4>1. PICK r \in Reported : running = <<r>>
        BY <1>t, <3>2
      <4>2. <<r>> \o Append(callbacks, e) = Append(<<r>> \o callbacks, e)
        BY <1>t, <2>1, ShortConcat
      <4> QED BY <1>7, <2>1, <4>1, <4>2 DEF Deliver
    <3> QED BY <3>1, <3>2
  <2>2. Len(running \o callbacks) < MaxQueued + 1
    <3>1. Len(callbacks) < MaxQueued /\ Len(callbacks) \in Nat
      BY <1>7, <1>t DEF Deliver
    <3>2. Len(running \o callbacks) \in {Len(callbacks), Len(callbacks) + 1}
      <4>1. CASE running = <<>>
        BY <1>t, <4>1
      <4>2. CASE running # <<>>
        BY <1>t, <4>2, ShortConcat
      <4> QED BY <4>1, <4>2
    <3> QED BY <3>1, <3>2, QueueAssumption
  <2>3. path \in Reported /\ NoPath \in Reported
    BY DEF Reported, IInv, TypeOK
  <2>4. CASE owed /\ callbacks' = Append(callbacks, path) /\ owed' = FALSE
    <3>1. Promise!Report
      BY <1>7, <2>1, <2>2, <2>3, <2>4 DEF Deliver, sharedVars, Promise!Report
    <3> QED BY <3>1 DEF Promise!Next
  <2>5. CASE callbacks' = Append(callbacks, NoPath) /\ UNCHANGED owed
    <3>1. Promise!EmptyReport
      BY <1>7, <1>p, <2>1, <2>2, <2>3, <2>5 DEF Deliver, sharedVars, Promise!EmptyReport
    <3> QED BY <3>1 DEF Promise!Next
  <2> QED BY <1>7, <2>4, <2>5 DEF Deliver
<1>8. CASE DropStep
  <2>1. UNCHANGED <<sharedVars, path, callbacks, running>>
    BY <1>8 DEF DropStep
  <2>2. CASE UNCHANGED <<monitoring, owed>>
    BY <2>1, <2>2, <1>1 DEF frameworkVars
  <2>3. CASE monitoring' = FALSE /\ owed' = FALSE
    <3>1. CASE monitoring
      <4>1. Promise!Close
        BY <2>1, <2>3, <3>1 DEF sharedVars, Promise!Close
      <4> QED BY <4>1 DEF Promise!Next
    <3>2. CASE ~monitoring
      <4>1. UNCHANGED <<monitoring, owed>>
        BY <2>3, <3>2 DEF OwedInv, IInv, TypeOK
      <4> QED BY <2>2, <4>1
    <3> QED BY <3>1, <3>2
  <2> QED BY <1>8, <2>2, <2>3 DEF DropStep
<1>9. CASE UNCHANGED vars
  BY <1>1, <1>9 DEF vars
<1> QED
  BY <1>2, <1>3, <1>4, <1>5, <1>6, <1>7, <1>8, <1>9 DEF Next, ThreadStep

\* For every bound on the queue the readers see no more of the handler, its
\* threads and the drop than NetworkReports has: whole paths, in order.
THEOREM ReadersSeeReports == Spec => ImplementsReports
<1>1. Init => Promise!Init
  BY DEF Init, Promise!Init, Promise!Networks, Promise!AllClear, Paths, Default
<1>2. Init => OwedInv
  BY DEF Init, OwedInv
<1> QED
  BY <1>1, <1>2, OwedStep, RefinementStep, Invariant, PTL DEF Spec, ImplementsReports, Promise!Spec
=============================================================================
