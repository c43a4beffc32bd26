-------------------------- MODULE ChildHandleProofs --------------------------
(***************************************************************************)
(* The safety of TokioChildHandle for every client of ChildHandle, every   *)
(* grace period and any number of workers and signals.                     *)
(***************************************************************************)
EXTENDS ChildHandle, ProcessGroupProofs

\* While terminate is under way the leader has not been reaped.
UnreapedInv == op # "idle" => child \in {"live", "zombie"}

IInv == TypeOK /\ GraceInv /\ UnreapedInv

LEMMA StepIsGroupStep == Next => GroupStep
  BY DEF Next, GroupStep, Start, CallSignal, CallTerminate, CallWait, Environment

LEMMA InitInv == GroupInit => IInv
  BY GroupInitInv DEF IInv, TypeOK, UnreapedInv, GroupInit

LEMMA InvStep == IInv /\ [Next]_groupVars => IInv'
<1> SUFFICES ASSUME IInv, [Next]_groupVars PROVE IInv'
  OBVIOUS
<1>1. CASE Next
  <2>1. GroupStep
    BY <1>1, StepIsGroupStep
  <2>2. TypeOK'
    BY <2>1, GroupTypeStep, GroupInvStep DEF IInv, TypeOK
  <2>3. GraceInv'
    BY <2>1, GraceInvStep DEF IInv, TypeOK
  <2>4. UnreapedInv'
    <3> USE DEF IInv, UnreapedInv
    <3>1. CASE Start \/ CallWait \/ TerminateStep \/ Elapse
      BY <3>1 DEF Start, Spawn, CallWait, Wait, TerminateStep, TerminateExited, TerminateKill,
         TerminateReaped, Elapse
    <3>2. CASE CallTerminate \/ \E kind \in DOMAIN UnixSignal : CallSignal(kind)
      BY <3>2 DEF CallTerminate, Terminate, CallSignal, Signal, ClientMaySend
    <3>3. CASE Environment
      BY <3>3 DEF Environment, Fork, Exit
    <3> QED BY <1>1, <3>1, <3>2, <3>3 DEF Next
  <2> QED BY <2>2, <2>3, <2>4 DEF IInv
<1>2. CASE UNCHANGED groupVars
  BY <1>2 DEF groupVars, IInv, TypeOK, GroupTypeOK, GroupInv, GraceInv, UnreapedInv
<1> QED BY <1>1, <1>2

\* The invariant holds of every state a client can bring the handle to.
THEOREM Invariant == Spec => []IInv
  BY InitInv, InvStep, PTL DEF Spec

\* The leader's state, its status and the group agree with each other.
THEOREM TypeCorrect == Spec => []TypeOK
<1>1. IInv => TypeOK
  BY DEF IInv
<1> QED BY <1>1, Invariant, PTL

\* killpg is never called with the id of a group that may not be ours.
THEOREM OwnGroupOnly == Spec => NoStraySignal
<1>1. IInv /\ [Next]_groupVars => [SentToOwnGroup]_groupVars
  <2> SUFFICES ASSUME IInv, Next, sent' # sent PROVE child \in {"live", "zombie"}
    BY DEF SentToOwnGroup
  <2>1. CASE TerminateStep
    BY <2>1 DEF TerminateStep, TerminateExited, TerminateKill, TerminateReaped, IInv, UnreapedInv
  <2>2. CASE CallTerminate \/ \E kind \in DOMAIN UnixSignal : CallSignal(kind)
    BY <2>2 DEF CallTerminate, CallSignal, ClientMaySend
  <2>3. ~(Start \/ CallWait \/ Environment \/ Elapse)
    BY DEF Start, Spawn, CallWait, Wait, Environment, Fork, Exit, Elapse
  <2> QED BY <2>1, <2>2, <2>3 DEF Next
<1> QED BY <1>1, Invariant, PTL DEF Spec, NoStraySignal

\* The command has the whole grace period between SIGTERM and SIGKILL.
THEOREM GraceBeforeKill == Spec => KillAfterGrace
<1>1. IInv /\ [Next]_groupVars => [SentAfterGrace]_groupVars
  BY StepIsGroupStep, GraceStep DEF IInv, TypeOK
<1> QED BY <1>1, Invariant, PTL DEF Spec, KillAfterGrace

\* For every client, any number of workers and however they fork meanwhile: when
\* terminate has sent its SIGKILL nobody in the group is without one (the safety
\* half of KillClearsGroup).
THEOREM KillReachesAll == Spec => []NobodyEscapes
<1>1. GroupInit => NobodyEscapes
  BY DEF GroupInit, NobodyEscapes
<1>2. IInv /\ NobodyEscapes /\ [Next]_groupVars => NobodyEscapes'
  <2>1. IInv /\ NobodyEscapes /\ Next => NobodyEscapes'
    BY StepIsGroupStep, NobodyEscapesStep DEF IInv, TypeOK, UnreapedInv
  <2>2. NobodyEscapes /\ UNCHANGED groupVars => NobodyEscapes'
    BY DEF groupVars, NobodyEscapes
  <2> QED BY <2>1, <2>2
<1> QED BY <1>1, <1>2, Invariant, PTL DEF Spec
=============================================================================
