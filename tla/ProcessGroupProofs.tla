------------------------- MODULE ProcessGroupProofs -------------------------
(***************************************************************************)
(* What every step of the process group preserves, for any client that     *)
(* drives it, any number of workers and any grace period.                  *)
(***************************************************************************)
EXTENDS ProcessGroup, TLAPS

\* terminate's timer and the time since its SIGTERM add up to the grace period.
GraceInv == op = "grace" => termAge >= 0 /\ termAge + graceLeft = Grace

LEMMA GroupInitInv == GroupInit => GroupTypeOK /\ GroupInv /\ GraceInv
  BY GroupAssumption DEF GroupInit, GroupTypeOK, GroupInv, GraceInv, NotTerminated

\* The types are preserved; at the spawn, because there is nobody in the group yet.
LEMMA GroupTypeStep == GroupTypeOK /\ GroupInv /\ GroupStep => GroupTypeOK'
<1> SUFFICES ASSUME GroupTypeOK, GroupInv, GroupStep PROVE GroupTypeOK'
  OBVIOUS
<1> USE GroupAssumption DEF GroupTypeOK, NotTerminated
<1>1. CASE Spawn
  BY <1>1 DEF Spawn, Procs, GroupInv
<1>2. CASE Wait
  BY <1>2 DEF Wait
<1>3. CASE Terminate
  BY <1>3 DEF Terminate, Killpg
<1>4. CASE TerminateStep
  <2>1. CASE TerminateExited \/ TerminateReaped
    BY <2>1 DEF TerminateExited, TerminateReaped
  <2>2. CASE TerminateKill
    BY <2>2 DEF TerminateKill, Killpg
  <2> QED BY <1>4, <2>1, <2>2 DEF TerminateStep
<1>5. ASSUME NEW kind \in DOMAIN UnixSignal, Signal(kind) PROVE GroupTypeOK'
  <2>1. UnixSignal[kind] \in {"SIGINT", "SIGTERM", "SIGQUIT", "SIGHUP"}
    BY DEF UnixSignal
  <2> QED BY <1>5, <2>1 DEF Signal, Killpg
<1>6. ASSUME NEW w \in Workers, Fork(w) PROVE GroupTypeOK'
  BY <1>6 DEF Fork, Procs
<1>7. ASSUME NEW p \in Procs, Exit(p) PROVE GroupTypeOK'
  BY <1>7 DEF Exit, Statuses
<1>8. CASE Elapse
  BY <1>8 DEF Elapse
<1> QED
  BY <1>1, <1>2, <1>3, <1>4, <1>5, <1>6, <1>7, <1>8 DEF GroupStep

\* The leader is in the group exactly while it lives, and has a status exactly
\* when it has exited.  Only an exit, a spawn or a wait concerns either; a
\* worker's comings and goings do not.
LEMMA GroupInvStep == GroupTypeOK /\ GroupInv /\ GroupStep => GroupInv'
<1> SUFFICES ASSUME GroupTypeOK, GroupInv, GroupStep PROVE GroupInv'
  OBVIOUS
<1> USE GroupAssumption DEF GroupInv
<1>1. CASE Spawn
  BY <1>1 DEF Spawn
<1>2. CASE Wait \/ Terminate \/ TerminateStep
  BY <1>2 DEF Wait, Terminate, TerminateStep, TerminateExited, TerminateKill, TerminateReaped, Waitable
<1>3. ASSUME NEW kind, Signal(kind) PROVE GroupInv'
  BY <1>3 DEF Signal
<1>4. ASSUME NEW w \in Workers, Fork(w) PROVE GroupInv'
  BY <1>4 DEF Fork
<1>5. ASSUME NEW p \in Procs, Exit(p) PROVE GroupInv'
  BY <1>5 DEF Exit, Statuses, GroupTypeOK
<1>6. CASE Elapse
  BY <1>6 DEF Elapse
<1> QED
  BY <1>1, <1>2, <1>3, <1>4, <1>5, <1>6 DEF GroupStep

LEMMA GraceInvStep == GroupTypeOK /\ GraceInv /\ GroupStep => GraceInv'
<1> SUFFICES ASSUME GroupTypeOK, GraceInv, GroupStep PROVE GraceInv'
  OBVIOUS
<1> USE GroupAssumption DEF GroupTypeOK, GraceInv, NotTerminated
<1>1. CASE Spawn \/ Wait \/ Terminate \/ TerminateStep
  BY <1>1 DEF Spawn, Wait, Terminate, TerminateStep, TerminateExited, TerminateKill, TerminateReaped
<1>2. CASE Elapse
  BY <1>2 DEF Elapse
<1>3. CASE \E kind \in DOMAIN UnixSignal : Signal(kind)
  BY <1>3 DEF Signal
<1>4. CASE (\E w \in Workers : Fork(w)) \/ (\E p \in Procs : Exit(p))
  BY <1>4 DEF Fork, Exit
<1> QED
  BY <1>1, <1>2, <1>3, <1>4 DEF GroupStep

\* Of the steps that send a signal only terminate's escalation sends SIGKILL,
\* and it waits for the timer that GraceInv ties to the SIGTERM.
LEMMA GraceStep == GroupTypeOK /\ GraceInv /\ GroupStep => SentAfterGrace
<1> SUFFICES ASSUME GroupTypeOK, GraceInv, GroupStep,
                    sent' # sent, sent'[Len(sent')] = "SIGKILL"
             PROVE  termAge >= Grace
  BY DEF SentAfterGrace
<1>1. \A sig : Killpg(sig) => sent'[Len(sent')] = sig
  BY DEF Killpg, GroupTypeOK
<1>2. CASE TerminateKill
  BY <1>2 DEF TerminateKill, GraceInv, GroupTypeOK, NotTerminated
<1>3. CASE Terminate
  BY <1>1, <1>3 DEF Terminate
<1>4. ASSUME NEW kind \in DOMAIN UnixSignal, Signal(kind) PROVE FALSE
  BY <1>1, <1>4 DEF Signal, UnixSignal
<1>5. ~ (\/ Spawn \/ Wait \/ TerminateExited \/ TerminateReaped \/ Elapse
         \/ (\E w \in Workers : Fork(w)) \/ (\E p \in Procs : Exit(p)))
  BY DEF Spawn, Wait, TerminateExited, TerminateReaped, Elapse, Fork, Exit
<1> QED
  BY <1>2, <1>3, <1>4, <1>5 DEF GroupStep, TerminateStep

\* Once a SIGKILL was sent to the group every member of it has one pending:
\* nobody can fork into it any more, and no other member is ever in it.
NobodyEscapes ==
  (\E i \in DOMAIN sent : sent[i] = "SIGKILL") => alive \subseteq doomed /\ child # "none"

\* A fork needs a member without a pending SIGKILL, a spawn a group never used.
LEMMA NobodyEscapesStep ==
  ASSUME GroupTypeOK, NobodyEscapes, op = "grace" => child # "none", GroupStep
  PROVE  NobodyEscapes'
<1> USE DEF NobodyEscapes
<1>1. CASE TerminateKill
  BY <1>1 DEF TerminateKill, Killpg
<1>2. \A sig : sig # "SIGKILL" /\ Killpg(sig) =>
        /\ doomed' = doomed
        /\ (\E i \in DOMAIN sent' : sent'[i] = "SIGKILL") => \E i \in DOMAIN sent : sent[i] = "SIGKILL"
  BY DEF Killpg, GroupTypeOK
<1>3. CASE Terminate
  BY <1>2, <1>3 DEF Terminate
<1>4. ASSUME NEW kind \in DOMAIN UnixSignal, Signal(kind) PROVE NobodyEscapes'
  <2>1. UnixSignal[kind] # "SIGKILL"
    BY DEF UnixSignal
  <2> QED BY <1>2, <1>4, <2>1 DEF Signal
<1>5. CASE Spawn
  BY <1>5 DEF Spawn
<1>6. CASE Wait \/ TerminateExited \/ TerminateReaped
  BY <1>6 DEF Wait, TerminateExited, TerminateReaped
<1>7. ASSUME NEW w \in Workers, Fork(w) PROVE NobodyEscapes'
  BY <1>7 DEF Fork
<1>8. ASSUME NEW p \in Procs, Exit(p) PROVE NobodyEscapes'
  BY <1>8 DEF Exit
<1>9. CASE Elapse
  BY <1>9 DEF Elapse
<1> QED
  BY <1>1, <1>3, <1>4, <1>5, <1>6, <1>7, <1>8, <1>9 DEF GroupStep, TerminateStep
=============================================================================
