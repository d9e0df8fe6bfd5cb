--------------------------- MODULE KalAudioProofs ---------------------------
(* Teardown of audio children (KalAudio) for any number of children, any   *)
(* pipe and any timeout.                                                   *)
EXTENDS KalAudio, TLAPS

NotReaped == {"forked", "running", "zombie"}

\* c can still be waited for, or needs no waiting for.
Awaited(c) ==
  proc[c] \in NotReaped \/ (proc[c] = "gone" /\ inherited.sigchld = "ignored")

\* What the handle says of c agrees with the process and with what the host is doing.
Agrees(c) ==
  /\ handle[c] = "none" => proc[c] = "none" \/ At("abandoning", c)
  /\ handle[c] = "open" => Awaited(c)
  /\ handle[c] = "closing" => /\ Awaited(c)
                              /\ host.child = c
                              /\ host.at \in {"grace", "term", "kill"}
  /\ handle[c] = "freed" => proc[c] = "gone"
  /\ handle[c] = "lost" => "KILL" \in signals[c] /\ proc[c] # "none"
  /\ host.child = c /\ host.at \in {"grace", "term", "kill"} => handle[c] = "closing"
  /\ At("kill", c) \/ At("abandoning", c) => "KILL" \in signals[c]
  /\ At("abandoning", c) => Awaited(c) /\ handle[c] = "none"
  /\ Host \in ends[c] => handle[c] = "open"

WritesSomething == host.at = "writing" => host.left > 0

\* NothingLeftBehind by itself is not inductive: that the child about to be freed is
\* the one just reaped is what Agrees adds.
IInv == TypeOK /\ WritesSomething /\ \A c \in Child : Agrees(c)

\* In its initial states the host holds nothing.
LEMMA InitInv == Init => IInv
<1> SUFFICES ASSUME Init PROVE IInv OBVIOUS
<1> USE DEF Init, Doing, Idle, Disposition
<1>1. TypeOK BY SizesAssumption DEF TypeOK
<1>2. ASSUME NEW c \in Child PROVE Agrees(c)
  BY <1>2, ProcessesAssumption DEF Agrees, At, Awaited
<1> QED BY <1>1, <1>2 DEF IInv, WritesSomething

\* A step of the host keeps handle, process and host in agreement.
LEMMA HostInv == ASSUME IInv, NEW c \in Child, HostStep(c) PROVE IInv'
<1> USE ProcessesAssumption, SizesAssumption
      DEF IInv, TypeOK, Agrees, Awaited, At, NotReaped, Closing, Alive, Doing, Idle,
          WritesSomething, Disposition
<1>1. CASE Spawn(c)          BY <1>1 DEF Spawn, Forked
<1>2. CASE SpawnAbandoned(c) BY <1>2 DEF SpawnAbandoned, Forked
<1>3. CASE Read(c)           BY <1>3 DEF Read
<1>4. CASE ReadReturns(c)
  <2>1. pipe[c] \in 0 .. PipeBlocks /\ pipe' = [pipe EXCEPT ![c] = pipe'[c]]
    BY <1>4 DEF ReadReturns
  <2>2. pipe'[c] \in 0 .. PipeBlocks BY <1>4, <2>1 DEF ReadReturns
  <2> QED BY <1>4, <2>1, <2>2 DEF ReadReturns
<1>5. CASE Write(c)          BY <1>5 DEF Write
<1>6. CASE WriteBlock(c)     BY <1>6 DEF WriteBlock
<1>7. CASE WriteFails(c)     BY <1>7 DEF WriteFails
<1>8. CASE Close(c)          BY <1>8 DEF Close
<1>9. CASE Poll(c)           BY <1>9 DEF Poll, Reap
<1>10. CASE Terminate(c)     BY <1>10 DEF Terminate
<1>11. CASE Kill(c)          BY <1>11 DEF Kill
<1>12. CASE AwaitKilled(c)   BY <1>12 DEF AwaitKilled, Reap
<1>13. CASE AwaitFails(c) \/ AwaitInterrupted(c)
  BY <1>13 DEF AwaitFails, AwaitInterrupted, GivesUp
<1> QED BY HostStep(c), <1>1, <1>2, <1>3, <1>4, <1>5, <1>6, <1>7, <1>8, <1>9, <1>10,
           <1>11, <1>12, <1>13 DEF HostStep

\* So does a step of a child.
LEMMA ChildInv ==
  ASSUME IInv, NEW c \in Child,
         \/ Exec(c) \/ ExecFails(c) \/ Exits(c) \/ Terminated(c) \/ Killed(c) \/ Streams(c)
  PROVE  IInv'
<1> USE ProcessesAssumption, SizesAssumption
      DEF IInv, TypeOK, Agrees, Awaited, At, NotReaped, Closing, Alive, Doing, Idle,
          WritesSomething, Disposition
<1>1. CASE Exec(c)    BY <1>1 DEF Exec, HeldAfterExec
<1>2. CASE Alive(c) /\ Dies(c) BY <1>2 DEF Dies
<1>3. CASE Streams(c) BY <1>3 DEF Streams
<1> QED BY <1>1, <1>2, <1>3 DEF ExecFails, Exits, Terminated, Killed

\* Every step keeps the invariant, and with it the property of signals.
LEMMA NextInv == ASSUME IInv, [Next]_vars PROVE IInv'
<1>1. CASE Next BY <1>1, HostInv, ChildInv DEF Next
<1>2. CASE UNCHANGED vars
  BY <1>2 DEF IInv, TypeOK, WritesSomething, Agrees, Awaited, At, NotReaped, vars
<1> QED BY <1>1, <1>2

\* The inductive invariant holds in every reachable state.
THEOREM Invariant == Spec => []IInv
  BY InitInv, NextInv, PTL DEF Spec

\* Handles, processes, descriptors, pipes and signals keep their types (KalAudio's
\* TypeOK).
THEOREM TypeCorrect == Spec => []TypeOK
<1>1. IInv => TypeOK BY DEF IInv
<1> QED BY <1>1, Invariant, PTL

\* However the children behave, kal_audio_close and a failed kal_audio_spawn return with
\* the descriptors of the child closed in the host, and with the child reaped or, when
\* the final wait was interrupted or failed, sent SIGKILL and its handle gone.
THEOREM CleanTeardown == Spec => []NothingLeftBehind
<1>1. IInv => NothingLeftBehind
  BY DEF IInv, TypeOK, Agrees, At, NothingLeftBehind
<1> QED BY <1>1, Invariant, PTL

\* SIGTERM and SIGKILL go to children that have not been waited for, unless the host
\* was started with SIGCHLD ignored.
THEOREM SignalsWellAimed == Spec => SignalsReachTheChild
<1> DEFINE Aimed == \A c \in Child : signals'[c] # signals[c] => proc'[c] \in NotReaped
<1>1. ASSUME IInv, [Next]_vars, inherited.sigchld = "default",
             NEW c \in Child, signals'[c] # signals[c]
      PROVE  proc'[c] \in NotReaped
  <2> USE DEF IInv, TypeOK, Agrees, Awaited, At, NotReaped
  <2>1. PICK d \in Child : HostStep(d)
    BY <1>1 DEF Next, vars, Exec, ExecFails, Exits, Terminated, Killed, Dies, Streams
  <2>2. SpawnAbandoned(d) \/ Terminate(d) \/ Kill(d)
    BY <1>1, <2>1 DEF HostStep, Spawn, Read, ReadReturns, Write, WriteBlock, WriteFails, Close,
                      Poll, AwaitKilled, AwaitFails, AwaitInterrupted, GivesUp
  <2>3. d = c
    BY <1>1, <2>2 DEF SpawnAbandoned, Terminate, Kill
  <2>4. ~(proc[c] = "gone" /\ inherited.sigchld = "ignored")
    BY <1>1
  <2> QED BY <1>1, <2>2, <2>3, <2>4 DEF SpawnAbandoned, Terminate, Kill
<1>2. IInv /\ [Next]_vars => [inherited.sigchld = "default" => Aimed]_vars
  BY <1>1 DEF vars
<1> QED BY <1>2, Invariant, PTL DEF Spec, SignalsReachTheChild, NotReaped

\* Of the children only one that has not got as far as its exec holds the host's end of a
\* pipe, its own or that of another child.
HeldBeforeExec == \A c, d \in Child : d \in ends[c] => proc[d] = "forked"

\* Only the host's own copy is ever handed on.
NothingHandedOn ==
  \A c \in Child : proc[c] # "none" /\ Host \notin ends[c] => ends'[c] \subseteq ends[c]

\* set_cloexec leaves no descriptor behind an exec.
LEMMA HeldInv ==
  ASSUME IInv, HeldBeforeExec, NEW c \in Child,
         \/ HostStep(c) \/ Exec(c) \/ ExecFails(c) \/ Exits(c) \/ Terminated(c) \/ Killed(c)
         \/ Streams(c)
  PROVE  HeldBeforeExec' /\ NothingHandedOn
<1> USE ProcessesAssumption DEF IInv, TypeOK, HeldBeforeExec, NothingHandedOn
<1>1. CASE Spawn(c)          BY <1>1 DEF Spawn, Forked
<1>2. CASE SpawnAbandoned(c) BY <1>2 DEF SpawnAbandoned, Forked
<1>3. CASE Close(c)          BY <1>3 DEF Close
<1>4. CASE WriteFails(c)     BY <1>4 DEF WriteFails
<1>5. CASE Poll(c) \/ AwaitKilled(c)
  BY <1>5 DEF Poll, AwaitKilled, Reap
<1>6. CASE \/ Read(c) \/ ReadReturns(c) \/ Write(c) \/ WriteBlock(c) \/ Terminate(c) \/ Kill(c)
           \/ AwaitFails(c) \/ AwaitInterrupted(c) \/ Streams(c)
  BY <1>6 DEF Read, ReadReturns, Write, WriteBlock, Terminate, Kill, AwaitFails,
              AwaitInterrupted, GivesUp, Streams
<1>7. CASE Exec(c)  BY <1>7 DEF Exec, HeldAfterExec
<1>8. CASE Dies(c)  BY <1>8 DEF Dies
<1> QED BY <1>1, <1>2, <1>3, <1>4, <1>5, <1>6, <1>7, <1>8
        DEF HostStep, ExecFails, Exits, Terminated, Killed

\* The safety half of PipeReallyCloses: from the moment kal_audio_close closes its end of a
\* pipe nobody gets a copy of it again, and whoever still has one is a child before its
\* exec, which takes the copy away.  No sibling keeps the pipe of another child open.
THEOREM ClosedEndsVanish == Spec => []HeldBeforeExec /\ [][NothingHandedOn]_vars
<1>1. Init => IInv /\ HeldBeforeExec  BY InitInv DEF Init, HeldBeforeExec
<1>2. IInv /\ HeldBeforeExec /\ [Next]_vars => (IInv /\ HeldBeforeExec)' /\ [NothingHandedOn]_vars
  <2> SUFFICES ASSUME IInv, HeldBeforeExec, [Next]_vars
               PROVE  HeldBeforeExec' /\ [NothingHandedOn]_vars
    BY NextInv
  <2>1. CASE Next  BY <2>1, HeldInv DEF Next
  <2>2. CASE UNCHANGED vars  BY <2>2 DEF vars, HeldBeforeExec
  <2> QED  BY <2>1, <2>2
<1> QED  BY <1>1, <1>2, PTL DEF Spec
=============================================================================
