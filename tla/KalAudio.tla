------------------------------ MODULE KalAudio ------------------------------
(***************************************************************************)
(* The audio child adapter (tools/kal_audio.c): a single-threaded host     *)
(* spawns capture and playback children on pipes, reads from and writes to *)
(* them, and closes them, escalating from a closed pipe over SIGTERM to    *)
(* SIGKILL.  Children are separate processes that may do anything at any   *)
(* time: exec late or in vain, stop reading, exit, catch SIGTERM.          *)
(*                                                                         *)
(* Time is counted in polls of waitpid(WNOHANG), data in blocks.           *)
(***************************************************************************)
EXTENDS Naturals

CONSTANTS
  Capture,      \* children spawned with KAL_AUDIO_CAPTURE
  Playback,     \* children spawned with KAL_AUDIO_PLAYBACK
  Host,         \* the process that spawns them
  PipeBlocks,   \* what a pipe holds
  WriteBlocks,  \* what one kal_audio_write writes
  Polls         \* timeout_ms / 2, rounded up: 0 for a zero timeout

Child == Capture \cup Playback

ASSUME ProcessesAssumption ==
  /\ Capture \cap Playback = {}
  /\ Host \notin Child
ASSUME SizesAssumption ==
  /\ PipeBlocks \in Nat \ {0}
  /\ WriteBlocks \in Nat \ {0}
  /\ Polls \in Nat

VARIABLES
  host,     \* where the host is, with which child, and how much it has left to do
  handle,   \* handle[c]: the struct kal_audio_child the host holds for c
  proc,     \* proc[c]: the process c
  ends,     \* ends[c]: the processes that hold the host's end of c's pipe
  pipe,     \* pipe[c]: the blocks in c's pipe
  signals,  \* signals[c]: the signals sent to the pid of c
  inherited \* the dispositions of SIGPIPE and SIGCHLD the host was started with

vars == <<host, handle, proc, ends, pipe, signals, inherited>>

Doing(where, c, left) == [at |-> where, child |-> c, left |-> left]

Idle == Doing("idle", Host, 0)

Disposition == {"default", "ignored"}

\* Nothing in the source sets either signal.
Init ==
  /\ host = Idle
  /\ inherited \in [sigpipe : Disposition, sigchld : Disposition]
  /\ handle = [c \in Child |-> "none"]
  /\ proc = [c \in Child |-> "none"]
  /\ ends = [c \in Child |-> {}]
  /\ pipe = [c \in Child |-> 0]
  /\ signals = [c \in Child |-> {}]

Alive(c) == proc[c] \in {"forked", "running"}

At(where, c) == host.at = where /\ host.child = c

----------------------------------------------------------------------------
(* The host.                                                               *)

\* What a fork leaves open: the child has a copy of every end the host holds.
Forked(c, own) == [d \in Child |-> IF d = c THEN own
                                   ELSE IF Host \in ends[d] THEN ends[d] \cup {c} ELSE ends[d]]

Spawn(c) ==
  /\ host.at = "idle"
  /\ proc[c] = "none"
  /\ proc' = [proc EXCEPT ![c] = "forked"]
  /\ ends' = Forked(c, {Host, c})
  /\ handle' = [handle EXCEPT ![c] = "open"]
  /\ UNCHANGED <<host, pipe, signals, inherited>>

\* No memory for the handle: both ends are closed, the child is killed and awaited.
SpawnAbandoned(c) ==
  /\ host.at = "idle"
  /\ proc[c] = "none"
  /\ proc' = [proc EXCEPT ![c] = "forked"]
  /\ ends' = Forked(c, {c})
  /\ signals' = [signals EXCEPT ![c] = {"KILL"}]
  /\ host' = Doing("abandoning", c, 0)
  /\ UNCHANGED <<handle, pipe, inherited>>

\* Reads and writes block.
Read(c) ==
  /\ host.at = "idle"
  /\ c \in Capture /\ handle[c] = "open"
  /\ host' = Doing("reading", c, 0)
  /\ UNCHANGED <<handle, proc, ends, pipe, signals, inherited>>

\* With a block, or with the end of the stream once the child is gone.
ReadReturns(c) ==
  /\ At("reading", c)
  /\ pipe[c] > 0 \/ ~Alive(c)
  /\ pipe' = [pipe EXCEPT ![c] = IF pipe[c] > 0 THEN @ - 1 ELSE 0]
  /\ host' = Idle
  /\ UNCHANGED <<handle, proc, ends, signals, inherited>>

Write(c) ==
  /\ host.at = "idle"
  /\ c \in Playback /\ handle[c] = "open"
  /\ host' = Doing("writing", c, WriteBlocks)
  /\ UNCHANGED <<handle, proc, ends, pipe, signals, inherited>>

\* Mutant: the loop runs once more after the last block.
WriteOneMore(c) ==
  /\ At("writing", c)
  /\ Alive(c)
  /\ pipe[c] < PipeBlocks
  /\ pipe' = [pipe EXCEPT ![c] = @ + 1]
  /\ host' = Doing(host.at, c, host.left - 1)
  /\ UNCHANGED <<handle, proc, ends, signals, inherited>>

WriteBlock(c) ==
  /\ At("writing", c)
  /\ Alive(c)
  /\ pipe[c] < PipeBlocks
  /\ pipe' = [pipe EXCEPT ![c] = @ + 1]
  /\ host' = IF host.left = 1 THEN Idle ELSE Doing(host.at, c, host.left - 1)
  /\ UNCHANGED <<handle, proc, ends, signals, inherited>>

\* The reader is gone: SIGPIPE, or EPIPE and -1 where the signal is ignored.
WriteFails(c) ==
  /\ At("writing", c)
  /\ ~Alive(c)
  /\ IF inherited.sigpipe = "ignored"
       THEN /\ host' = Idle
            /\ UNCHANGED ends
       ELSE /\ host' = Doing("dead", Host, 0)
            /\ ends' = [d \in Child |-> ends[d] \ {Host}]
  /\ UNCHANGED <<handle, proc, pipe, signals, inherited>>

Close(c) ==
  /\ host.at = "idle"
  /\ handle[c] = "open"
  /\ handle' = [handle EXCEPT ![c] = "closing"]
  /\ ends' = [ends EXCEPT ![c] = @ \ {Host}]
  /\ host' = Doing("grace", c, Polls)
  /\ UNCHANGED <<proc, pipe, signals, inherited>>

\* waitpid returns the pid.
Reap(c) ==
  /\ proc[c] = "zombie"
  /\ proc' = [proc EXCEPT ![c] = "gone"]

\* Mutant: the flag that waitpid has succeeded is not looked at afterwards.
PollForgetful(c) ==
  /\ At("grace", c) \/ At("term", c)
  /\ host.left > 0
  /\ host' = Doing(host.at, c, host.left - 1)
  /\ IF proc[c] = "zombie" THEN Reap(c) ELSE UNCHANGED proc
  /\ UNCHANGED <<handle, ends, pipe, signals, inherited>>

\* It has ended, it has not, or there is no such child: the loop ends early.
Poll(c) ==
  /\ At("grace", c) \/ At("term", c)
  /\ host.left > 0
  /\ \/ /\ Reap(c)
        /\ host' = Idle
        /\ handle' = [handle EXCEPT ![c] = "freed"]
     \/ /\ Alive(c)
        /\ host' = Doing(host.at, c, host.left - 1)
        /\ UNCHANGED <<proc, handle>>
     \/ /\ proc[c] = "gone"
        /\ host' = Doing(host.at, c, 0)
        /\ UNCHANGED <<proc, handle>>
  /\ UNCHANGED <<ends, pipe, signals, inherited>>

Terminate(c) ==
  /\ At("grace", c)
  /\ host.left = 0
  /\ signals' = [signals EXCEPT ![c] = @ \cup {"TERM"}]
  /\ host' = Doing("term", c, Polls)
  /\ UNCHANGED <<handle, proc, ends, pipe, inherited>>

\* Mutant: SIGTERM again.
KillGently(c) ==
  /\ At("term", c)
  /\ host.left = 0
  /\ signals' = [signals EXCEPT ![c] = @ \cup {"TERM"}]
  /\ host' = Doing("kill", c, 0)
  /\ UNCHANGED <<handle, proc, ends, pipe, inherited>>

Kill(c) ==
  /\ At("term", c)
  /\ host.left = 0
  /\ signals' = [signals EXCEPT ![c] = @ \cup {"KILL"}]
  /\ host' = Doing("kill", c, 0)
  /\ UNCHANGED <<handle, proc, ends, pipe, inherited>>

\* Mutant: the killed child is not waited for.
ReturnAtOnce(c) ==
  /\ At("kill", c) \/ At("abandoning", c)
  /\ host' = Idle
  /\ handle' = [handle EXCEPT ![c] = "freed"]
  /\ UNCHANGED <<proc, ends, pipe, signals, inherited>>

\* The blocking waitpid after SIGKILL, in kal_audio_close and in kal_audio_spawn.
AwaitKilled(c) ==
  /\ At("kill", c) \/ At("abandoning", c)
  /\ Reap(c)
  /\ host' = Idle
  /\ handle' = [handle EXCEPT ![c] = "freed"]
  /\ UNCHANGED <<ends, pipe, signals, inherited>>

\* That waitpid returns -1, and so does kal_audio_close or kal_audio_spawn.
GivesUp(c) ==
  /\ At("kill", c) \/ At("abandoning", c)
  /\ host' = Idle
  /\ handle' = [handle EXCEPT ![c] = "lost"]
  /\ UNCHANGED <<proc, ends, pipe, signals, inherited>>

\* There is no such child (ECHILD); a handler of the host has run meanwhile (EINTR).
AwaitFails(c) == proc[c] = "gone" /\ GivesUp(c)
AwaitInterrupted(c) == proc[c] # "gone" /\ GivesUp(c)

----------------------------------------------------------------------------
(* The children.                                                           *)

\* Mutant: set_cloexec is forgotten.
HeldAfterExecInherited(c) == [d \in Child |-> IF d = c THEN ends[d] \ {c} ELSE ends[d]]

\* The child closes the host's end of its own pipe; the ends of other children are
\* closed on exec.
HeldAfterExec(c) == [d \in Child |-> ends[d] \ {c}]

Exec(c) ==
  /\ proc[c] = "forked"
  /\ proc' = [proc EXCEPT ![c] = "running"]
  /\ ends' = HeldAfterExec(c)
  /\ UNCHANGED <<host, handle, pipe, signals, inherited>>

\* Nobody needs to wait for the children of a process that ignores SIGCHLD.
Dies(c) ==
  /\ proc' = [proc EXCEPT ![c] = IF inherited.sigchld = "ignored" THEN "gone" ELSE "zombie"]
  /\ ends' = [d \in Child |-> ends[d] \ {c}]
  /\ UNCHANGED <<host, handle, pipe, signals, inherited>>

\* dup2 or execvp fails: exit status 127.
ExecFails(c) == proc[c] = "forked" /\ Dies(c)

Exits(c) == proc[c] = "running" /\ Dies(c)

\* SIGTERM takes effect; a child may also catch it.
Terminated(c) == Alive(c) /\ "TERM" \in signals[c] /\ Dies(c)

Killed(c) == Alive(c) /\ "KILL" \in signals[c] /\ Dies(c)

\* A capture child writes a block, a playback child reads one.
Streams(c) ==
  /\ proc[c] = "running"
  /\ \/ c \in Capture /\ ends[c] # {} /\ pipe[c] < PipeBlocks /\ pipe' = [pipe EXCEPT ![c] = @ + 1]
     \/ c \in Playback /\ pipe[c] > 0 /\ pipe' = [pipe EXCEPT ![c] = @ - 1]
  /\ UNCHANGED <<host, handle, proc, ends, signals, inherited>>

----------------------------------------------------------------------------

HostStep(c) ==
  \/ Spawn(c) \/ SpawnAbandoned(c)
  \/ Read(c) \/ ReadReturns(c) \/ Write(c) \/ WriteBlock(c) \/ WriteFails(c)
  \/ Close(c) \/ Poll(c) \/ Terminate(c) \/ Kill(c)
  \/ AwaitKilled(c) \/ AwaitFails(c) \/ AwaitInterrupted(c)

Next == \E c \in Child :
  \/ HostStep(c)
  \/ Exec(c) \/ ExecFails(c) \/ Exits(c) \/ Terminated(c) \/ Killed(c) \/ Streams(c)

Spec == Init /\ [][Next]_vars

\* What the operating system guarantees: the host inside kal_audio_close or the
\* abandoned spawn is scheduled, a forked child gets as far as its exec, SIGKILL
\* takes effect.  No child is assumed to read, to write, to exit or to heed SIGTERM,
\* and nothing to interrupt a wait.
Fairness ==
  \A c \in Child :
    /\ WF_vars(Poll(c) \/ Terminate(c) \/ Kill(c) \/ AwaitKilled(c) \/ AwaitFails(c))
    /\ WF_vars(Exec(c) \/ ExecFails(c))
    /\ WF_vars(Killed(c))

FairSpec == Spec /\ Fairness

----------------------------------------------------------------------------
(* Properties.                                                             *)

Closing == {"grace", "term", "kill", "abandoning"}

\* Every variable keeps its type, a pipe stays within its capacity.
TypeOK ==
  /\ host \in [at : {"idle", "reading", "writing", "dead"} \cup Closing, child : Child \cup {Host},
               left : Nat]
  /\ inherited \in [sigpipe : Disposition, sigchld : Disposition]
  /\ handle \in [Child -> {"none", "open", "closing", "freed", "lost"}]
  /\ proc \in [Child -> {"none", "forked", "running", "zombie", "gone"}]
  /\ ends \in [Child -> SUBSET (Child \cup {Host})]
  /\ pipe \in [Child -> 0 .. PipeBlocks]
  /\ signals \in [Child -> SUBSET {"TERM", "KILL"}]

\* Once kal_audio_close has returned 0 the child is reaped, and no descriptor of it is
\* open in the host whatever it returned.  A child that close, or a spawn that failed,
\* could not wait for has been sent SIGKILL: nothing goes on running unattended.
NothingLeftBehind ==
  \A c \in Child :
    /\ handle[c] = "freed" => proc[c] = "gone"
    /\ handle[c] = "lost" => "KILL" \in signals[c]
    /\ Host \in ends[c] => handle[c] = "open"
    /\ proc[c] # "none" /\ host.at = "idle" => handle[c] \in {"open", "freed", "lost"}

\* A signal is only ever sent to a pid that still is the child's: never to one that
\* has been waited for, which the system may have given to another process.  A host
\* that ignores SIGCHLD has no such promise: its children are gone without a wait.
SignalsReachTheChild ==
  [][inherited.sigchld = "default" =>
       \A c \in Child : signals'[c] # signals[c] =>
         proc'[c] \in {"forked", "running", "zombie"}]_vars

\* Teardown never blocks the host for good, whatever the child does.
CloseReturns == host.at \in Closing ~> host.at = "idle"

\* "A closed pipe alone should end the child": the end that kal_audio_close closes is
\* soon open nowhere else, so the child sees the end of its stream while other
\* children go on.
PipeReallyCloses ==
  \A c \in Child : handle[c] = "closing" ~> ends[c] = {}

=============================================================================
