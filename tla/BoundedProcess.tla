---------------------------- MODULE BoundedProcess ----------------------------
(* A run of a model provider's command line tool in a child process           *)
(* (research/bounded_subprocess.py, BoundedProcessRunner.run): the runner, the *)
(* threads that read the child's output and feed its input, and the child     *)
(* with one helper it may start.  The helper inherits the child's pipes and   *)
(* its process group, and may give up either.                                 *)
EXTENDS Naturals

CONSTANTS
  Limit,       \* maximum_stdout_bytes, in blocks that a read returns
  MaxBlocks    \* bound: blocks written to the pipe

ASSUME ProcessAssumption == Limit \in Nat /\ MaxBlocks \in Nat

VARIABLES
  runner,      \* where run() stands; what follows a termination; what it will raise
  child,       \* the process that was started
  helper,      \* a process that the child started
  pipe,        \* blocks written to the output pipe, and read from it
  buffer,      \* the blocks that were kept
  pump,        \* the thread that reads, which may have found too much
  feed,        \* the thread that writes the input and closes the pipe
  signalled    \* history: the group was sent a signal

processVars == <<runner, child, helper, pipe, buffer, pump, feed, signalled>>

ProcessTypeOK ==
  /\ runner \in [pc : {"poll", "term", "grace", "join", "close", "done"},
                 after : {"join", "close"},
                 error : {"none", "timeout", "overflow", "shutdown"}]
  /\ child \in {"running", "exited", "reaped"}
  /\ helper \in [is : {"none", "grouped", "away", "gone"}, holds : BOOLEAN]
  /\ pipe \in [written : 0..MaxBlocks, read : 0..MaxBlocks]
  /\ buffer \in 0..Limit
  /\ pump \in {"reading", "ended", "overflow"}
  /\ feed \in {"writing", "ended"}
  /\ signalled \in BOOLEAN

(* Popen with start_new_session, and the three threads.  The two output       *)
(* streams are alike, and one stands for both.                                *)
ProcessInit ==
  /\ runner = [pc |-> "poll", after |-> "join", error |-> "none"]
  /\ child = "running"
  /\ helper = [is |-> "none", holds |-> FALSE]
  /\ pipe = [written |-> 0, read |-> 0]
  /\ buffer = 0
  /\ pump = "reading" /\ feed = "writing"
  /\ signalled = FALSE

HelperLives == helper.is \in {"grouped", "away"}
Held == child = "running" \/ (HelperLives /\ helper.holds)
GroupEmpty == child = "reaped" /\ helper.is # "grouped"
MutThreadsEnded == feed = "ended"   \* a mutant: the reader is not joined
ThreadsEnded == pump # "reading" /\ feed = "ended"

-----------------------------------------------------------------------------
(* The child and its helper, which do as they like, and may ignore SIGTERM.   *)

Write ==
  /\ Held /\ pipe.written < MaxBlocks
  /\ pipe' = [pipe EXCEPT !.written = @ + 1]
  /\ UNCHANGED <<runner, child, helper, buffer, pump, feed, signalled>>

ChildExits ==
  /\ child = "running"
  /\ child' = "exited"
  /\ UNCHANGED <<runner, helper, pipe, buffer, pump, feed, signalled>>

(* A helper is started, leaves the group with setsid, or exits.               *)
Help ==
  /\ \/ /\ child = "running" /\ helper.is = "none"
        /\ \E holds \in BOOLEAN : helper' = [is |-> "grouped", holds |-> holds]
     \/ helper.is = "grouped" /\ helper' = [helper EXCEPT !.is = "away"]
     \/ HelperLives /\ helper' = [helper EXCEPT !.is = "gone"]
  /\ UNCHANGED <<runner, child, pipe, buffer, pump, feed, signalled>>

-----------------------------------------------------------------------------
(* The threads.                                                               *)

(* pump: a block within the limit is kept, the first one beyond it ends the   *)
(* thread, and so does the end of the file.                                   *)
Pump ==
  /\ pump = "reading"
  /\ \/ /\ pipe.read < pipe.written
        /\ pipe' = [pipe EXCEPT !.read = @ + 1]
        /\ IF buffer < Limit THEN buffer' = buffer + 1 /\ UNCHANGED pump
                             ELSE pump' = "overflow" /\ UNCHANGED buffer
     \/ /\ pipe.read = pipe.written /\ ~Held
        /\ pump' = "ended"
        /\ UNCHANGED <<pipe, buffer>>
  /\ UNCHANGED <<runner, child, helper, feed, signalled>>

(* write_stdin ends when all is taken, which nobody has to do, or the pipe is *)
(* broken, which is no error.                                                 *)
EndFeed ==
  /\ feed = "writing"
  /\ feed' = "ended"
  /\ UNCHANGED <<runner, child, helper, pipe, buffer, pump, signalled>>

BreakFeed == ~Held /\ EndFeed

-----------------------------------------------------------------------------
(* run().                                                                     *)

(* The loop.  poll() reaps a child that exited; a child that exits after it   *)
(* was polled is still found too late or too talkative.                       *)
PollChild ==
  /\ runner.pc = "poll"
  /\ \/ /\ child = "exited"
        /\ child' = "reaped"
        /\ runner' = [runner EXCEPT !.pc = "join"]
     \/ /\ pump = "overflow"
        /\ runner' = [runner EXCEPT !.pc = "term"]
        /\ UNCHANGED child
  /\ UNCHANGED <<helper, pipe, buffer, pump, feed, signalled>>

(* The wall-clock timeout.                                                    *)
Deadline ==
  /\ runner.pc = "poll"
  /\ runner' = [runner EXCEPT !.pc = "term", !.error = "timeout"]
  /\ UNCHANGED <<child, helper, pipe, buffer, pump, feed, signalled>>

(* terminate_process_group: SIGTERM to the group, if anybody is in it ...     *)
Terminate ==
  /\ runner.pc = "term"
  /\ runner' = [runner EXCEPT !.pc = IF GroupEmpty THEN runner.after ELSE "grace"]
  /\ signalled' = (signalled \/ ~GroupEmpty)
  /\ UNCHANGED <<child, helper, pipe, buffer, pump, feed>>

(* A mutant: the child alone is killed.                                       *)
MutKill ==
  /\ runner.pc = "grace"
  /\ child' = "reaped"
  /\ runner' = [runner EXCEPT !.pc = runner.after]
  /\ UNCHANGED <<helper, pipe, buffer, pump, feed, signalled>>

(* ... and SIGKILL after the grace period; the child is reaped.               *)
Kill ==
  /\ runner.pc = "grace"
  /\ child' = "reaped"
  /\ helper' = IF helper.is = "grouped" THEN [helper EXCEPT !.is = "gone"] ELSE helper
  /\ runner' = [runner EXCEPT !.pc = runner.after]
  /\ UNCHANGED <<pipe, buffer, pump, feed, signalled>>

(* An exception, which terminates the group (again) before it is passed on.   *)
Raise(error) ==
  runner' = [pc |-> "term", after |-> "close", error |-> error]

(* The joins, each of them bounded, and what they are followed by.            *)
Join ==
  /\ runner.pc = "join"
  /\ \/ runner.error = "timeout" /\ Raise("timeout")
     \/ /\ runner.error = "none" /\ ThreadsEnded
        /\ IF pump = "overflow" THEN Raise("overflow")
                                ELSE runner' = [runner EXCEPT !.pc = "done"]
     \/ runner.error = "none" /\ ~ThreadsEnded /\ Raise("shutdown")
  /\ UNCHANGED <<child, helper, pipe, buffer, pump, feed, signalled>>

(* Closing a pipe waits for the lock of a thread that is reading or writing   *)
(* it.                                                                        *)
ClosePipes ==
  /\ runner.pc = "close" /\ ThreadsEnded
  /\ runner' = [runner EXCEPT !.pc = "done"]
  /\ UNCHANGED <<child, helper, pipe, buffer, pump, feed, signalled>>

RunnerStep == PollChild \/ Deadline \/ Terminate \/ Kill \/ Join \/ ClosePipes

ProcessNext == RunnerStep \/ Pump \/ EndFeed \/ Write \/ ChildExits \/ Help

(* Only what this side does goes on by itself: the clock, the threads.        *)
ProcessFairness ==
  WF_processVars(RunnerStep) /\ WF_processVars(Pump) /\ WF_processVars(BreakFeed)

ProcessSpec == ProcessInit /\ [][ProcessNext]_processVars
ProcessFairSpec == ProcessSpec /\ ProcessFairness

-----------------------------------------------------------------------------
(* Properties.                                                                *)

Returned == runner.pc = "done" /\ runner.error = "none"
Raised == runner.pc = "done" /\ runner.error # "none"

(* What is returned is all that was written, by a child that was not          *)
(* interrupted, and nobody can add to it; after an exception neither the      *)
(* child nor anything in its group is left.                                   *)
ResultIsWhole ==
  /\ Returned => /\ ~signalled /\ ~Held
                 /\ buffer = pipe.written
  /\ Raised => GroupEmpty

(* A run ends, whatever the child does, unless a helper that left its group   *)
(* keeps the pipes open.                                                      *)
RunEnds == <>(runner.pc = "done" \/ (helper.is = "away" /\ helper.holds))

(* "a wall-clock timeout, and guaranteed process-group cleanup": not so, for  *)
(* such a helper and for one that is left behind by a child that succeeds.    *)
TimeoutIsKept == <>(runner.pc = "done")
GroupIsGone == runner.pc = "done" => helper.is # "grouped"
=============================================================================
