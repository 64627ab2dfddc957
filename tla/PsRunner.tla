------------------------------ MODULE PsRunner ------------------------------
(***************************************************************************)
(* internal/psrun: every tool that touches Hyper-V sends a PowerShell      *)
(* script to an interpreter process.  A semaphore caps the processes; a    *)
(* script is killed when its deadline passes, wherever it is, and keeps    *)
(* what it has done; the envelope reports a script that threw.             *)
(*                                                                         *)
(* A call is one tool call: its request, the point (pc) its script has     *)
(* reached, what the script has read (loc), and two history fields:        *)
(* touched, the script has changed the host, and alone, no other script    *)
(* changed it since this one began.  The scripts themselves, one action    *)
(* per cmdlet, are in the modules that extend this one.                    *)
(***************************************************************************)
EXTENDS Naturals, FiniteSets, Sequences, TLC

CONSTANTS Callers, \* the client sessions
          Slots    \* maxConcurrent: interpreter processes at once

ASSUME SlotsAssumption == Slots \in Nat \ {0}
ASSUME CallersAssumption == IsFiniteSet(Callers)

VARIABLES call,    \* [Callers -> the tool call of each client]
          held     \* occupied slots of the semaphore

runnerVars == <<call, held>>

Idle == [st |-> "idle", req |-> [op |-> "none"], pc |-> "", loc |-> {},
         told |-> "none", touched |-> FALSE, alone |-> TRUE]

(* "tail" is a tool whose script has ended and whose Go code goes on; "orphan"
   is a script whose service died: the process runs on with nobody to tell. *)
Scripting(c) == call[c].st \in {"running", "orphan"}
Req(c) == call[c].req
Loc(c) == call[c].loc
At(c, ops, pc) == Scripting(c) /\ Req(c).op \in ops /\ call[c].pc = pc

RunnerInit == call = [c \in Callers |-> Idle] /\ held = 0

(* The Go side of a tool accepts the request and asks for a slot, or refuses. *)
Submit(c, r, pc) ==
  /\ call[c].st = "idle"
  /\ call' = [call EXCEPT ![c] = [Idle EXCEPT !.st = "queued", !.req = r, !.pc = pc]]
  /\ UNCHANGED held

Refuse(c) ==
  /\ call[c].st = "idle"
  /\ call' = [call EXCEPT ![c].told = "refused"]
  /\ UNCHANGED held

(* case r.sem <- struct{}{} *)
TakeSlot(c) ==
  /\ call[c].st = "queued" /\ held < Slots
  /\ call' = [call EXCEPT ![c].st = "running"]
  /\ held' = held + 1

(* case <-ctx.Done() while still waiting for a slot *)
CancelQueued(c) ==
  /\ call[c].st = "queued"
  /\ call' = [call EXCEPT ![c] = [Idle EXCEPT !.told = "failed"]]
  /\ UNCHANGED held

(* The deferred <-r.sem of RunTimeout, on every way out of it. *)
Release(c) == held' = IF call[c].st = "running" THEN held - 1 ELSE held

Tell(c, what) ==
  call' = [call EXCEPT ![c] =
    [Idle EXCEPT !.told = IF call[c].st = "orphan" THEN "failed" ELSE what]]

(* classify: a script that throws HVERR names the code, a refusal; any other
   error of a cmdlet is a failure, whatever its text is matched to.  And the
   end of a script. *)
FailKeepingSlot(c) == Scripting(c) /\ Tell(c, "failed") /\ UNCHANGED held
Throw(c) == Scripting(c) /\ Tell(c, "refused") /\ Release(c)
Fail(c) == Scripting(c) /\ Tell(c, "failed") /\ Release(c)
Finish(c) == Scripting(c) /\ Tell(c, "ok") /\ Release(c)

(* The script ends well and the tool goes on: with another script, which
   waits for a slot of its own, or with code of the service. *)
ThenQueue(c, pc) ==
  /\ IF call[c].st = "orphan" THEN Tell(c, "failed")
     ELSE call' = [call EXCEPT ![c].st = "queued", ![c].pc = pc]
  /\ Release(c)

ThenTail(c, pc) ==
  /\ IF call[c].st = "orphan" THEN Tell(c, "failed")
     ELSE call' = [call EXCEPT ![c].st = "tail", ![c].pc = pc]
  /\ Release(c)

(* The deadline (or the client) kills the process at any point, even after its
   last cmdlet: runCtx.Err() is looked at before the output. *)
Kill(c) == Fail(c)

(* The script reads, and goes on to pc with what it read. *)
Goto(c, pc, loc) ==
  /\ call' = [call EXCEPT ![c].pc = pc, ![c].loc = loc]
  /\ UNCHANGED held

(* The script changes the host, which overtakes every other call that has begun
   to look at it. *)
Overtaken(d) ==
  IF Scripting(d) \/ call[d].touched \/ call[d].st = "tail"
  THEN [call[d] EXCEPT !.alone = FALSE] ELSE call[d]

Effect(c, pc, loc) ==
  /\ call' = [d \in Callers |->
       IF d = c THEN [call[c] EXCEPT !.pc = pc, !.loc = loc, !.touched = TRUE]
       ELSE Overtaken(d)]
  /\ UNCHANGED held

(* The same change made by nobody's script overtakes them all. *)
Overtake == call' = [d \in Callers |-> Overtaken(d)] /\ UNCHANGED held

(* The service process dies; the next one has a new, empty semaphore. *)
ServiceDies ==
  /\ call' = [c \in Callers |->
       CASE call[c].st = "idle" -> call[c]
         [] Scripting(c) -> [call[c] EXCEPT !.st = "orphan", !.told = "failed"]
         [] OTHER -> [Idle EXCEPT !.told = "failed"]]
  /\ held' = 0

(* Every slot in use is the slot of a running script: no way out of RunTimeout
   (cancelled, killed, thrown, ended) keeps one. *)
SlotsAreGivenBack ==
  /\ held = Cardinality({c \in Callers : call[c].st = "running"})
  /\ held <= Slots
=============================================================================
