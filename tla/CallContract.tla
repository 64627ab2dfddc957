---------------------------- MODULE CallContract ----------------------------
(***************************************************************************)
(* What a tool call promises to the client that makes it, whatever the     *)
(* tool: it waits for its turn, at most Limit calls work at a time, only   *)
(* a working call changes the host, a call whose own checks refuse it has  *)
(* changed nothing, and once the client has its answer the call is over.   *)
(* HyperVHost is shown to implement this specification.                    *)
(***************************************************************************)
EXTENDS Naturals, FiniteSets

CONSTANTS Callers, \* the clients, each with one call at a time
          Limit    \* how many calls may work at once

VARIABLES phase,   \* [Callers -> {"idle", "waiting", "working", "closing", "lost"}]
          changed, \* [Callers -> BOOLEAN]: the call has changed the host
          excused, \* [Callers -> BOOLEAN]: it may be refused halfway
          told,    \* [Callers -> {"none", "ok", "refused", "failed"}]
          host     \* what the calls act on

Busy == {c \in Callers : phase[c] = "working"}

ContractInit ==
  /\ phase = [c \in Callers |-> "idle"]
  /\ changed = [c \in Callers |-> FALSE]
  /\ told = [c \in Callers |-> "none"]

(* A client calls a tool. *)
Ask(c) ==
  /\ phase[c] = "idle"
  /\ phase' = [phase EXCEPT ![c] = "waiting"]
  /\ changed' = [changed EXCEPT ![c] = FALSE]
  /\ told' = [told EXCEPT ![c] = "none"]
  /\ UNCHANGED host

(* A waiting call gets its turn; it gives it up between two scripts, and when
   all that is left to do is the service's own. *)
Begin(c) ==
  /\ phase[c] = "waiting" /\ Cardinality(Busy) < Limit
  /\ phase' = [phase EXCEPT ![c] = "working"]
  /\ UNCHANGED <<changed, told, host>>

Pause(c) ==
  /\ phase[c] \in {"working", "closing"}
  /\ \E p \in {"waiting", "closing"} : phase' = [phase EXCEPT ![c] = p]
  /\ UNCHANGED <<changed, told, host>>

(* A working call, or a script that outlived the service, changes the host. *)
Change(c) ==
  /\ phase[c] \in {"working", "closing", "lost"}
  /\ changed' = [changed EXCEPT ![c] = TRUE]
  /\ UNCHANGED <<phase, told>>

(* The client is answered, and the call is over. *)
Answer(c, what) ==
  /\ phase[c] # "idle"
  /\ what = "ok" => phase[c] \in {"working", "closing"}
  /\ what = "refused" => ~changed[c] \/ excused[c]
  /\ phase' = [phase EXCEPT ![c] = "idle"]
  /\ told' = [told EXCEPT ![c] = what]
  /\ changed' = [changed EXCEPT ![c] = FALSE]
  /\ UNCHANGED host

(* Checks made before the call waits refuse it on the spot. *)
TurnAway(c) ==
  /\ phase[c] = "idle"
  /\ told' = [told EXCEPT ![c] = "refused"]
  /\ UNCHANGED <<phase, changed, host>>

(* The service dies: the calls go unanswered, their scripts may run on. *)
Lose ==
  /\ phase' = [c \in Callers |-> IF phase[c] \in {"working", "lost"} THEN "lost" ELSE "idle"]
  /\ changed' = [c \in Callers |-> phase'[c] = "lost" /\ changed[c]]
  /\ told' = [c \in Callers |-> IF phase[c] = "idle" THEN told[c] ELSE "failed"]
  /\ UNCHANGED host

ContractNext ==
  \/ Lose
  \/ \E c \in Callers :
       \/ Ask(c) \/ Begin(c) \/ Pause(c) \/ Change(c) \/ TurnAway(c)
       \/ \E what \in {"ok", "refused", "failed"} : Answer(c, what)

ContractSpec == ContractInit /\ [][ContractNext]_<<phase, changed, told, host>>
=============================================================================
