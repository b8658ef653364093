--------------------------- MODULE SettingsStore ---------------------------
(***************************************************************************)
(* What a settings memory promises (misc/v_eprom/uhsdr_flash.c): a variable *)
(* keeps the value last stored, over power losses; a write that is under    *)
(* way when the power fails is either stored or not; a write that reports   *)
(* success is stored.                                                       *)
(***************************************************************************)
EXTENDS Integers

CONSTANTS Ids, Value, NotFound

VARIABLES store,    \* the value each variable reads back as
          pending,  \* the write under way, or <<>>
          result    \* outcome of the last finished write: "ok", "error", "none"

vars == <<store, pending, result>>

Init ==
  /\ store = [id \in Ids |-> NotFound]
  /\ pending = <<>> /\ result = "none"

Begin(id, v) ==
  /\ pending = <<>> /\ pending' = <<id, v>>
  /\ result' = "none" /\ UNCHANGED store

Succeed ==
  /\ pending # <<>> /\ pending' = <<>> /\ result' = "ok"
  /\ store' = [store EXCEPT ![pending[1]] = pending[2]]

Fail == pending # <<>> /\ pending' = <<>> /\ result' = "error" /\ UNCHANGED store

\* A value that is stored already need not be written.
AlreadyStored ==
  /\ pending = <<>> /\ result' = "ok"
  /\ UNCHANGED <<store, pending>>

PowerLoss == pending' = <<>> /\ result' = "none" /\ UNCHANGED store

Next == (\E id \in Ids, v \in Value : Begin(id, v)) \/ Succeed \/ Fail \/ AlreadyStored \/ PowerLoss

Spec == Init /\ [][Next]_vars
=============================================================================
