--------------------------- MODULE SnsNamingClient ---------------------------
(***************************************************************************)
(* melon::naming::SnsNamingClient (src/melon/naming/                       *)
(* consul_naming_service.cc): registers this process as a peer with the    *)
(* sns discovery server, keeps the registration alive from a background    *)
(* fiber (periodic_renew) and cancels it in the destructor.  Any thread    *)
(* may call register_peer.                                                 *)
(*                                                                         *)
(* The server holds the peer's entry or not (srv), may expire it at any    *)
(* time, and answers AlreadyExists, taken as success, to a second          *)
(* registry.  Every RPC may fail before it reaches the server, or be       *)
(* applied with its response lost.                                         *)
(***************************************************************************)
EXTENDS Integers

CONSTANTS
    Threads,     \* threads that call register_peer once each
    Threshold    \* FLAGS_sns_reregister_threshold

ASSUME Threshold \in Nat

VARIABLES
    registered,  \* _registered
    params,      \* _params: "unset" or "valid"
    pc,          \* pc[t]: where thread t is in register_peer
    ret,         \* ret[t]: register_peer returned 0 ("ok") or -1 ("err"); "none" before
    fpc,         \* the periodic_renew fiber's program counter ("none": _th
                 \* is INVALID_FIBER)
    fstopped,    \* fiber_stop was called on _th
    errs,        \* consecutive_renew_error
    srv,         \* the server's entry for this peer: "absent" or "present"
    cancelled,   \* a do_cancel reached the server
    mpc          \* the destructor's program counter

vars == <<registered, params, pc, ret, fpc, fstopped, errs, srv, cancelled, mpc>>

FiberPcs == {"none", "init_sleep", "loop", "rereg", "rereg_rpc", "rereg_sleep", "renew", "sleep", "exit"}

(* consecutive_renew_error is only compared with == Threshold, so every    *)
(* value above Threshold behaves alike and is kept as Threshold + 1.       *)
Past == Threshold + 1

(* The constructor: _th = INVALID_FIBER, _registered = false.              *)
Init ==
    /\ registered = FALSE
    /\ params = "unset"
    /\ pc = [t \in Threads |-> "idle"]
    /\ ret = [t \in Threads |-> "none"]
    /\ fpc = "none"
    /\ fstopped = FALSE
    /\ errs = 0
    /\ srv = "absent"
    /\ cancelled = FALSE
    /\ mpc = "idle"

Return(t, v) == /\ pc' = [pc EXCEPT ![t] = "done"]
                /\ ret' = [ret EXCEPT ![t] = v]

(***************************************************************************)
(* The RPCs, as the server sees them.  do_register succeeds once applied   *)
(* and answered (OK, or AlreadyExists when the entry was there); it fails  *)
(* when not applied, or applied with the answer lost.  do_renew (update)   *)
(* succeeds only on an entry that exists and never creates one.            *)
(* do_cancel removes the entry if it reaches the server; it fails when the *)
(* channel cannot be made, the RPC fails (applied or not) or the server    *)
(* answers an error.                                                       *)
(***************************************************************************)
RegistryOk == srv' = "present"
RegistryFails == srv' \in {srv, "present"}
UpdateOk == srv = "present" /\ UNCHANGED srv
CancelOk == srv' = "absent"
CancelFails == srv' \in {srv, "absent"}

(***************************************************************************)
(* register_peer, the test-and-set: if _registered was already true        *)
(* (relaxed load, or the exchange returns true), return 0.                 *)
(***************************************************************************)
register_call(t) ==
    /\ mpc = "idle"
    /\ pc[t] = "idle"
    /\ \/ /\ registered
          /\ Return(t, "ok")
          /\ UNCHANGED registered
       \/ /\ ~registered
          /\ registered' = TRUE
          /\ pc' = [pc EXCEPT ![t] = "validate"]
          /\ UNCHANGED ret
    /\ UNCHANGED <<params, fpc, fstopped, errs, srv, cancelled, mpc>>

(* is_valid(params) fails (-1) or _params is stored.                       *)
validate(t) ==
    /\ pc[t] = "validate"
    /\ \/ /\ Return(t, "err")
          /\ UNCHANGED params
       \/ /\ params' = "valid"
          /\ pc' = [pc EXCEPT ![t] = "register"]
          /\ UNCHANGED ret
    /\ UNCHANGED <<registered, fpc, fstopped, errs, srv, cancelled, mpc>>

(* do_register(): on failure register_peer returns -1.                     *)
register_rpc(t) ==
    /\ pc[t] = "register"
    /\ \/ /\ RegistryOk
          /\ pc' = [pc EXCEPT ![t] = "start"]
          /\ UNCHANGED ret
       \/ /\ RegistryFails
          /\ Return(t, "err")
    /\ UNCHANGED <<registered, params, fpc, fstopped, errs, cancelled, mpc>>

(* fiber_start_background(periodic_renew) succeeds (0) or fails (-1).      *)
start(t) ==
    /\ pc[t] = "start"
    /\ \/ /\ fpc' = "init_sleep"
          /\ Return(t, "ok")
       \/ /\ Return(t, "err")
          /\ UNCHANGED fpc
    /\ UNCHANGED <<registered, params, fstopped, errs, srv, cancelled, mpc>>

Caller(t) == register_call(t) \/ validate(t) \/ register_rpc(t) \/ start(t)
Fiber(to) == fpc' = to

(* The first fiber_usleep returns ESTOP if the fiber was stopped.          *)
init_sleep ==
    /\ fpc = "init_sleep"
    /\ Fiber(IF fstopped THEN "exit" ELSE "loop")
    /\ UNCHANGED <<errs, srv>>

(* while (!fiber_stopped(...)), then the re-register test.                 *)
loop ==
    /\ fpc = "loop"
    /\ \/ fstopped /\ Fiber("exit")
       \/ ~fstopped /\ errs = Threshold /\ Fiber("rereg")
       \/ ~fstopped /\ errs # Threshold /\ Fiber("renew")
    /\ UNCHANGED <<errs, srv>>

(* The inner loop "register until succeed or Cancel is called": on leaving *)
(* it, consecutive_renew_error = 0 and a renew follows.                    *)
rereg ==
    /\ fpc = "rereg"
    /\ \/ fstopped /\ Fiber("renew") /\ errs' = 0
       \/ ~fstopped /\ Fiber("rereg_rpc") /\ UNCHANGED errs
    /\ UNCHANGED srv

rereg_ok ==
    /\ fpc = "rereg_rpc"
    /\ RegistryOk
    /\ Fiber("renew") /\ errs' = 0

rereg_fail ==
    /\ fpc = "rereg_rpc"
    /\ RegistryFails
    /\ Fiber("rereg_sleep") /\ UNCHANGED errs

(* fiber_usleep(renew interval), its result ignored.                       *)
rereg_sleep ==
    /\ fpc = "rereg_sleep"
    /\ Fiber("rereg")
    /\ UNCHANGED <<errs, srv>>

(* Mutant of renew: a failed renew is not counted.                         *)
renew_uncounted ==
    /\ fpc = "renew"
    /\ \/ UpdateOk /\ errs' = 0 /\ Fiber("sleep")
       \/ UNCHANGED <<srv, errs>> /\ Fiber("loop")

(* do_renew(): on success reset the count and sleep, on failure count it   *)
(* and go round the loop at once.                                          *)
renew ==
    /\ fpc = "renew"
    /\ \/ UpdateOk /\ errs' = 0 /\ Fiber("sleep")
       \/ /\ UNCHANGED srv
          /\ errs' = IF errs >= Threshold THEN Past ELSE errs + 1
          /\ Fiber("loop")

sleep ==
    /\ fpc = "sleep"
    /\ Fiber("loop")
    /\ UNCHANGED <<errs, srv>>

FiberStep ==
    /\ \/ init_sleep \/ loop \/ rereg \/ rereg_ok \/ rereg_fail
       \/ rereg_sleep \/ renew \/ sleep
    /\ UNCHANGED <<registered, params, pc, ret, fstopped, cancelled, mpc>>

(* The server drops the entry (its lease lapsed).                          *)
expire ==
    /\ srv = "present"
    /\ srv' = "absent"
    /\ UNCHANGED <<registered, params, pc, ret, fpc, fstopped, errs, cancelled, mpc>>

(* ~SnsNamingClient: if _registered, fiber_stop(_th) (a no-op on           *)
(* INVALID_FIBER), fiber_join(_th), then do_cancel().                      *)
destroy ==
    /\ mpc = "idle"
    /\ \A t \in Threads : pc[t] \in {"idle", "done"}
    /\ \/ registered /\ fstopped' = TRUE /\ mpc' = "join"
       \/ ~registered /\ mpc' = "done" /\ UNCHANGED fstopped
    /\ UNCHANGED <<registered, params, pc, ret, fpc, errs, srv, cancelled>>

(* Mutant of destroy_join: do_cancel() without waiting for the fiber.      *)
destroy_join_skipped ==
    /\ mpc = "join"
    /\ mpc' = "cancel"
    /\ UNCHANGED <<registered, params, pc, ret, fpc, fstopped, errs, srv, cancelled>>

destroy_join ==
    /\ mpc = "join"
    /\ fpc \in {"none", "exit"}
    /\ mpc' = "cancel"
    /\ UNCHANGED <<registered, params, pc, ret, fpc, fstopped, errs, srv, cancelled>>

destroy_cancel ==
    /\ mpc = "cancel"
    /\ mpc' = "done"
    /\ \/ CancelOk /\ cancelled' = TRUE
       \/ CancelFails /\ UNCHANGED cancelled
    /\ UNCHANGED <<registered, params, pc, ret, fpc, fstopped, errs>>

Next ==
    \/ \E t \in Threads : Caller(t)
    \/ FiberStep
    \/ expire
    \/ destroy \/ destroy_join \/ destroy_cancel

(***************************************************************************)
(* The fiber is scheduled while it can run, and the discovery server, if   *)
(* asked to register often enough, eventually accepts and answers.         *)
(***************************************************************************)
Spec == /\ Init /\ [][Next]_vars
        /\ WF_vars(FiberStep) /\ SF_vars(FiberStep /\ rereg_ok)
        /\ WF_vars(destroy_join) /\ WF_vars(destroy_cancel)

-----------------------------------------------------------------------------
(***************************************************************************)
(* Once a do_cancel has reached the server, the peer is never registered   *)
(* again: the destructor joins periodic_renew before cancelling, so no     *)
(* re-register in flight can land after the cancel.                        *)
(***************************************************************************)
NoRegistrationAfterCancel == cancelled => srv = "absent"

(***************************************************************************)
(* While the renew fiber runs and is not stopped, an entry the server      *)
(* dropped is eventually registered again: failed renews reach             *)
(* sns_reregister_threshold and periodic_renew registers.                  *)
(***************************************************************************)
EventuallyRegistered ==
    (fpc \notin {"none", "exit"} /\ ~fstopped /\ srv = "absent")
        ~> (srv = "present" \/ fstopped)

(***************************************************************************)
(* register_peer returns 0 only when the renew fiber has been started, or  *)
(* another call is still on its way to starting it: a caller told the peer *)
(* is registered can rely on it being kept registered.                     *)
(***************************************************************************)
NoFalseSuccess ==
    \A t \in Threads :
        ret[t] = "ok" => (fpc # "none" \/ \E u \in Threads : pc[u] \in {"validate", "register", "start"})
=============================================================================
