------------------------- MODULE ConsulNamingService -------------------------
(***************************************************************************)
(* melon::naming::ConsulNamingService (src/melon/naming/                   *)
(* consul_naming_service.cc): the naming-service fiber's loop              *)
(* RunNamingService, which polls consul with blocking queries through      *)
(* GetServers and hands each new list to NamingServiceActions::           *)
(* ResetServers, falling back once to a local file when consul cannot be   *)
(* reached.                                                                *)
(*                                                                         *)
(* Consul's state is its X-Consul-Index (cidx) and the service's answer    *)
(* body (cbody), a JSON array of entries.  An entry is a server node or    *)
(* Bad, any element the loop skips.  fiber_stop sets the fiber's stop      *)
(* flag and interrupts it; as the comment in RunNamingService says, a join *)
(* inside the RPC consumes the interrupt, and fiber_usleep fails with      *)
(* ESTOP only when interrupted.                                            *)
(***************************************************************************)
EXTENDS Integers, Sequences, FiniteSets

CONSTANTS
    Nodes,        \* ServerNode values (address and first tag)
    Bad,          \* an array element the loop skips
    MaxLen,       \* the longest answer body considered
    MaxIndex,     \* consul's index stays within 1..MaxIndex
    Degrade,      \* FLAGS_consul_enable_degrade_to_file_naming_service
    FileServers   \* what FileNamingService reads from the backup file

ASSUME Bad \notin Nodes /\ MaxLen \in Nat /\ MaxIndex \in Nat \ {0}
       /\ Degrade \in BOOLEAN /\ FileServers \in Seq(Nodes)

Entries == Nodes \cup {Bad}
Bodies == UNION {[1..n -> Entries] : n \in 0..MaxLen}
NoIndex == 0    \* _consul_index.empty()

VARIABLES
    cidx,         \* consul's X-Consul-Index for the service
    cbody,        \* consul's answer body
    connected,    \* _consul_connected
    index,        \* _consul_index
    loaded,       \* _backup_file_loaded
    rc,           \* GetServers' result in RunNamingService
    servers,      \* RunNamingService's local servers vector
    ever_reset,   \* RunNamingService's ever_reset
    held,         \* the list last passed to ResetServers
    fpc,          \* the fiber's place: "get", "check", "sleep" or "exit"
    stopped,      \* fiber_stop was called
    interrupted   \* TaskMeta::interrupted

vars == <<cidx, cbody, connected, index, loaded, rc, servers, ever_reset,
          held, fpc, stopped, interrupted>>

(* A fresh ConsulNamingService, its fiber about to call GetServers.        *)
Init ==
    /\ cidx = 1
    /\ cbody \in Bodies
    /\ connected = FALSE
    /\ index = NoIndex
    /\ loaded = FALSE
    /\ rc = -1
    /\ servers = <<>>
    /\ ever_reset = FALSE
    /\ held = <<>>
    /\ fpc = "get"
    /\ stopped = FALSE
    /\ interrupted = FALSE

(***************************************************************************)
(* The loop over the answer array: skip what is not a valid node, keep the *)
(* first copy of each node (std::set presence), in order.                  *)
(***************************************************************************)
RECURSIVE ParseLoop_no_dedup(_, _, _, _)
(* Mutant of ParseLoop: every valid node is pushed, duplicates included.   *)
ParseLoop_no_dedup(body, i, presence, out) ==
    IF i > Len(body) THEN out
    ELSE IF body[i] = Bad
         THEN ParseLoop_no_dedup(body, i + 1, presence, out)
         ELSE ParseLoop_no_dedup(body, i + 1, presence \cup {body[i]}, Append(out, body[i]))

RECURSIVE ParseLoop(_, _, _, _)
ParseLoop(body, i, presence, out) ==
    IF i > Len(body) THEN out
    ELSE IF body[i] = Bad \/ body[i] \in presence
         THEN ParseLoop(body, i + 1, presence, out)
         ELSE ParseLoop(body, i + 1, presence \cup {body[i]}, Append(out, body[i]))

Parse(body) == ParseLoop(body, 1, {}, <<>>)

(* An answer whose entries are all invalid is refused (-1), after          *)
(* _consul_index has already been updated.                                 *)
Accepted(body) == Parse(body) # <<>> \/ body = <<>>

(***************************************************************************)
(* DegradeToOtherServiceIfNeeded: the backup file is read at most once; it *)
(* may be missing.                                                         *)
(***************************************************************************)
Degraded ==
    \/ /\ Degrade /\ ~loaded
       /\ loaded' = TRUE
       /\ \/ rc' = 0 /\ servers' = FileServers
          \/ rc' = -1 /\ servers' = <<>>
    \/ /\ ~(Degrade /\ ~loaded)
       /\ rc' = -1 /\ servers' = <<>>
       /\ UNCHANGED loaded

(***************************************************************************)
(* The HTTP call to consul after the channel is up.  The call may fail     *)
(* (degrade), the answer may lack X-Consul-Index, carry the index already  *)
(* known ("no change"), or not be a JSON array; otherwise the array is     *)
(* parsed and _consul_index takes the answer's index.                      *)
(***************************************************************************)
(* Mutant of AnswerOk: _consul_index is taken before the "no change" test, *)
(* so every answer looks unchanged.                                        *)
AnswerOk_index_first ==
    /\ index # cidx
    /\ index' = cidx
    /\ servers' = <<>>
    /\ rc' = -1
    /\ UNCHANGED loaded

AnswerOk ==
    /\ index # cidx
    /\ index' = cidx
    /\ servers' = Parse(cbody)
    /\ rc' = IF Accepted(cbody) THEN 0 ELSE -1
    /\ UNCHANGED loaded

Call ==
    \/ Degraded /\ UNCHANGED index
    \/ /\ index = cidx
       /\ rc' = -1 /\ servers' = <<>>
       /\ UNCHANGED <<index, loaded>>
    \/ /\ index # cidx
       /\ rc' = -1 /\ servers' = <<>>
       /\ UNCHANGED <<index, loaded>>
    \/ AnswerOk

(***************************************************************************)
(* GetServers: initialise the channel once, then call.  The RPC's join     *)
(* consumes an interrupt that fiber_stop delivered.                        *)
(***************************************************************************)
get ==
    /\ fpc = "get"
    /\ fpc' = "check"
    /\ \/ /\ ~connected
          /\ Degraded
          /\ UNCHANGED <<connected, index, interrupted>>
       \/ /\ connected' = TRUE
          /\ interrupted' = FALSE
          /\ Call
    /\ UNCHANGED <<cidx, cbody, ever_reset, held, stopped>>

(* The call reaches consul and the answer is parsed.                       *)
get_answered ==
    /\ fpc = "get"
    /\ fpc' = "check"
    /\ connected' = TRUE
    /\ interrupted' = FALSE
    /\ AnswerOk
    /\ UNCHANGED <<cidx, cbody, ever_reset, held, stopped>>

(* Mutant of check: the first failure does not reset the servers.         *)
check_no_first_reset ==
    /\ fpc = "check"
    /\ \/ /\ stopped
          /\ fpc' = "exit"
          /\ UNCHANGED <<ever_reset, held>>
       \/ /\ ~stopped /\ rc = 0
          /\ ever_reset' = TRUE /\ held' = servers
          /\ fpc' = "get"
       \/ /\ ~stopped /\ rc # 0
          /\ UNCHANGED <<ever_reset, held>>
          /\ fpc' = "sleep"
    /\ UNCHANGED <<cidx, cbody, connected, index, loaded, rc, servers, stopped, interrupted>>

(* Mutant of check: fiber_stopped is not tested after GetServers.          *)
check_no_stop ==
    /\ fpc = "check"
    /\ \/ /\ rc = 0
          /\ ever_reset' = TRUE /\ held' = servers
          /\ fpc' = "get"
       \/ /\ rc # 0 /\ ~ever_reset
          /\ ever_reset' = TRUE /\ held' = <<>>
          /\ fpc' = "sleep"
       \/ /\ rc # 0 /\ ever_reset
          /\ UNCHANGED <<ever_reset, held>>
          /\ fpc' = "sleep"
    /\ UNCHANGED <<cidx, cbody, connected, index, loaded, rc, servers, stopped, interrupted>>

(***************************************************************************)
(* After GetServers: quit if stopped, else ResetServers on success, or on  *)
(* the first failure with an empty list, then sleep after a failure.       *)
(***************************************************************************)
check ==
    /\ fpc = "check"
    /\ \/ /\ stopped
          /\ fpc' = "exit"
          /\ UNCHANGED <<ever_reset, held>>
       \/ /\ ~stopped /\ rc = 0
          /\ ever_reset' = TRUE /\ held' = servers
          /\ fpc' = "get"
       \/ /\ ~stopped /\ rc # 0 /\ ~ever_reset
          /\ ever_reset' = TRUE /\ held' = <<>>
          /\ fpc' = "sleep"
       \/ /\ ~stopped /\ rc # 0 /\ ever_reset
          /\ UNCHANGED <<ever_reset, held>>
          /\ fpc' = "sleep"
    /\ UNCHANGED <<cidx, cbody, connected, index, loaded, rc, servers, stopped, interrupted>>

(* fiber_usleep(consul_retry_interval_ms): ESTOP if interrupted.           *)
sleep ==
    /\ fpc = "sleep"
    /\ \/ interrupted /\ interrupted' = FALSE /\ fpc' = "exit"
       \/ ~interrupted /\ fpc' = "get" /\ UNCHANGED interrupted
    /\ UNCHANGED <<cidx, cbody, connected, index, loaded, rc, servers, ever_reset, held, stopped>>

(* fiber_stop on the naming-service fiber.                                 *)
stop ==
    /\ ~stopped
    /\ stopped' = TRUE /\ interrupted' = TRUE
    /\ UNCHANGED <<cidx, cbody, connected, index, loaded, rc, servers, ever_reset, held, fpc>>

(* The service's instances change in consul, which moves its index.        *)
consul_change ==
    /\ cidx < MaxIndex
    /\ cidx' = cidx + 1 /\ cbody' \in Bodies
    /\ UNCHANGED <<connected, index, loaded, rc, servers, ever_reset, held, fpc, stopped, interrupted>>

Fiber == get \/ check \/ sleep

Next == Fiber \/ stop \/ consul_change

(***************************************************************************)
(* The fiber runs whenever it can; consul, if asked often enough, answers  *)
(* with the service's array.                                               *)
(***************************************************************************)
Spec == Init /\ [][Next]_vars /\ WF_vars(Fiber) /\ SF_vars(get_answered)

-----------------------------------------------------------------------------
(***************************************************************************)
(* The list handed to ResetServers never names a server twice, however     *)
(* often consul repeats an instance: GetServers de-duplicates through its  *)
(* presence set.                                                           *)
(***************************************************************************)
NoDuplicateServers ==
    \A i, j \in 1..Len(held) : i # j => held[i] # held[j]

(***************************************************************************)
(* ResetServers is called at least once, even if consul is never reached,  *)
(* so callers of WaitForFirstBatchOfServers wake up, unless the fiber was  *)
(* stopped first.                                                          *)
(***************************************************************************)
FirstBatchReported == <>(ever_reset \/ fpc = "exit")

(***************************************************************************)
(* fiber_stop makes RunNamingService return, even when the interrupt was   *)
(* consumed by the join inside the consul RPC.                             *)
(***************************************************************************)
StopTerminates == stopped ~> (fpc = "exit")

(***************************************************************************)
(* A list ResetServers got from elsewhere than consul's current answer    *)
(* (the backup file after a failed call, or an older answer) is replaced  *)
(* once consul's X-Consul-Index moves past _consul_index: the next         *)
(* blocking query returns the new array.  It is about the order in         *)
(* GetServers of the "no change" test, the _consul_index update and the    *)
(* refusal of an all-invalid array.  While the index stays put, the list   *)
(* does too: every blocking query then ends as "no change".                *)
(***************************************************************************)
Stale == ever_reset /\ Accepted(cbody) /\ held # Parse(cbody)

ConsulListResumed == (Stale /\ index # cidx) ~> (~Stale \/ fpc = "exit")
=============================================================================
