------------------------------ MODULE BallotBox ------------------------------
(***************************************************************************)
(* melon::raft::BallotBox (src/melon/raft/ballot_box.cc): the leader's     *)
(* record of which log entries a quorum holds.  Each pending entry has a   *)
(* Ballot; replicator threads (one per peer, the leader's own disk flush   *)
(* among them) call commit_at(first, last, peer) when a peer has stored    *)
(* entries first..last.  The node calls reset_pending_index when it       *)
(* becomes leader, append_pending_task for each entry it proposes,         *)
(* clear_pending_tasks when it steps down, and set_last_committed_index    *)
(* as a follower.  Every call takes _mutex; commit_at and                  *)
(* set_last_committed_index call _waiter->on_committed after unlocking.    *)
(*                                                                         *)
(* The node's log, its role and the replicators' match indexes are the     *)
(* environment of the box: they are modelled only as far as they decide    *)
(* which calls are made with which arguments.                              *)
(***************************************************************************)
EXTENDS Naturals, Sequences, FiniteSets, FiniteSetsExt

CONSTANTS
    Peers,     \* the PeerIds of every configuration
    ConfSeq,   \* the configurations in the order the log installs them:
               \* records [conf, old], old = {} outside joint consensus
    MaxIndex,  \* the last log index considered
    Follower   \* the thread that calls set_last_committed_index

ASSUME /\ MaxIndex \in Nat \ {0}
       /\ Len(ConfSeq) > 0
       /\ \A k \in DOMAIN ConfSeq : ConfSeq[k].conf \cup ConfSeq[k].old \subseteq Peers

Callers == Peers \cup {Follower}
Indexes == 1..MaxIndex
Confs == DOMAIN ConfSeq

VARIABLES
    role,            \* "leader" or "follower"
    lastLog,         \* the node's last log index
    logConf,         \* logConf[i]: the configuration in force at entry i
    cfg,             \* the configuration in force at the end of the log
    acked,           \* acked[p]: the last index peer p stored this term
    term_start,      \* the pending index the current leadership began at
    pending_index,   \* _pending_index
    queue,           \* _pending_meta_queue: ballots [c, granted]
    last_committed,  \* _last_committed_index
    note,            \* note[c]: the index caller c is about to pass to
                     \* on_committed after unlocking, 0 if none
    applied          \* the highest index the waiter was told of

vars == <<role, lastLog, logConf, cfg, acked, term_start, pending_index,
          queue, last_committed, note, applied>>

Members(k) == ConfSeq[k].conf \cup ConfSeq[k].old

(* A Ballot only records peers of its own configurations.                  *)
Ballots == UNION {[c : {k}, granted : SUBSET Members(k)] : k \in Confs}

TypeOK ==
    /\ role \in {"leader", "follower"}
    /\ lastLog \in 0..MaxIndex
    /\ logConf \in [Indexes -> Confs]
    /\ cfg \in Confs
    /\ acked \in [Peers -> 0..MaxIndex]
    /\ term_start \in 0..(MaxIndex + 1)
    /\ pending_index \in 0..(MaxIndex + 1)
    /\ queue \in Seq(Ballots)
    /\ last_committed \in 0..MaxIndex
    /\ note \in [Callers -> 0..MaxIndex]
    /\ applied \in 0..MaxIndex

(***************************************************************************)
(* Ballot (not under src/): a ballot is granted when the peers that        *)
(* granted it are a majority of its configuration and, during joint        *)
(* consensus, of the old one too; grant() ignores a peer of neither.       *)
(***************************************************************************)
IsQuorum(S, members) == 2 * Cardinality(S \cap members) > Cardinality(members)

granted(bl) ==
    /\ IsQuorum(bl.granted, ConfSeq[bl.c].conf)
    /\ ConfSeq[bl.c].old = {} \/ IsQuorum(bl.granted, ConfSeq[bl.c].old)

(* Mutant of grant: a peer outside the ballot's configurations is counted. *)
grant_any_peer(bl, peer) == [bl EXCEPT !.granted = @ \cup {peer}]

grant(bl, peer) == [bl EXCEPT !.granted = @ \cup ({peer} \cap Members(bl.c))]

(* The constructor: _pending_index = _last_committed_index = 0.            *)
Init ==
    /\ role = "follower"
    /\ lastLog = 0
    /\ logConf = [i \in Indexes |-> 1]
    /\ cfg = 1
    /\ acked = [p \in Peers |-> 0]
    /\ term_start = 0
    /\ pending_index = 0
    /\ queue = <<>>
    /\ last_committed = 0
    /\ note = [c \in Callers |-> 0]
    /\ applied = 0

(* An entry appended at the end of the log; it may install the next       *)
(* configuration.                                                          *)
AppendEntry(c) ==
    /\ lastLog < MaxIndex
    /\ c \in {cfg, cfg + 1} \cap Confs
    /\ lastLog' = lastLog + 1
    /\ logConf' = [logConf EXCEPT ![lastLog + 1] = c]
    /\ cfg' = c

(***************************************************************************)
(* The node becomes leader and calls reset_pending_index(last_log_index +  *)
(* 1); the replicators start afresh.  The MCHECKs of reset_pending_index   *)
(* are stated by ResetChecksHold, not assumed.                             *)
(***************************************************************************)
reset_pending_index ==
    /\ role = "follower"
    /\ role' = "leader"
    /\ pending_index' = lastLog + 1
    /\ term_start' = lastLog + 1
    /\ acked' = [p \in Peers |-> 0]
    /\ UNCHANGED <<lastLog, logConf, cfg, queue, last_committed, note, applied>>

(* The leader proposes an entry: append_pending_task(conf, old_conf)       *)
(* pushes a fresh Ballot of the configuration in force, and the entry      *)
(* goes to the log.                                                        *)
append_pending_task ==
    /\ role = "leader"
    /\ \E c \in Confs :
          /\ AppendEntry(c)
          /\ queue' = Append(queue, [c |-> c, granted |-> {}])
    /\ UNCHANGED <<role, acked, term_start, pending_index, last_committed, note, applied>>

(* Mutant of clear_pending_tasks: _pending_index is not reset.            *)
clear_pending_tasks_keeps_index ==
    /\ role = "leader"
    /\ role' = "follower"
    /\ queue' = <<>>
    /\ UNCHANGED <<lastLog, logConf, cfg, acked, term_start, pending_index, last_committed, note, applied>>

(* The leader steps down: clear_pending_tasks drops every ballot.          *)
clear_pending_tasks ==
    /\ role = "leader"
    /\ role' = "follower"
    /\ queue' = <<>>
    /\ pending_index' = 0
    /\ UNCHANGED <<lastLog, logConf, cfg, acked, term_start, last_committed, note, applied>>

(* A follower appends an entry from the leader.                            *)
follower_append ==
    /\ role = "follower"
    /\ \E c \in Confs : AppendEntry(c)
    /\ UNCHANGED <<role, acked, term_start, pending_index, queue, last_committed, note, applied>>

(***************************************************************************)
(* The part of commit_at(first, last, peer) under _mutex, as a function of *)
(* the box: the new _pending_meta_queue, the index committed (0 if none)   *)
(* and the value passed to on_committed.  It returns at once when          *)
(* _pending_index is 0 (EINVAL), when last is below it, or when last is    *)
(* past the queue (ERANGE).  Otherwise peer grants every ballot from       *)
(* max(_pending_index, first) to last, the last granted one is committed   *)
(* with everything before it, and those ballots are popped.                *)
(***************************************************************************)
Granting(peer, first, last) ==
    LET start == Max({pending_index, first})
    IN  [k \in DOMAIN queue |->
            IF k + pending_index - 1 \in start..last
            THEN grant(queue[k], peer) ELSE queue[k]]

Won(g, first, last) ==
    {i \in Max({pending_index, first})..last : granted(g[i - pending_index + 1])}

Pop(g, lci) == SubSeq(g, lci - pending_index + 2, Len(g))

OutOfRange(last) ==
    \/ pending_index = 0
    \/ last < pending_index
    \/ last >= pending_index + Len(queue)

(* Mutant of CommitAt: the loop stops at the first granted ballot.         *)
CommitAt_first_granted(peer, first, last) ==
    IF OutOfRange(last) THEN [queue |-> queue, lci |-> 0, notify |-> 0]
    ELSE LET g == Granting(peer, first, last)
             w == Won(g, first, last)
             lci == IF w = {} THEN 0 ELSE Min(w)
         IN  [queue |-> IF lci = 0 THEN g ELSE Pop(g, lci), lci |-> lci, notify |-> lci]

(* Mutant of CommitAt: the pop loop runs to index < last_committed_index.  *)
CommitAt_pop_short(peer, first, last) ==
    IF OutOfRange(last) THEN [queue |-> queue, lci |-> 0, notify |-> 0]
    ELSE LET g == Granting(peer, first, last)
             w == Won(g, first, last)
             lci == IF w = {} THEN 0 ELSE Max(w)
         IN  [queue |-> IF lci = 0 THEN g ELSE SubSeq(g, lci - pending_index + 1, Len(g)),
              lci |-> lci, notify |-> lci]

(* Mutant of CommitAt: last_committed_index is set to last_log_index once  *)
(* any ballot of the range is granted.                                     *)
CommitAt_commits_range(peer, first, last) ==
    IF OutOfRange(last) THEN [queue |-> queue, lci |-> 0, notify |-> 0]
    ELSE LET g == Granting(peer, first, last)
             w == Won(g, first, last)
             lci == IF w = {} THEN 0 ELSE last
         IN  [queue |-> IF lci = 0 THEN g ELSE Pop(g, lci), lci |-> lci, notify |-> lci]

(* Mutant of CommitAt: on_committed is passed _last_committed_index as it  *)
(* was read before the store.                                              *)
CommitAt_stale_notify(peer, first, last) ==
    IF OutOfRange(last) THEN [queue |-> queue, lci |-> 0, notify |-> 0]
    ELSE LET g == Granting(peer, first, last)
             w == Won(g, first, last)
             lci == IF w = {} THEN 0 ELSE Max(w)
         IN  [queue |-> IF lci = 0 THEN g ELSE Pop(g, lci), lci |-> lci,
              notify |-> last_committed]

CommitAt(peer, first, last) ==
    IF OutOfRange(last) THEN [queue |-> queue, lci |-> 0, notify |-> 0]
    ELSE LET g == Granting(peer, first, last)
             w == Won(g, first, last)
             lci == IF w = {} THEN 0 ELSE Max(w)
         IN  [queue |-> IF lci = 0 THEN g ELSE Pop(g, lci), lci |-> lci, notify |-> lci]

(***************************************************************************)
(* Peer p's replicator (or the leader's disk flush) reports entries        *)
(* acked[p]+1..last stored and calls commit_at.  A thread that committed   *)
(* still has to call on_committed before it reports again.                 *)
(***************************************************************************)
commit_at ==
    /\ role = "leader"
    /\ \E p \in Peers, last \in Indexes :
          /\ note[p] = 0
          /\ acked[p] < last /\ last <= lastLog
          /\ acked' = [acked EXCEPT ![p] = last]
          /\ LET r == CommitAt(p, acked[p] + 1, last)
             IN  /\ queue' = r.queue
                 /\ \/ /\ r.lci = 0
                       /\ UNCHANGED <<pending_index, last_committed, note>>
                    \/ /\ r.lci # 0
                       /\ pending_index' = r.lci + 1
                       /\ last_committed' = r.lci
                       /\ note' = [note EXCEPT ![p] = r.notify]
    /\ UNCHANGED <<role, lastLog, logConf, cfg, term_start, applied>>

(* Mutant of set_last_committed_index: the EINVAL check is dropped.        *)
set_last_committed_index_no_einval ==
    /\ role = "follower"
    /\ note[Follower] = 0
    /\ pending_index = 0 /\ queue = <<>>
    /\ \E i \in Indexes :
          /\ i <= lastLog /\ i # last_committed
          /\ last_committed' = i
          /\ note' = [note EXCEPT ![Follower] = i]
    /\ UNCHANGED <<role, lastLog, logConf, cfg, acked, term_start, pending_index, queue, applied>>

(***************************************************************************)
(* A follower learns the leader's commit index i (at most its own last     *)
(* index) and calls set_last_committed_index(i).  It returns -1 while      *)
(* tasks are pending and EINVAL for an index below _last_committed_index;  *)
(* those returns and an equal index change nothing.  A higher index is     *)
(* stored and passed to on_committed after unlocking.                      *)
(***************************************************************************)
set_last_committed_index ==
    /\ role = "follower"
    /\ note[Follower] = 0
    /\ pending_index = 0 /\ queue = <<>>
    /\ \E i \in Indexes :
          /\ i <= lastLog /\ i > last_committed
          /\ last_committed' = i
          /\ note' = [note EXCEPT ![Follower] = i]
    /\ UNCHANGED <<role, lastLog, logConf, cfg, acked, term_start, pending_index, queue, applied>>

(* The caller, outside _mutex, runs _waiter->on_committed(index); the      *)
(* waiter (FSMCaller) applies up to the highest index it was given, so     *)
(* calls overtaken by a later one are absorbed.                            *)
on_committed(c) ==
    /\ note[c] # 0
    /\ applied' = Max({applied, note[c]})
    /\ note' = [note EXCEPT ![c] = 0]
    /\ UNCHANGED <<role, lastLog, logConf, cfg, acked, term_start, pending_index, queue, last_committed>>

Next ==
    \/ reset_pending_index
    \/ append_pending_task
    \/ clear_pending_tasks
    \/ follower_append
    \/ commit_at
    \/ set_last_committed_index
    \/ \E c \in Callers : on_committed(c)

(* A thread that has unlocked goes on to call on_committed.                *)
Spec == Init /\ [][Next]_vars /\ \A c \in Callers : WF_vars(on_committed(c))

-----------------------------------------------------------------------------
(* The peers that hold entry j: acks are of log prefixes.                  *)
Holders(j) == {p \in Peers : acked[p] >= j}

(***************************************************************************)
(* Every entry the leader has committed this term is held by a quorum of   *)
(* the configuration of an entry at or after it, which is what lets        *)
(* commit_at commit earlier entries with a later ballot (the removal case  *)
(* its comment describes) and nothing more.                                *)
(***************************************************************************)
CommittedByQuorum ==
    role = "leader" =>
        \A i \in term_start..last_committed :
            \E j \in i..last_committed :
                granted([c |-> logConf[j], granted |-> Holders(j)])

(***************************************************************************)
(* After every commit_at no ballot in _pending_meta_queue is granted: an   *)
(* entry a quorum holds is committed by the call that completes it.        *)
(***************************************************************************)
NoGrantedLeftPending == \A k \in DOMAIN queue : ~granted(queue[k])

(***************************************************************************)
(* While leader, _pending_meta_queue has exactly one ballot per entry from *)
(* _pending_index to the end of the log, so queue[k] is the ballot of      *)
(* entry _pending_index + k - 1 as commit_at assumes.                      *)
(***************************************************************************)
QueueCoversLog == role = "leader" => pending_index + Len(queue) = lastLog + 1

(***************************************************************************)
(* _last_committed_index never decreases, across commit_at as leader and   *)
(* set_last_committed_index as a later follower.                           *)
(***************************************************************************)
CommitMonotone == [][last_committed' >= last_committed]_vars

(***************************************************************************)
(* The MCHECKs of reset_pending_index hold whenever the node becomes       *)
(* leader: no ballot or pending index is left over from an earlier term,   *)
(* and the new pending index is above _last_committed_index.               *)
(***************************************************************************)
ResetChecksHold ==
    [][(role = "follower" /\ role' = "leader") =>
          /\ pending_index = 0 /\ queue = <<>>
          /\ lastLog + 1 > last_committed]_vars

(***************************************************************************)
(* Every committed index reaches the waiter: on_committed calls made after *)
(* unlocking, in whatever order, eventually tell it of it.                 *)
(***************************************************************************)
EveryCommitNotified ==
    \A k \in Indexes : (last_committed >= k) ~> (applied >= k)

=============================================================================
