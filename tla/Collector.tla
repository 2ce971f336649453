------------------------------ MODULE Collector ------------------------------
(***************************************************************************)
(* melon::Collector (src/unnamed/part_009): samples submitted by user      *)
(* threads go into a reducer; the grab thread takes them every round,      *)
(* counts them, drops those beyond variable_collector_max_pending_samples  *)
(* and hands the rest to the dump thread through _dump_root under          *)
(* _dump_thread_mutex.  ~Collector sets _stop and joins the grab thread,   *)
(* which stops and joins the dump thread.                                  *)
(*                                                                         *)
(* A sample's place is its status; the reducer (a variable_reducer of      *)
(* lists, see AgentCombiner) is the set of samples in status "reduced".    *)
(* One CollectorSpeedLimit is shared by all samples: is_collectable (in    *)
(* src/melon/var/detail/combiner.h) decides whether a sample is taken, and *)
(* the grab thread's update_speed_limit rescales sampling_range after each *)
(* round from the round's count and the time it took.  Time is not a       *)
(* variable: an elapsed interval is a choice from Intervals, which holds a *)
(* negative value for a wall clock that stepped back.  Preprocessors are   *)
(* left out (process() leaves the list alone) and a timed wait returns.    *)
(***************************************************************************)
EXTENDS Integers, FiniteSets

CONSTANTS
    Samples,      \* the Collected objects user threads submit
    MaxPending,   \* FLAGS_variable_collector_max_pending_samples
    Base,         \* COLLECTOR_SAMPLING_BASE, a power of 2
    Expected,     \* FLAGS_variable_collector_expected_per_second
    USec,         \* 1000000L, one second in the unit of the intervals
    Intervals     \* the elapsed times update_speed_limit may see

ASSUME MaxPending \in Nat \ {0}
ASSUME Intervals \subseteq Int /\ USec \in Nat \ {0}

N == Cardinality(Samples)

Status == {"new",       \* not created yet
           "skipped",   \* is_collectable returned 0: never created
           "sampled",   \* created, not submitted yet
           "reduced",   \* in the reducer, submitted by *d << this
           "grabbed",   \* in the grab thread's prep_map lists
           "kept",      \* in the grab thread's local root
           "dumpq",     \* in _dump_root
           "dumping",   \* in the dump thread's local root
           "dumped",    \* dump_and_destroy() ran
           "dropped",   \* destroyed by the grab thread
           "rejected"}  \* destroyed by submit(): the collector was idle

Released == {"dumped", "dropped", "rejected"}

VARIABLES
    st,          \* st[s]: where sample s is
    created,     \* _created
    stop,        \* _stop
    ngrab,       \* _ngrab
    ndrop,       \* _ndrop
    ndump,       \* _ndump
    seen,        \* the grab thread's last read of _ndump
    gpc,         \* the grab thread's program counter
    dpc,         \* the dump thread's program counter
    signalled,   \* _dump_thread_cond was signalled while the dump thread waited
    mpc,         \* the destructor's program counter
    range,       \* sampling_range of the CollectorSpeedLimit
    ever,        \* ever_grabbed
    lastNgrab    \* last_ngrab_map[sl], the _ngrab of the last update

vars == <<st, created, stop, ngrab, ndrop, ndump, seen, gpc, dpc, signalled, mpc,
          range, ever, lastNgrab>>

Unchanged_sl == UNCHANGED <<range, ever, lastNgrab>>

TypeOK ==
    /\ st \in [Samples -> Status]
    /\ created \in BOOLEAN /\ stop \in BOOLEAN
    /\ ngrab \in 0..N /\ ndrop \in 0..N /\ ndump \in 0..N /\ seen \in 0..N
    /\ gpc \in {"none", "top", "count", "publish", "sleep", "exit", "join", "done"}
    /\ dpc \in {"none", "top", "wait", "iter", "done"}
    /\ signalled \in BOOLEAN
    /\ mpc \in {"idle", "join", "done"}
    /\ range \in Nat /\ ever \in BOOLEAN /\ lastNgrab \in 0..N

InStatus(S) == {s \in Samples : st[s] \in S}

(* The constructor: pthread_create of the grab thread may fail.            *)
Init ==
    /\ st = [s \in Samples |-> "new"]
    /\ created \in BOOLEAN
    /\ stop = FALSE
    /\ ngrab = 0 /\ ndrop = 0 /\ ndump = 0 /\ seen = 0
    /\ gpc = IF created THEN "top" ELSE "none"
    /\ dpc = "none"
    /\ signalled = FALSE
    /\ mpc = "idle"
    /\ range = Base /\ ever = FALSE /\ lastNgrab = 0

(***************************************************************************)
(* is_collectable_before_first_time_grabbed: it counts the call and, for   *)
(* the first one, stores first_sample_real_us; past the expected count it  *)
(* wakes the grab thread.  Those only shorten or time the grab thread's    *)
(* wait, which is not modelled.  It returns sampling_range.                *)
(***************************************************************************)
is_collectable_before_first_time_grabbed == range

(***************************************************************************)
(* A user thread asks is_collectable(sl) and creates the sample when the   *)
(* answer is positive.  Once the type was grabbed, it returns 0 when       *)
(* fast_rand() & (BASE - 1), any of 0..Base - 1, is at least               *)
(* sampling_range, and sampling_range otherwise.                           *)
(***************************************************************************)
is_collectable(s) ==
    /\ st[s] = "new"
    /\ \E r \in 0..Base - 1 :
         LET ret == IF ~ever THEN is_collectable_before_first_time_grabbed
                    ELSE IF r >= range THEN 0 ELSE range
         IN st' = [st EXCEPT ![s] = IF ret > 0 THEN "sampled" ELSE "skipped"]
    /\ UNCHANGED <<created, stop, ngrab, ndrop, ndump, seen, gpc, dpc, signalled, mpc>>
    /\ Unchanged_sl

(***************************************************************************)
(* Collected::submit: a user thread hands a sample to the reducer when     *)
(* _last_active_cpuwide_us is less than two grab intervals old, and        *)
(* destroys it otherwise.  Time is not modelled, so either may happen; the *)
(* constructor sets _last_active_cpuwide_us even when the grab thread      *)
(* fails to start, and the window stays open after the grab thread stops.  *)
(***************************************************************************)
submit(s) ==
    /\ st[s] = "sampled"
    /\ \E to \in {"reduced", "rejected"} : st' = [st EXCEPT ![s] = to]
    /\ UNCHANGED <<created, stop, ngrab, ndrop, ndump, seen, gpc, dpc, signalled, mpc>>
    /\ Unchanged_sl

(***************************************************************************)
(* The head of the grab loop: the first round starts the dump thread;      *)
(* while !_stop, this->reset() takes every sample of the reducer.          *)
(***************************************************************************)
grab_top ==
    /\ gpc = "top"
    /\ dpc' = IF dpc = "none" THEN "top" ELSE dpc
    /\ \/ /\ stop
          /\ gpc' = "exit"
          /\ UNCHANGED st
       \/ /\ ~stop
          /\ st' = [s \in Samples |-> IF st[s] = "reduced" THEN "grabbed" ELSE st[s]]
          /\ gpc' = IF InStatus({"reduced"}) = {} THEN "sleep" ELSE "count"
    /\ UNCHANGED <<created, stop, ngrab, ndrop, ndump, seen, signalled, mpc>>
    /\ Unchanged_sl

(* Mutant of DropRule: drops only once the pending count exceeds the flag. *)
DropRule_gt(ng, nd, r) == ng > nd + r + MaxPending

(* The drop test after ++_ngrab, with r the value read of _ndump.          *)
DropRule(ng, nd, r) == ng >= nd + r + MaxPending

(* Mutant of grab_count: a dropped sample is destroyed but not counted.    *)
grab_count_uncounted_drop ==
    /\ gpc = "count"
    /\ \E s \in InStatus({"grabbed"}), r \in seen..ndump :
          /\ seen' = r
          /\ ngrab' = ngrab + 1
          /\ \/ /\ DropRule(ngrab + 1, ndrop, r)
                /\ st' = [st EXCEPT ![s] = "dropped"]
                /\ UNCHANGED ndrop
             \/ /\ ~DropRule(ngrab + 1, ndrop, r)
                /\ st' = [st EXCEPT ![s] = "kept"]
                /\ UNCHANGED ndrop
          /\ gpc' = IF InStatus({"grabbed"}) = {s} THEN "publish" ELSE "count"
    /\ UNCHANGED <<created, stop, ndump, dpc, signalled, mpc>>
    /\ Unchanged_sl

(***************************************************************************)
(* One sample of the grabbed lists: ++_ngrab, then destroy it when the     *)
(* pending count reaches the flag, else insert it in root.  _ndump is      *)
(* written by the dump thread with no synchronisation; the read sees a     *)
(* value at least as recent as the previous one and at most the current.  *)
(***************************************************************************)
grab_count ==
    /\ gpc = "count"
    /\ \E s \in InStatus({"grabbed"}), r \in seen..ndump :
          /\ seen' = r
          /\ ngrab' = ngrab + 1
          /\ \/ /\ DropRule(ngrab + 1, ndrop, r)
                /\ st' = [st EXCEPT ![s] = "dropped"]
                /\ ndrop' = ndrop + 1
             \/ /\ ~DropRule(ngrab + 1, ndrop, r)
                /\ st' = [st EXCEPT ![s] = "kept"]
                /\ UNCHANGED ndrop
          /\ gpc' = IF InStatus({"grabbed"}) = {s} THEN "publish" ELSE "count"
    /\ UNCHANGED <<created, stop, ndump, dpc, signalled, mpc>>
    /\ Unchanged_sl

(* pthread_cond_signal: wakes the dump thread if it waits, else is lost.   *)
Signal == signalled' = (signalled \/ dpc = "wait")

(* Mutant of grab_publish: _dump_thread_cond is not signalled.             *)
grab_publish_no_signal ==
    /\ gpc = "publish"
    /\ gpc' = "sleep"
    /\ st' = [s \in Samples |-> IF st[s] = "kept" THEN "dumpq" ELSE st[s]]
    /\ UNCHANGED <<created, stop, ngrab, ndrop, ndump, seen, dpc, signalled, mpc>>
    /\ Unchanged_sl

(* A non-empty root is spliced into _dump_root under _dump_thread_mutex    *)
(* and the dump thread is signalled.                                       *)
grab_publish ==
    /\ gpc = "publish"
    /\ gpc' = "sleep"
    /\ \/ /\ InStatus({"kept"}) # {}
          /\ st' = [s \in Samples |-> IF st[s] = "kept" THEN "dumpq" ELSE st[s]]
          /\ Signal
       \/ /\ InStatus({"kept"}) = {}
          /\ UNCHANGED <<st, signalled>>
    /\ UNCHANGED <<created, stop, ngrab, ndrop, ndump, seen, dpc, mpc>>
    /\ Unchanged_sl

(* "Make sure new value is sane": 0 becomes 1, above BASE becomes BASE.    *)
Clamp(x) == IF x = 0 THEN 1 ELSE IF x > Base THEN Base ELSE x

(***************************************************************************)
(* The new sampling_range for round samples grabbed in interval iv (a      *)
(* negative interval counts as 0).  Before the first grab it is what       *)
(* Expected samples a second make of BASE; after, the old range is scaled  *)
(* the same way and, for an interval under a second, averaged with the old *)
(* range weighted by the interval.                                         *)
(***************************************************************************)
NewRange(old, round, iv) ==
    LET i == IF iv < 0 THEN 0 ELSE iv
        scaled(b) == (Expected * i * b) \div (USec * round)
    IN Clamp(IF ~ever THEN scaled(Base)
             ELSE IF i < USec
                  THEN (scaled(old) * i + old * (USec - i)) \div USec
                  ELSE scaled(old))

(***************************************************************************)
(* update_speed_limit(sl, &last_ngrab_map[sl], ngrab_map[sl], interval):   *)
(* with one speed limit ngrab_map[sl] is _ngrab.  A round that grabbed     *)
(* nothing returns at once; otherwise the range is recomputed and          *)
(* ever_grabbed set.                                                       *)
(***************************************************************************)
update_speed_limit ==
    \/ /\ ngrab = lastNgrab
       /\ Unchanged_sl
    \/ /\ ngrab # lastNgrab
       /\ lastNgrab' = ngrab
       /\ \E iv \in Intervals : range' = NewRange(range, ngrab - lastNgrab, iv)
       /\ ever' = TRUE

(* update_speed_limit for the round, then the timed wait on _sleep_cond,    *)
(* which returns within COLLECTOR_GRAB_INTERVAL_US.                        *)
grab_sleep ==
    /\ gpc = "sleep"
    /\ gpc' = "top"
    /\ update_speed_limit
    /\ UNCHANGED <<st, created, stop, ngrab, ndrop, ndump, seen, dpc, signalled, mpc>>

(* Mutant of grab_exit: _stop is set but the dump thread is not signalled. *)
grab_exit_no_signal ==
    /\ gpc = "exit"
    /\ gpc' = "join"
    /\ stop' = TRUE
    /\ UNCHANGED <<st, created, ngrab, ndrop, ndump, seen, dpc, signalled, mpc>>
    /\ Unchanged_sl

(* After the loop: set _stop under _dump_thread_mutex, signal, and join.   *)
grab_exit ==
    /\ gpc = "exit"
    /\ gpc' = "join"
    /\ stop' = TRUE
    /\ Signal
    /\ UNCHANGED <<st, created, ngrab, ndrop, ndump, seen, dpc, mpc>>
    /\ Unchanged_sl

grab_join ==
    /\ gpc = "join"
    /\ dpc = "done"
    /\ gpc' = "done"
    /\ UNCHANGED <<st, created, stop, ngrab, ndrop, ndump, seen, dpc, signalled, mpc>>
    /\ Unchanged_sl

(***************************************************************************)
(* The dump loop's head, under _dump_thread_mutex: leave on _stop, wait    *)
(* while _dump_root is empty, else take the whole of it.                   *)
(***************************************************************************)
dump_top ==
    /\ dpc = "top"
    /\ \/ /\ stop
          /\ dpc' = "done"
          /\ UNCHANGED <<st, signalled>>
       \/ /\ ~stop /\ InStatus({"dumpq"}) = {}
          /\ dpc' = "wait"
          /\ signalled' = FALSE
          /\ UNCHANGED st
       \/ /\ ~stop /\ InStatus({"dumpq"}) # {}
          /\ dpc' = "iter"
          /\ st' = [s \in Samples |-> IF st[s] = "dumpq" THEN "dumping" ELSE st[s]]
          /\ UNCHANGED signalled
    /\ UNCHANGED <<created, stop, ngrab, ndrop, ndump, seen, gpc, mpc>>
    /\ Unchanged_sl

(* pthread_cond_wait returns after a signal and the predicate is checked   *)
(* again.                                                                  *)
dump_wake ==
    /\ dpc = "wait"
    /\ signalled
    /\ dpc' = "top"
    /\ signalled' = FALSE
    /\ UNCHANGED <<st, created, stop, ngrab, ndrop, ndump, seen, gpc, mpc>>
    /\ Unchanged_sl

(* One sample of the local root: dump_and_destroy, ++_ndump; the loop      *)
(* ends when the root is empty or _stop is seen.                           *)
dump_iter ==
    /\ dpc = "iter"
    /\ \/ /\ stop \/ InStatus({"dumping"}) = {}
          /\ dpc' = "top"
          /\ UNCHANGED <<st, ndump>>
       \/ /\ ~stop
          /\ \E s \in InStatus({"dumping"}) : st' = [st EXCEPT ![s] = "dumped"]
          /\ ndump' = ndump + 1
          /\ UNCHANGED dpc
    /\ UNCHANGED <<created, stop, ngrab, ndrop, seen, gpc, signalled, mpc>>
    /\ Unchanged_sl

(* ~Collector: if the grab thread was created, set _stop (without a lock)  *)
(* and join it.                                                            *)
destroy ==
    /\ mpc = "idle"
    /\ \/ /\ created
          /\ stop' = TRUE
          /\ mpc' = "join"
       \/ /\ ~created
          /\ mpc' = "done"
          /\ UNCHANGED stop
    /\ UNCHANGED <<st, created, ngrab, ndrop, ndump, seen, gpc, dpc, signalled>>
    /\ Unchanged_sl

destroy_join ==
    /\ mpc = "join"
    /\ gpc = "done"
    /\ mpc' = "done"
    /\ UNCHANGED <<st, created, stop, ngrab, ndrop, ndump, seen, gpc, dpc, signalled>>
    /\ Unchanged_sl

GrabThread ==
    grab_top \/ grab_count \/ grab_publish \/ grab_sleep \/ grab_exit \/ grab_join
DumpThread == dump_top \/ dump_wake \/ dump_iter

Next ==
    \/ \E s \in Samples : is_collectable(s) \/ submit(s)
    \/ GrabThread
    \/ DumpThread
    \/ destroy
    \/ destroy_join

(***************************************************************************)
(* Both threads always get to run: the grab thread's waits are timed, and  *)
(* the dump thread's wait is ended by the signal that enables dump_wake.   *)
(***************************************************************************)
Spec == /\ Init /\ [][Next]_vars
        /\ WF_vars(GrabThread) /\ WF_vars(DumpThread) /\ WF_vars(destroy_join)

-----------------------------------------------------------------------------
Pending == InStatus({"kept", "dumpq", "dumping"})

(***************************************************************************)
(* get_pending_count, _ngrab - _ndump - _ndrop, is exactly the number of   *)
(* samples kept by the grab thread and not yet dumped, whatever the two    *)
(* threads' interleaving.                                                  *)
(***************************************************************************)
PendingExact == ngrab - ndrop - ndump = Cardinality(Pending)

(***************************************************************************)
(* Fewer than variable_collector_max_pending_samples samples are ever      *)
(* pending, even though the grab thread reads _ndump racily.               *)
(***************************************************************************)
PendingBelowMax == Cardinality(Pending) < MaxPending

(***************************************************************************)
(* Once its grab thread was created, every sample submit() accepted is     *)
(* eventually dumped or dropped, unless ~Collector has set _stop (the      *)
(* loops then abandon what they hold): the grab thread takes it and the    *)
(* signal on _dump_thread_cond reaches the dump thread.                    *)
(***************************************************************************)
EverySampleReleased ==
    \A s \in Samples : (created /\ st[s] = "reduced") ~> (st[s] \in Released \/ stop)


(***************************************************************************)
(* ~Collector returns: the grab thread sees _stop, stops and wakes the dump *)
(* thread, and both joins complete.                                        *)
(***************************************************************************)
DestructorReturns == (mpc = "join") ~> (mpc = "done")
=============================================================================
