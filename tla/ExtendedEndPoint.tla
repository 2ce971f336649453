-------------------------- MODULE ExtendedEndPoint --------------------------
(***************************************************************************)
(* The IPv6 / unix-socket endpoints of melon (src/unnamed/part_004).       *)
(*                                                                         *)
(* An end_point too small to hold an IPv6 or unix address stores instead   *)
(* the ResourceId of an ExtendedEndPoint object kept in a ResourcePool.    *)
(* The objects are reference counted (_ref_count, relaxed atomics) and     *)
(* deduplicated through GlobalEndPointSet, a mutex-protected set keyed by  *)
(* the socket address, so that equal addresses share one id.               *)
(*                                                                         *)
(* Each thread owns one end_point and, from it, runs the operations that   *)
(* change reference counts: create() (new_extended_endpoint, dedup,        *)
(* embed_to), operator= from another thread's end_point (reset, then       *)
(* set_endpoint / inc_ref) and reset() / the destructor (dec_ref).         *)
(* dec_ref is split where the code is not atomic: the fetch_sub happens    *)
(* outside the set's mutex and the erase happens later under it, which is  *)
(* the window the insert path has to cope with.                            *)
(***************************************************************************)
EXTENDS Naturals, FiniteSets, FiniteSetsExt, Functions

CONSTANTS
    Threads,   \* threads, each owning one end_point
    Slots,     \* ResourcePool slots for ExtendedEndPoint objects
    Addrs,     \* distinct ipv6 / unix socket addresses
    NoSlot,    \* an end_point that is not extended (ipv4 or IP_ANY:0)
    Unspec     \* _u.sa.sa_family == AF_UNSPEC

ASSUME NoSlot \notin Slots /\ Unspec \notin Addrs

VARIABLES
    ref,      \* ref[s]: _ref_count of the object in slot s
    fam,      \* fam[s]: its address, or Unspec (sa_family AF_UNSPEC)
    pooled,   \* pooled[s]: slot s is on the ResourcePool free list
    table,    \* GlobalEndPointSet::_set, as address -> slot
    ep,       \* ep[t]: the slot embedded in thread t's end_point
    pc,       \* pc[t]: where thread t is in its current operation
    cont,     \* cont[t]: what follows reset(): "embed", "copy" or "none"
    cur,      \* cur[t]: the ExtendedEndPoint* create() is working with
    src,      \* src[t]: the thread whose end_point operator= copies
    victim    \* victim[t]: object whose count dec_ref brought to zero

vars == <<ref, fam, pooled, table, ep, pc, cont, cur, src, victim>>

PCs == {"idle", "dedup", "reset", "erase", "embed", "copy"}

TypeOK ==
    /\ ref \in [Slots -> 0..Cardinality(Threads) * 2]
    /\ fam \in [Slots -> Addrs \cup {Unspec}]
    /\ pooled \in [Slots -> BOOLEAN]
    /\ table \in [Addrs -> Slots \cup {NoSlot}]
    /\ ep \in [Threads -> Slots \cup {NoSlot}]
    /\ pc \in [Threads -> PCs]
    /\ cont \in [Threads -> {"embed", "copy", "none"}]
    /\ cur \in [Threads -> Slots \cup {NoSlot}]
    /\ src \in [Threads -> Threads]
    /\ victim \in [Threads -> Slots \cup {NoSlot}]

Init ==
    /\ ref = [s \in Slots |-> 0]
    /\ fam = [s \in Slots |-> Unspec]
    /\ pooled = [s \in Slots |-> TRUE]
    /\ table = [a \in Addrs |-> NoSlot]
    /\ ep = [t \in Threads |-> NoSlot]
    /\ pc = [t \in Threads |-> "idle"]
    /\ cont = [t \in Threads |-> "none"]
    /\ cur = [t \in Threads |-> NoSlot]
    /\ src = [t \in Threads |-> t]
    /\ victim = [t \in Threads |-> NoSlot]

(* Some thread's operator= is copying from u's end_point.  The caller of   *)
(* operator= keeps rhs alive and unchanged until it returns, so u starts   *)
(* no operation of its own meanwhile.                                      *)
BeingCopied(u) ==
    \E t \in Threads : /\ pc[t] \in {"reset", "erase", "copy"}
                     /\ cont[t] = "copy"
                     /\ src[t] = u

(* The step after reset() has dropped the old reference.                   *)
AfterReset(t) ==
    CASE cont[t] = "embed" -> "embed"
      [] cont[t] = "copy"  -> "copy"
      [] OTHER             -> "idle"

(***************************************************************************)
(* create(sp, port, ep) / create(ss, size, ep), up to dedup: a parsed      *)
(* ipv6 or unix address gets a fresh object from new_extended_endpoint(),  *)
(* which takes a slot off the ResourcePool and sets its count to 1.  When  *)
(* the pool has no slot the code returns nullptr and leaves ep untouched,  *)
(* which is no step at all.                                                *)
(***************************************************************************)
new_extended_endpoint(t, a) ==
    /\ pc[t] = "idle"
    /\ ~BeingCopied(t)
    /\ \E s \in Slots :
         /\ pooled[s]
         /\ ref' = [ref EXCEPT ![s] = 1]
         /\ fam' = [fam EXCEPT ![s] = a]
         /\ pooled' = [pooled EXCEPT ![s] = FALSE]
         /\ cur' = [cur EXCEPT ![t] = s]
    /\ pc' = [pc EXCEPT ![t] = "dedup"]
    /\ cont' = [cont EXCEPT ![t] = "embed"]
    /\ UNCHANGED <<table, ep, src, victim>>

(***************************************************************************)
(* ExtendedEndPoint::create(sp, port, ep): the string is trimmed and parsed *)
(* as [ipv6] with a port in 0..65535 or as unix:path; a form that does not *)
(* parse, or a pool with no free slot, returns nullptr with ep untouched,  *)
(* which is no step.  A parsed address is one of Addrs.                    *)
(***************************************************************************)
create(t) == \E a \in Addrs : new_extended_endpoint(t, a)

(***************************************************************************)
(* Mutant of insert: the entry found with count 0 is taken over without    *)
(* undoing the speculative fetch_add.                                      *)
(***************************************************************************)
insert_keeps_increment(s) ==
    LET o == table[fam[s]] IN
    IF o # NoSlot /\ ref[o] = 0
    THEN [first |-> s, table |-> [table EXCEPT ![fam[s]] = s],
          ref |-> [ref EXCEPT ![o] = 1]]
    ELSE IF o # NoSlot
    THEN [first |-> o, table |-> table, ref |-> [ref EXCEPT ![o] = @ + 1]]
    ELSE [first |-> s, table |-> [table EXCEPT ![fam[s]] = s], ref |-> ref]

(***************************************************************************)
(* GlobalEndPointSet::insert(p), under the set's mutex.  An equal entry    *)
(* with a non-zero count is reused (and counted once more); one whose      *)
(* count is zero is being released by a dec_ref on another thread, so the  *)
(* fetch_add is undone and p replaces it.  The result is the object the    *)
(* caller now holds a reference to and the new table and counts.           *)
(***************************************************************************)
insert(s) ==
    LET o == table[fam[s]] IN
    IF o # NoSlot /\ ref[o] = 0
    THEN [first |-> s, table |-> [table EXCEPT ![fam[s]] = s], ref |-> ref]
    ELSE IF o # NoSlot
    THEN [first |-> o, table |-> table, ref |-> [ref EXCEPT ![o] = @ + 1]]
    ELSE [first |-> s, table |-> [table EXCEPT ![fam[s]] = s], ref |-> ref]

(* Mutant of dedup: the losing object is not given back to the pool.       *)
dedup_no_return(t) ==
    LET s == cur[t]
        r == insert(s)
    IN  /\ pc[t] = "dedup"
        /\ table' = r.table
        /\ ref' = IF r.first # s THEN [r.ref EXCEPT ![s] = 0] ELSE r.ref
        /\ fam' = IF r.first # s THEN [fam EXCEPT ![s] = Unspec] ELSE fam
        /\ UNCHANGED pooled
        /\ cur' = [cur EXCEPT ![t] = r.first]
        /\ pc' = [pc EXCEPT ![t] = "reset"]
        /\ UNCHANGED <<ep, cont, src, victim>>

(***************************************************************************)
(* ExtendedEndPoint::dedup(eep): insert into the global set; when an equal *)
(* object already won, the fresh one is reset to count 0 and AF_UNSPEC and *)
(* returned to the pool.  create() then calls embed_to(ep), whose first    *)
(* act is ep->reset().                                                     *)
(***************************************************************************)
dedup(t) ==
    LET s == cur[t]
        r == insert(s)
    IN  /\ pc[t] = "dedup"
        /\ table' = r.table
        /\ ref' = IF r.first # s THEN [r.ref EXCEPT ![s] = 0] ELSE r.ref
        /\ fam' = IF r.first # s THEN [fam EXCEPT ![s] = Unspec] ELSE fam
        /\ pooled' = IF r.first # s THEN [pooled EXCEPT ![s] = TRUE] ELSE pooled
        /\ cur' = [cur EXCEPT ![t] = r.first]
        /\ pc' = [pc EXCEPT ![t] = "reset"]
        /\ UNCHANGED <<ep, cont, src, victim>>

(* operator=(rhs) from another thread's end_point begins with reset().     *)
assign(t, u) ==
    /\ pc[t] = "idle"
    /\ ~BeingCopied(t)
    /\ u # t
    /\ pc[u] = "idle"
    /\ pc' = [pc EXCEPT ![t] = "reset"]
    /\ cont' = [cont EXCEPT ![t] = "copy"]
    /\ src' = [src EXCEPT ![t] = u]
    /\ UNCHANGED <<ref, fam, pooled, table, ep, cur, victim>>

(* end_point::reset() called directly, or by ~end_point().                 *)
destroy(t) ==
    /\ pc[t] = "idle"
    /\ ~BeingCopied(t)
    /\ ep[t] # NoSlot
    /\ pc' = [pc EXCEPT ![t] = "reset"]
    /\ cont' = [cont EXCEPT ![t] = "none"]
    /\ UNCHANGED <<ref, fam, pooled, table, ep, cur, src, victim>>

(***************************************************************************)
(* dec_ref() on object o, up to the erase: the fetch_sub outside any lock; *)
(* the thread that takes the count from 1 to 0 goes on to erase the object *)
(* from the set and free it.                                               *)
(***************************************************************************)
dec_ref(t, o) ==
    /\ ref' = [ref EXCEPT ![o] = @ - 1]
    /\ IF ref[o] = 1
       THEN /\ victim' = [victim EXCEPT ![t] = o]
            /\ pc' = [pc EXCEPT ![t] = "erase"]
       ELSE /\ pc' = [pc EXCEPT ![t] = AfterReset(t)]
            /\ UNCHANGED victim

(* Mutant of reset: the end_point keeps its id after dec_ref.               *)
reset_keeps_id(t) ==
    /\ pc[t] = "reset"
    /\ IF ep[t] = NoSlot
       THEN /\ pc' = [pc EXCEPT ![t] = AfterReset(t)]
            /\ UNCHANGED <<ref, victim>>
       ELSE dec_ref(t, ep[t])
    /\ UNCHANGED <<ep, fam, pooled, table, cont, cur, src>>

(***************************************************************************)
(* end_point::reset(): if the end_point is extended (ExtendedEndPoint::    *)
(* address never fails for an embedded id), dec_ref() on its object; the  *)
(* end_point becomes IP_ANY:0.                                             *)
(***************************************************************************)
reset(t) ==
    /\ pc[t] = "reset"
    /\ IF ep[t] = NoSlot
       THEN /\ pc' = [pc EXCEPT ![t] = AfterReset(t)]
            /\ UNCHANGED <<ref, victim>>
       ELSE dec_ref(t, ep[t])
    /\ ep' = [ep EXCEPT ![t] = NoSlot]
    /\ UNCHANGED <<fam, pooled, table, cont, cur, src>>

(* Mutant of erase: the entry equal to p is erased even when it is not p.  *)
erase_any_equal(t) ==
    LET o == victim[t] IN
    /\ pc[t] = "erase"
    /\ table' = [table EXCEPT ![fam[o]] = NoSlot]
    /\ fam' = [fam EXCEPT ![o] = Unspec]
    /\ pooled' = [pooled EXCEPT ![o] = TRUE]
    /\ victim' = [victim EXCEPT ![t] = NoSlot]
    /\ pc' = [pc EXCEPT ![t] = AfterReset(t)]
    /\ UNCHANGED <<ref, ep, cont, cur, src>>

(* Mutant of erase: the object is returned without erasing it from the set. *)
erase_skips_set(t) ==
    LET o == victim[t] IN
    /\ pc[t] = "erase"
    /\ fam' = [fam EXCEPT ![o] = Unspec]
    /\ pooled' = [pooled EXCEPT ![o] = TRUE]
    /\ victim' = [victim EXCEPT ![t] = NoSlot]
    /\ pc' = [pc EXCEPT ![t] = AfterReset(t)]
    /\ UNCHANGED <<table, ref, ep, cont, cur, src>>

(***************************************************************************)
(* The rest of dec_ref() after the count reached 0: GlobalEndPointSet::    *)
(* erase(this) under the mutex, which leaves the set alone when the equal  *)
(* entry is another object (an insert has replaced this one), then         *)
(* AF_UNSPEC and return_resource().                                        *)
(***************************************************************************)
erase(t) ==
    LET o == victim[t] IN
    /\ pc[t] = "erase"
    /\ table' = IF table[fam[o]] = o
                THEN [table EXCEPT ![fam[o]] = NoSlot]
                ELSE table
    /\ fam' = [fam EXCEPT ![o] = Unspec]
    /\ pooled' = [pooled EXCEPT ![o] = TRUE]
    /\ victim' = [victim EXCEPT ![t] = NoSlot]
    /\ pc' = [pc EXCEPT ![t] = AfterReset(t)]
    /\ UNCHANGED <<ref, ep, cont, cur, src>>

(* embed_to(ep) after its reset(): the end_point now names the object.     *)
embed_to(t) ==
    /\ pc[t] = "embed"
    /\ ep' = [ep EXCEPT ![t] = cur[t]]
    /\ cur' = [cur EXCEPT ![t] = NoSlot]
    /\ pc' = [pc EXCEPT ![t] = "idle"]
    /\ UNCHANGED <<ref, fam, pooled, table, cont, src, victim>>

(***************************************************************************)
(* set_endpoint(this, rhs.ip, rhs.port), the second half of operator=:    *)
(* the id is copied and inc_ref() counts the new holder.  The caller keeps *)
(* rhs alive and unchanged during the copy (BeingCopied).                 *)
(***************************************************************************)
set_endpoint(t) ==
    LET u == src[t]
        o == ep[u]
    IN  /\ pc[t] = "copy"
        /\ ep' = [ep EXCEPT ![t] = o]
        /\ ref' = IF o # NoSlot THEN [ref EXCEPT ![o] = @ + 1] ELSE ref
        /\ pc' = [pc EXCEPT ![t] = "idle"]
        /\ UNCHANGED <<fam, pooled, table, cont, cur, src, victim>>

Next ==
    \E t \in Threads :
        \/ create(t)
        \/ dedup(t)
        \/ \E u \in Threads : assign(t, u)
        \/ destroy(t)
        \/ reset(t)
        \/ erase(t)
        \/ embed_to(t)
        \/ set_endpoint(t)

Spec == Init /\ [][Next]_vars

-----------------------------------------------------------------------------
(* The references a thread holds: its end_point, and the object create()   *)
(* has counted for it but not yet embedded.                                *)
Holds(t, s) == (IF ep[t] = s THEN 1 ELSE 0) + (IF cur[t] = s THEN 1 ELSE 0)

(***************************************************************************)
(* _ref_count is exact: after every step of every thread, the count of an  *)
(* object equals the number of end_points and in-flight create() calls     *)
(* holding it.  It is about the speculative fetch_add/fetch_sub pair in    *)
(* GlobalEndPointSet::insert and the unlocked fetch_sub of dec_ref.        *)
(***************************************************************************)
RefCountExact ==
    \A s \in Slots : ref[s] = MapThenSumSet(LAMBDA t : Holds(t, s), Threads)

(***************************************************************************)
(* Deduplication: every object a thread holds (past insert) is the entry   *)
(* of the global set for its address, so two end_points of one address    *)
(* carry one id.  It is about erase(this) running after another thread    *)
(* replaced this object in the set.                                        *)
(***************************************************************************)
HeldIsIndexed ==
    \A t \in Threads :
        \A s \in ({ep[t]} \cup IF pc[t] = "dedup" THEN {} ELSE {cur[t]}) \ {NoSlot} :
            /\ fam[s] # Unspec
            /\ table[fam[s]] = s

(***************************************************************************)
(* The MELON_CHECKs of new_extended_endpoint: a slot on the pool free list *)
(* has count 0 and AF_UNSPEC, and no set entry still points at it.         *)
(***************************************************************************)
PooledIsClean ==
    \A s \in Slots :
        pooled[s] => /\ ref[s] = 0
                     /\ fam[s] = Unspec
                     /\ s \notin Range(table)

(***************************************************************************)
(* No object leaks: an object out of the pool with count 0 is one a        *)
(* dec_ref is about to erase and return.  It is about dedup() giving the   *)
(* losing duplicate back and about the replaced entry of insert.           *)
(***************************************************************************)
NoLeak ==
    \A s \in Slots :
        (~pooled[s] /\ ref[s] = 0) => \E t \in Threads : victim[t] = s

=============================================================================
