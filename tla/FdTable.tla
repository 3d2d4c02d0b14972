------------------------------ MODULE FdTable ------------------------------
(***************************************************************************)
(* The file descriptors of WASI (libc-wasi, posix.c of WAMR 2.4.1): the    *)
(* table, the reference counts of the objects behind it and the table of   *)
(* preopened directories, under calls of several threads.  A step lasts    *)
(* from one lock of the table to the next; the system call between them is *)
(* where threads interleave.  Calls that fail before they change anything  *)
(* are left out.                                                           *)
(***************************************************************************)
EXTENDS Integers, FiniteSets, TLC

CONSTANTS Threads,
          Objects,       \* the fd_objects there may be
          Preopened,     \* the one that is there at the start, as fd 0
          None,
          Asked,         \* the sets of rights a call may ask for
          Granted,       \* the rights the host has given to that directory
          SizeBits,      \* the width of size_t
          MaxRenumbers   \* bound: calls of fd_renumber

(* An fd_object is longer than four bytes of the 2^SizeBits there are.     *)
ASSUME FdAssumption ==
    /\ Preopened \in Objects /\ None \notin Objects
    /\ IsFiniteSet(Threads) /\ IsFiniteSet(Objects)
    /\ SizeBits \in Nat /\ 4 * Cardinality(Objects) < 2^SizeBits
    /\ MaxRenumbers \in Nat

VARIABLES entries,    \* fd -> object and rights, for fd in 0 .. size - 1
          used,       \* entries in use, as the table counts them: a size_t
          prestats,   \* the fds that are preopened -> their directory
          refcount,   \* of each object
          file,       \* the handle of each object
          pc, held,   \* where each thread is, and the object it refers to
          want,       \* the rights it opens with
          renumbers,
          lost,       \* history: objects fd_table_insert has dropped
          unnamed     \* history: fd_renumber had no memory for a name

history == <<renumbers, lost, unnamed>>
vars == <<entries, used, prestats, refcount, file, pc, held, want, history>>

size == Cardinality(DOMAIN entries)

Unused == [object |-> None, rights_base |-> {}, rights_inheriting |-> {}]

InUse == {fd \in DOMAIN entries : entries[fd].object # None}

Wrapped(n) == n % 2^SizeBits

NoRights == [base |-> {}, inheriting |-> {}]

(* fd_table_init, and fd_table_insert_existing of one directory *)
Init ==
    /\ entries = [fd \in 0 .. 1 |->
          IF fd = 0 THEN [object |-> Preopened, rights_base |-> Granted,
                          rights_inheriting |-> Granted]
          ELSE Unused]
    /\ used = 1
    /\ prestats = [fd \in {0} |-> Preopened]
    /\ refcount = [o \in Objects |-> IF o = Preopened THEN 1 ELSE 0]
    /\ file = [o \in Objects |-> IF o = Preopened THEN "open" ELSE "none"]
    /\ pc = [t \in Threads |-> "idle"]
    /\ held = [t \in Threads |-> None]
    /\ want = [t \in Threads |-> NoRights]
    /\ renumbers = 0 /\ lost = {} /\ unnamed = FALSE

-----------------------------------------------------------------------------
(* fd_object_release of each object of a set *)
Mut_Releasing(gone) ==
    /\ refcount' = [o \in Objects |-> IF o \in gone THEN refcount[o] - 1 ELSE refcount[o]]
    /\ file' = [o \in Objects |-> IF o \in gone /\ refcount[o] <= 2 THEN "closed" ELSE file[o]]

Releasing(gone) ==
    /\ refcount' = [o \in Objects |-> IF o \in gone THEN refcount[o] - 1 ELSE refcount[o]]
    /\ file' = [o \in Objects |-> IF o \in gone /\ refcount[o] = 1 THEN "closed" ELSE file[o]]

Idle(t) == /\ pc' = [pc EXCEPT ![t] = "idle"]
           /\ held' = [held EXCEPT ![t] = None]
           /\ want' = [want EXCEPT ![t] = NoRights]

Without(f, x) == [y \in DOMAIN f \ {x} |-> f[y]]

(* fd_object_get with the rights a call needs *)
Get(t, fd, base, inheriting, next) ==
    /\ pc[t] = "idle" /\ fd \in InUse
    /\ base \subseteq entries[fd].rights_base
    /\ inheriting \subseteq entries[fd].rights_inheriting
    /\ refcount' = [refcount EXCEPT ![entries[fd].object] = @ + 1]
    /\ held' = [held EXCEPT ![t] = entries[fd].object]
    /\ pc' = [pc EXCEPT ![t] = next]
    /\ UNCHANGED <<entries, used, prestats, file, history>>

(* fd_read, fd_write, fd_sync, ...: the system call follows, and then the  *)
(* object is released                                                      *)
fd_read(t, fd) == Get(t, fd, {"read"}, {}, "using") /\ UNCHANGED want

Release(t) ==
    /\ pc[t] \in {"using", "closing"}
    /\ Releasing({held[t]})
    /\ Idle(t)
    /\ UNCHANGED <<entries, used, prestats, history>>

(* fd_close: the entry goes under the lock, the object after it *)
Mut_fd_close(t, fd) ==
    /\ pc[t] = "idle" /\ fd \in InUse
    /\ entries' = [entries EXCEPT ![fd] = Unused]
    /\ used' = Wrapped(used - 1)
    /\ held' = [held EXCEPT ![t] = entries[fd].object]
    /\ pc' = [pc EXCEPT ![t] = "closing"]
    /\ UNCHANGED <<prestats, refcount, file, want, history>>

fd_close(t, fd) ==
    /\ pc[t] = "idle" /\ fd \in InUse
    /\ entries' = [entries EXCEPT ![fd] = Unused]
    /\ used' = Wrapped(used - 1)
    /\ prestats' = Without(prestats, fd)
    /\ held' = [held EXCEPT ![t] = entries[fd].object]
    /\ pc' = [pc EXCEPT ![t] = "closing"]
    /\ UNCHANGED <<refcount, file, want, history>>

(* The table of preopened directories after a renumbering: the entry moves *)
(* along, unless there is no memory for it; what "to" was is forgotten.    *)
Moved(from, to) ==
    \/ /\ from \in DOMAIN prestats
       /\ prestats' = [fd \in (DOMAIN prestats \ {from}) \cup {to} |->
                          IF fd = to THEN prestats[from] ELSE prestats[fd]]
       /\ UNCHANGED unnamed
    \/ /\ prestats' = Without(prestats, to)
       /\ unnamed' = (unnamed \/ from \in DOMAIN prestats)

(* fd_renumber: two entries are detached and one attached, which is        *)
(* counted, and then once more: --ft->used.                                *)
fd_renumber(t, from, to) ==
    /\ pc[t] = "idle" /\ {from, to} \subseteq InUse /\ from # to
    /\ renumbers < MaxRenumbers
    /\ renumbers' = renumbers + 1
    /\ entries' = [entries EXCEPT ![to] = entries[from], ![from] = Unused]
    /\ used' = Wrapped(used - 2)
    /\ Moved(from, to)
    /\ Releasing({entries[to].object})
    /\ UNCHANGED <<pc, held, want, lost>>

-----------------------------------------------------------------------------
(* path_open: the directory's rights, which the new fd may not exceed, ... *)
path_open(t, fd, base, inheriting) ==
    /\ Get(t, fd, {"open"}, base \cup inheriting, "opening")
    /\ want' = [want EXCEPT ![t] = [base |-> base, inheriting |-> inheriting]]

(* ... the file, of which only a directory has more to pass on, ... *)
Opened(t) ==
    /\ pc[t] = "opening"
    /\ LET free == {o \in Objects : file[o] = "none"}
       IN \E isDirectory \in BOOLEAN :
            /\ free # {}
            /\ LET o == CHOOSE x \in free : TRUE
               IN  /\ refcount' = [refcount EXCEPT ![o] = 1, ![held[t]] = @ - 1]
                   /\ file' = [file EXCEPT ![o] = "open",
                                           ![held[t]] = IF refcount[held[t]] = 1 THEN "closed" ELSE @]
                   /\ held' = [held EXCEPT ![t] = o]
            /\ want' = [want EXCEPT ![t] = IF isDirectory THEN @
                                           ELSE [base |-> @.base \ {"open"}, inheriting |-> {}]]
    /\ pc' = [pc EXCEPT ![t] = "inserting"]
    /\ UNCHANGED <<entries, used, prestats, history>>

OpenFails(t) ==
    /\ pc[t] = "opening"
    /\ Releasing({held[t]})
    /\ Idle(t)
    /\ UNCHANGED <<entries, used, prestats, history>>

(* fd_table_grow(0, 1): the size is doubled until half of the table stays  *)
(* free.  When used has wrapped, no size may do, and the loop never ends:  *)
(* the thread stays in it, as if it were never scheduled again.            *)
Doublings == {size * 2^k : k \in 0 .. SizeBits} \cap size .. 2^SizeBits - 1

Mut_Enough(s) == s > 0 /\ s >= used

Enough(s) == s > 0 /\ s >= Wrapped((used + 1) * 2)

GrowsTo(s) == Enough(s) /\ \A r \in Doublings : Enough(r) => s <= r

Grown(s) == [fd \in 0 .. s - 1 |-> IF fd \in DOMAIN entries THEN entries[fd] ELSE Unused]

(* ... and a free entry that is picked at random (fd_table_insert) *)
Insert(t) ==
    /\ pc[t] = "inserting"
    /\ \E s \in Doublings : GrowsTo(s) /\ \E fd \in 0 .. s - 1 :
          /\ Grown(s)[fd].object = None
          /\ entries' = [Grown(s) EXCEPT ![fd] =
                [object |-> held[t], rights_base |-> want[t].base,
                 rights_inheriting |-> want[t].inheriting]]
    /\ used' = Wrapped(used + 1)
    /\ Idle(t)
    /\ UNCHANGED <<prestats, refcount, file, history>>

(* No memory for the table: the object is released.  No random number: the *)
(* table has grown, and the object is not released.                        *)
InsertFails(t) ==
    /\ pc[t] = "inserting"
    /\ \E s \in Doublings : GrowsTo(s) /\
          \/ s # size /\ Releasing({held[t]}) /\ UNCHANGED <<entries, lost>>
          \/ /\ entries' = Grown(s) /\ lost' = lost \cup {held[t]}
             /\ UNCHANGED <<refcount, file>>
    /\ Idle(t)
    /\ UNCHANGED <<used, prestats, renumbers, unnamed>>

(* fd_fdstat_set_rights *)
Mut_fd_fdstat_set_rights(t, fd, base, inheriting) ==
    /\ pc[t] = "idle" /\ fd \in InUse
    /\ base \subseteq entries[fd].rights_base
    /\ entries' = [entries EXCEPT ![fd].rights_base = base,
                                  ![fd].rights_inheriting = inheriting]
    /\ UNCHANGED <<used, prestats, refcount, file, pc, held, want, history>>

fd_fdstat_set_rights(t, fd, base, inheriting) ==
    /\ pc[t] = "idle" /\ fd \in InUse
    /\ base \subseteq entries[fd].rights_base
    /\ inheriting \subseteq entries[fd].rights_inheriting
    /\ entries' = [entries EXCEPT ![fd].rights_base = base,
                                  ![fd].rights_inheriting = inheriting]
    /\ UNCHANGED <<used, prestats, refcount, file, pc, held, want, history>>

(* fd_table_destroy and fd_prestats_destroy, when no thread is left *)
Destroy ==
    /\ \A t \in Threads : pc[t] = "idle"
    /\ Releasing({entries[fd].object : fd \in InUse})
    /\ entries' = [fd \in DOMAIN entries |-> Unused]
    /\ prestats' = [fd \in {} |-> None]
    /\ pc' = [t \in Threads |-> "ended"]
    /\ UNCHANGED <<used, held, want, history>>

Ended == (\A t \in Threads : pc[t] = "ended") /\ UNCHANGED vars

Next ==
    \/ \E t \in Threads :
          \/ Release(t) \/ Opened(t) \/ OpenFails(t) \/ Insert(t) \/ InsertFails(t)
          \/ \E fd \in InUse :
                \/ fd_read(t, fd) \/ fd_close(t, fd)
                \/ \E to \in InUse : fd_renumber(t, fd, to)
                \/ \E base, inheriting \in Asked :
                      \/ path_open(t, fd, base, inheriting)
                      \/ fd_fdstat_set_rights(t, fd, base, inheriting)
    \/ Destroy \/ Ended

Spec == Init /\ [][Next]_vars

(* Threads are alike *)
Symmetry == Permutations(Threads)

-----------------------------------------------------------------------------
EntriesOf(o) == {fd \in DOMAIN entries : entries[fd].object = o}

HoldersOf(o) == {t \in Threads : held[t] = o}

LostOf(o) == {o} \cap lost

(* The count of an object is the number of its entries and of the calls    *)
(* that use it, whatever closes, renumberings and failures happen          *)
(* meanwhile; the handle is open exactly as long as there are any, so that *)
(* no call runs on a closed one and none is left open (refcount_acquire,   *)
(* fd_object_release).  Only for an object that fd_table_insert drops when *)
(* it gets no random number is one reference never given back.             *)
RefCountsAreExact ==
    \A o \in Objects :
        /\ refcount[o] = Cardinality(EntriesOf(o)) + Cardinality(HoldersOf(o))
                         + Cardinality(LostOf(o))
        /\ file[o] = "open" <=> refcount[o] > 0

(* A preopened fd is open, and is the directory that it is named for: the  *)
(* two tables change together in fd_close and in fd_renumber, except when  *)
(* fd_renumber finds no memory for the name.                               *)
PrestatsNameTheirDirectory ==
    ~unnamed => \A fd \in DOMAIN prestats : fd \in InUse /\ entries[fd].object = prestats[fd]

(* No chain of openings, renumberings and changes of rights, whatever it   *)
(* interleaves with, ends in an fd with a right that the host has not      *)
(* given (fd_table_get_entry, wasmtime_ssp_path_open).                     *)
RightsWithinGrant ==
    \A fd \in InUse :
        entries[fd].rights_base \cup entries[fd].rights_inheriting \subseteq Granted

(* fd_table_unused ends, since an entry is free: an insertion into the     *)
(* table as it is never finds it full.  Each renumbering counts one entry  *)
(* too few, which a table bears as long as there were at most half as many *)
(* of them as it has entries.                                              *)
ThereIsAFreeSlot ==
    \A t \in Threads :
        pc[t] = "inserting" /\ GrowsTo(size) /\ 2 * renumbers <= size => InUse # DOMAIN entries

(* assert(ft->used > 0 && "Reference count mismatch") of fd_table_detach,  *)
(* which fd_close and fd_renumber call for an fd that is in use            *)
CountIsPositive == InUse # {} => used > 0

=============================================================================
