--------------------------- MODULE FdTableProofs ---------------------------
(***************************************************************************)
(* The properties of the file descriptor table (FdTable) for any number of *)
(* threads, objects and renumberings, and any sets of rights.              *)
(***************************************************************************)
EXTENDS FdTable, FiniteSetTheorems, TLAPS

Entry == [object : Objects \cup {None}, rights_base : SUBSET Granted,
          rights_inheriting : SUBSET Granted]

Places == {"idle", "using", "closing", "opening", "inserting", "ended"}

(* The types, with the bound on all rights that makes RightsWithinGrant    *)
(* inductive: also the rights a thread is about to install are granted     *)
FdTypeOK ==
    /\ size \in Nat /\ entries \in [0 .. size - 1 -> Entry]
    /\ used \in Int /\ renumbers \in Nat
    /\ prestats \in [DOMAIN prestats -> Objects]
    /\ refcount \in [Objects -> Int] /\ file \in [Objects -> {"none", "open", "closed"}]
    /\ pc \in [Threads -> Places] /\ held \in [Threads -> Objects \cup {None}]
    /\ want \in [Threads -> [base : SUBSET Granted, inheriting : SUBSET Granted]]
    /\ lost \subseteq Objects
    /\ \A t \in Threads : held[t] = None <=> pc[t] \in {"idle", "ended"}

(* An object that is about to be inserted is referred to by nobody else,   *)
(* and no two entries share one                                            *)
Unshared ==
    /\ \A t \in Threads : pc[t] = "inserting" => refcount[held[t]] = 1
    /\ \A fd, gd \in InUse : entries[fd].object = entries[gd].object => fd = gd

(* Until the table is destroyed, used is short by one per renumbering *)
UsedIsShort ==
    (\E t \in Threads : pc[t] # "ended") => used = Wrapped(Cardinality(InUse) - renumbers)

FdInv == FdTypeOK /\ RefCountsAreExact /\ Unshared /\ UsedIsShort /\ PrestatsNameTheirDirectory

-----------------------------------------------------------------------------
(* The width of size_t leaves room for the objects. *)
LEMMA WidthIsPositive ==
    /\ Cardinality(Objects) \in Nat /\ 2^SizeBits \in Nat \ {0}
    /\ 4 * Cardinality(Objects) < 2^SizeBits
  BY FdAssumption, FS_CardinalityType

(* Arithmetic on size_t: what is within the width is kept, and adding to a *)
(* wrapped number is adding and wrapping.                                  *)
LEMMA WrapAdds ==
    ASSUME NEW a \in Int, NEW b \in Int
    PROVE  /\ Wrapped(a) \in 0 .. 2^SizeBits - 1
           /\ a \in 0 .. 2^SizeBits - 1 => Wrapped(a) = a
           /\ Wrapped(Wrapped(a) + b) = Wrapped(a + b)
  <1> DEFINE m == 2^SizeBits
  <1>m. m \in Nat \ {0}
    BY Zenon, WidthIsPositive
  <1> HIDE DEF m
  <1>1. /\ a % m \in 0 .. m - 1 /\ (a + b) % m \in 0 .. m - 1
        /\ a \in 0 .. m - 1 => a % m = a
    BY <1>m
  <1>2. /\ a = m * (a \div m) + (a % m) /\ a \div m \in Int
        /\ a + b = m * ((a + b) \div m) + ((a + b) % m) /\ (a + b) \div m \in Int
    BY <1>m
  <1>3. ASSUME NEW x \in Int, NEW q \in Int, NEW r \in 0 .. m - 1, x = m * q + r
        PROVE  x % m = r
    BY <1>m, <1>3
  <1>4. (a % m) + b = m * ((a + b) \div m - a \div m) + ((a + b) % m)
    BY <1>m, <1>1, <1>2
  <1>5. ((a % m) + b) % m = (a + b) % m
    <2>1. (a % m) + b \in Int /\ (a + b) \div m - a \div m \in Int
      BY <1>1, <1>2
    <2> QED
      BY Zenon, <1>1, <1>3, <1>4, <2>1
  <1> QED
    BY Zenon, <1>1, <1>5 DEF Wrapped, m

(* The cardinalities of two sets that differ in one element at most *)
LEMMA OneApart ==
    ASSUME NEW A, NEW B, NEW x, IsFiniteSet(A), A \ {x} = B \ {x}
    PROVE  /\ IsFiniteSet(B) /\ Cardinality(A) \in Nat /\ Cardinality(B) \in Nat
           /\ Cardinality(B) = Cardinality(A) + (IF x \in B THEN 1 ELSE 0)
                                              - (IF x \in A THEN 1 ELSE 0)
  <1>1. Cardinality(A) \in Nat
    BY Zenon, FS_CardinalityType
  <1>2. CASE x \in B
    <2>1. B = A \cup {x}
      BY Zenon, <1>2
    <2> QED
      BY <1>1, <1>2, <2>1, FS_AddElement
  <1>3. CASE x \notin B
    <2>1. B = A \ {x}
      BY Zenon, <1>3
    <2>2. /\ IsFiniteSet(B) /\ Cardinality(B) \in Nat
          /\ Cardinality(B) = IF x \in A THEN Cardinality(A) - 1 ELSE Cardinality(A)
      BY Zenon, <2>1, FS_RemoveElement, FS_CardinalityType
    <2> QED
      BY <1>1, <1>3, <2>2
  <1> QED
    BY Zenon, <1>2, <1>3

(* The size of a table is the length of its domain. *)
LEMMA SizeIsLength ==
    ASSUME NEW n \in Nat, NEW S, NEW f \in [0 .. n - 1 -> S]
    PROVE  Cardinality(DOMAIN f) = n
  <1>1. Cardinality(0 .. n - 1) = n
    BY FS_Interval
  <1> QED
    BY Zenon, <1>1

(* Releasing changes no other than the two fields, within their types. *)
LEMMA ReleasingTypes ==
    ASSUME FdTypeOK, NEW gone, Releasing(gone)
    PROVE  refcount' \in [Objects -> Int] /\ file' \in [Objects -> {"none", "open", "closed"}]
  BY DEF Releasing, FdTypeOK

(* A thread that becomes idle holds nothing. *)
LEMMA IdleTypes ==
    ASSUME FdTypeOK, NEW t \in Threads, Idle(t)
    PROVE  /\ pc' \in [Threads -> Places] /\ held' \in [Threads -> Objects \cup {None}]
           /\ want' \in [Threads -> [base : SUBSET Granted, inheriting : SUBSET Granted]]
           /\ \A u \in Threads : held'[u] = None <=> pc'[u] \in {"idle", "ended"}
  BY Zenon DEF Idle, FdTypeOK, Places, NoRights

(* The table that fd_table_grow leaves keeps its entries. *)
LEMMA GrownTable ==
    ASSUME FdTypeOK, NEW s \in Doublings
    PROVE  /\ s \in Nat /\ size <= s
           /\ Grown(s) \in [0 .. s - 1 -> Entry]
           /\ DOMAIN entries = 0 .. size - 1 /\ DOMAIN entries \subseteq 0 .. s - 1
           /\ \A fd \in DOMAIN entries : Grown(s)[fd] = entries[fd]
           /\ \A fd \in 0 .. s - 1 : fd \notin DOMAIN entries => Grown(s)[fd] = Unused
  <1>1. s \in Nat /\ size <= s
    BY WidthIsPositive DEF Doublings, FdTypeOK
  <1>2. Unused \in Entry
    BY Zenon DEF Unused, Entry
  <1> HIDE DEF Unused, Entry, size
  <1> QED
    BY <1>1, <1>2 DEF Grown, FdTypeOK

(* Every variable keeps its type, no right appears that is not granted,    *)
(* and a thread holds an object exactly while it is in a call.             *)
LEMMA TypeStep == FdTypeOK /\ [Next]_vars => FdTypeOK'
  <1> SUFFICES ASSUME FdTypeOK, [Next]_vars PROVE FdTypeOK'
    OBVIOUS
  <1> USE FdAssumption
  <1>len. ASSUME NEW n \in Nat, entries' \in [0 .. n - 1 -> Entry]
          PROVE  size' \in Nat /\ entries' \in [0 .. size' - 1 -> Entry]
    BY Zenon, <1>len, SizeIsLength DEF size
  <1>same. ASSUME UNCHANGED entries
           PROVE  size' \in Nat /\ entries' \in [0 .. size' - 1 -> Entry]
    BY Zenon, <1>same DEF size, FdTypeOK
  <1>wrap. \A n \in Int : Wrapped(n) \in Int
    BY WrapAdds
  <1>unused. Unused \in Entry
    BY Zenon DEF Unused, Entry
  <1>get. ASSUME NEW t \in Threads, NEW fd \in InUse, NEW base, NEW inheriting,
                 NEW next \in Places \ {"idle", "ended"}, Get(t, fd, base, inheriting, next),
                 want' \in [Threads -> [base : SUBSET Granted, inheriting : SUBSET Granted]]
          PROVE  FdTypeOK'
    <2>1. entries[fd].object \in Objects
      BY Zenon DEF InUse, FdTypeOK, Entry
    <2>2. /\ held' = [held EXCEPT ![t] = entries[fd].object] /\ pc' = [pc EXCEPT ![t] = next]
          /\ refcount' = [refcount EXCEPT ![entries[fd].object] = @ + 1]
          /\ UNCHANGED <<entries, used, prestats, file, renumbers, lost>>
      BY Zenon, <1>get DEF Get, history
    <2>3. /\ held' \in [Threads -> Objects \cup {None}] /\ pc' \in [Threads -> Places]
          /\ \A u \in Threads : held'[u] = None <=> pc'[u] \in {"idle", "ended"}
      BY Zenon, <2>1, <2>2 DEF FdTypeOK
    <2>4. refcount' \in [Objects -> Int]
      BY <2>1, <2>2 DEF FdTypeOK
    <2> QED
      BY Zenon, <1>get, <1>same, <2>2, <2>3, <2>4 DEF FdTypeOK
  <1>1. ASSUME NEW t \in Threads, Release(t) PROVE FdTypeOK'
    BY Zenon, <1>1, <1>same, ReleasingTypes, IdleTypes DEF Release, FdTypeOK, history
  <1>2. ASSUME NEW t \in Threads, Opened(t) PROVE FdTypeOK'
    <2>1. PICK isDirectory \in BOOLEAN :
             want' = [want EXCEPT ![t] = IF isDirectory THEN @
                                         ELSE [base |-> @.base \ {"open"}, inheriting |-> {}]]
      BY Zenon, <1>2 DEF Opened
    <2>2. want' \in [Threads -> [base : SUBSET Granted, inheriting : SUBSET Granted]]
      BY Zenon, <2>1 DEF FdTypeOK
    <2>3. held[t] \in Objects
      BY Zenon, <1>2 DEF Opened, FdTypeOK
    <2>4. PICK o \in Objects : /\ held' = [held EXCEPT ![t] = o]
             /\ refcount' = [refcount EXCEPT ![o] = 1, ![held[t]] = @ - 1]
             /\ file' = [file EXCEPT ![o] = "open",
                                     ![held[t]] = IF refcount[held[t]] = 1 THEN "closed" ELSE @]
      BY Zenon, <1>2 DEF Opened
    <2>5. /\ refcount' \in [Objects -> Int] /\ file' \in [Objects -> {"none", "open", "closed"}]
      <3>1. refcount \in [Objects -> Int] /\ file \in [Objects -> {"none", "open", "closed"}]
        BY Zenon DEF FdTypeOK
      <3> QED
        BY <2>3, <2>4, <3>1
    <2>6. /\ pc' = [pc EXCEPT ![t] = "inserting"]
          /\ UNCHANGED <<entries, used, prestats, renumbers, lost>>
      BY Zenon, <1>2 DEF Opened, history
    <2>7. /\ held' \in [Threads -> Objects \cup {None}] /\ pc' \in [Threads -> Places]
          /\ \A u \in Threads : held'[u] = None <=> pc'[u] \in {"idle", "ended"}
      BY Zenon, <2>4, <2>6 DEF FdTypeOK, Places
    <2> QED
      BY Zenon, <1>same, <2>2, <2>5, <2>6, <2>7 DEF FdTypeOK
  <1>3. ASSUME NEW t \in Threads, OpenFails(t) PROVE FdTypeOK'
    BY Zenon, <1>3, <1>same, ReleasingTypes, IdleTypes DEF OpenFails, FdTypeOK, history
  <1>4. ASSUME NEW t \in Threads, Insert(t) PROVE FdTypeOK'
    <2>1. PICK s \in Doublings : \E fd \in 0 .. s - 1 :
             entries' = [Grown(s) EXCEPT ![fd] =
                [object |-> held[t], rights_base |-> want[t].base,
                 rights_inheriting |-> want[t].inheriting]]
      BY Zenon, <1>4 DEF Insert
    <2>2. [object |-> held[t], rights_base |-> want[t].base,
           rights_inheriting |-> want[t].inheriting] \in Entry
      BY Zenon DEF FdTypeOK, Entry
    <2>3. s \in Nat /\ entries' \in [0 .. s - 1 -> Entry]
      BY <2>1, <2>2, GrownTable
    <2>4. /\ used' = Wrapped(used + 1) /\ Idle(t)
          /\ UNCHANGED <<prestats, refcount, file, renumbers, lost>>
      BY Zenon, <1>4 DEF Insert, history
    <2>5. used' \in Int
      BY <1>wrap, <2>4 DEF FdTypeOK
    <2> QED
      BY Zenon, <1>len, <2>3, <2>4, <2>5, IdleTypes DEF FdTypeOK
  <1>5. ASSUME NEW t \in Threads, InsertFails(t) PROVE FdTypeOK'
    <2>1. PICK s \in Doublings :
             \/ s # size /\ Releasing({held[t]}) /\ UNCHANGED <<entries, lost>>
             \/ /\ entries' = Grown(s) /\ lost' = lost \cup {held[t]}
                /\ UNCHANGED <<refcount, file>>
      BY Zenon, <1>5 DEF InsertFails
    <2>2. size' \in Nat /\ entries' \in [0 .. size' - 1 -> Entry]
      <3>1. CASE UNCHANGED entries
        BY Zenon, <1>same, <3>1
      <3>2. CASE entries' = Grown(s)
        <4>1. s \in Nat /\ entries' \in [0 .. s - 1 -> Entry]
          BY Zenon, <3>2, GrownTable
        <4> QED
          BY Zenon, <1>len, <4>1
      <3> QED
        BY Zenon, <2>1, <3>1, <3>2
    <2>3. held[t] \in Objects
      BY Zenon, <1>5 DEF InsertFails, FdTypeOK
    <2> QED
      BY Zenon, <1>5, <2>1, <2>2, <2>3, ReleasingTypes, IdleTypes DEF InsertFails, FdTypeOK
  <1>6. ASSUME NEW t \in Threads, NEW fd \in InUse, fd_read(t, fd) PROVE FdTypeOK'
    BY Zenon, <1>6, <1>get DEF fd_read, Places, FdTypeOK
  <1>7. ASSUME NEW t \in Threads, NEW fd \in InUse, fd_close(t, fd) PROVE FdTypeOK'
    <2>1. entries[fd].object \in Objects /\ entries' \in [0 .. size - 1 -> Entry]
      BY Zenon, <1>7, <1>unused DEF InUse, FdTypeOK, Entry, fd_close
    <2>2. prestats' \in [DOMAIN prestats' -> Objects]
      BY Zenon, <1>7 DEF fd_close, Without, FdTypeOK
    <2>3. /\ held' = [held EXCEPT ![t] = entries[fd].object]
          /\ pc' = [pc EXCEPT ![t] = "closing"] /\ used' = Wrapped(used - 1)
          /\ UNCHANGED <<refcount, file, want, renumbers, lost>>
      BY Zenon, <1>7 DEF fd_close, history
    <2>4. /\ held' \in [Threads -> Objects \cup {None}] /\ pc' \in [Threads -> Places]
          /\ \A u \in Threads : held'[u] = None <=> pc'[u] \in {"idle", "ended"}
      BY Zenon, <2>1, <2>3 DEF FdTypeOK, Places
    <2>5. size \in Nat /\ used' \in Int
      BY <1>wrap, <2>3 DEF FdTypeOK
    <2> QED
      BY Zenon, <1>len, <2>1, <2>2, <2>3, <2>4, <2>5 DEF FdTypeOK
  <1>8. ASSUME NEW t \in Threads, NEW from \in InUse, NEW to \in InUse, fd_renumber(t, from, to)
        PROVE FdTypeOK'
    <2>1. entries' \in [0 .. size - 1 -> Entry]
      BY Zenon, <1>8, <1>unused DEF InUse, FdTypeOK, Entry, fd_renumber
    <2>2. prestats' \in [DOMAIN prestats' -> Objects]
      BY Zenon, <1>8 DEF fd_renumber, Moved, Without, FdTypeOK
    <2>3. used' \in Int /\ renumbers' \in Nat
      BY <1>8, <1>wrap DEF fd_renumber, FdTypeOK
    <2>4. refcount' \in [Objects -> Int] /\ file' \in [Objects -> {"none", "open", "closed"}]
      BY Zenon, <1>8, ReleasingTypes DEF fd_renumber
    <2>5. size \in Nat /\ UNCHANGED <<pc, held, want, lost>>
      BY Zenon, <1>8 DEF fd_renumber, FdTypeOK
    <2> QED
      BY Zenon, <1>len, <2>1, <2>2, <2>3, <2>4, <2>5 DEF FdTypeOK
  <1>9. ASSUME NEW t \in Threads, NEW fd \in InUse, NEW base \in Asked, NEW inheriting \in Asked,
               path_open(t, fd, base, inheriting)
        PROVE FdTypeOK'
    <2>1. base \in SUBSET Granted /\ inheriting \in SUBSET Granted
      BY Zenon, <1>9 DEF path_open, Get, InUse, FdTypeOK, Entry
    <2> QED
      BY Zenon, <1>9, <1>get, <2>1 DEF path_open, Places, FdTypeOK
  <1>10. ASSUME NEW t \in Threads, NEW fd \in InUse, NEW base \in Asked, NEW inheriting \in Asked,
               fd_fdstat_set_rights(t, fd, base, inheriting)
         PROVE FdTypeOK'
    <2>1. base \in SUBSET Granted /\ inheriting \in SUBSET Granted
      BY Zenon, <1>10 DEF fd_fdstat_set_rights, InUse, FdTypeOK, Entry
    <2>2. entries' \in [0 .. size - 1 -> Entry]
      <3>1. /\ fd \in 0 .. size - 1 /\ entries \in [0 .. size - 1 -> Entry]
            /\ entries[fd].object \in Objects \cup {None}
        BY Zenon DEF InUse, FdTypeOK, Entry
      <3>2. DOMAIN entries' = 0 .. size - 1
        BY Zenon, <1>10, <3>1 DEF fd_fdstat_set_rights
      <3>3. /\ entries'[fd] = [object |-> entries[fd].object, rights_base |-> base,
                               rights_inheriting |-> inheriting]
            /\ \A gd \in (0 .. size - 1) \ {fd} : entries'[gd] = entries[gd]
            /\ entries' = [gd \in 0 .. size - 1 |-> entries'[gd]]
        BY Zenon, <1>10, <3>1 DEF fd_fdstat_set_rights, Entry
      <3> QED
        BY <2>1, <3>1, <3>2, <3>3 DEF Entry
    <2> QED
      BY Zenon, <1>10, <1>len, <2>2 DEF fd_fdstat_set_rights, FdTypeOK, history
  <1>11. CASE Destroy
    <2>1. entries' \in [0 .. size - 1 -> Entry]
      BY Zenon, <1>11, <1>unused DEF Destroy, FdTypeOK
    <2> QED
      BY Zenon, <1>11, <1>len, <2>1, ReleasingTypes DEF Destroy, FdTypeOK, history, Places
  <1>12. CASE UNCHANGED vars
    BY Zenon, <1>12, <1>same DEF vars, history, FdTypeOK
  <1> QED
    BY Zenon, <1>1, <1>2, <1>3, <1>4, <1>5, <1>6, <1>7, <1>8, <1>9, <1>10, <1>11, <1>12
       DEF Next, Ended

-----------------------------------------------------------------------------
(* The three counts that make up a reference count are numbers. *)
LEMMA CountsAreNumbers ==
    ASSUME FdTypeOK, NEW o \in Objects
    PROVE  /\ IsFiniteSet(EntriesOf(o)) /\ Cardinality(EntriesOf(o)) \in Nat
           /\ IsFiniteSet(HoldersOf(o)) /\ Cardinality(HoldersOf(o)) \in Nat
           /\ Cardinality(LostOf(o)) = IF o \in lost THEN 1 ELSE 0
  <1>1. IsFiniteSet(DOMAIN entries)
    <2>1. DOMAIN entries = 0 .. size - 1 /\ size - 1 \in Int
      BY DEF FdTypeOK
    <2> QED
      BY <2>1, FS_Interval
  <1>2. EntriesOf(o) \in SUBSET DOMAIN entries /\ HoldersOf(o) \in SUBSET Threads
    BY Zenon DEF EntriesOf, HoldersOf
  <1>3. IsFiniteSet(EntriesOf(o)) /\ IsFiniteSet(HoldersOf(o))
    BY Zenon, <1>1, <1>2, FdAssumption, FS_Subset
  <1>4. LostOf(o) = IF o \in lost THEN {o} ELSE {}
    BY Zenon DEF LostOf
  <1> QED
    BY Zenon, <1>3, <1>4, FS_CardinalityType, FS_Singleton, FS_EmptySet

(* When a thread goes from one object to another, the count of holders     *)
(* changes for these two only.                                             *)
LEMMA HeldChanges ==
    ASSUME FdTypeOK, NEW t \in Threads, NEW x, held' = [held EXCEPT ![t] = x], NEW o \in Objects
    PROVE  Cardinality(HoldersOf(o))' = Cardinality(HoldersOf(o))
               + (IF x = o THEN 1 ELSE 0) - (IF held[t] = o THEN 1 ELSE 0)
  <1>1. HoldersOf(o) \ {t} = HoldersOf(o)' \ {t}
    BY Zenon DEF HoldersOf, FdTypeOK
  <1>2. (t \in HoldersOf(o) <=> held[t] = o) /\ (t \in HoldersOf(o)' <=> x = o)
    BY Zenon DEF HoldersOf, FdTypeOK
  <1> QED
    BY <1>1, <1>2, CountsAreNumbers, OneApart

(* When one entry changes, so does the count of the two objects involved.  *)
LEMMA EntryChanges ==
    ASSUME FdTypeOK, NEW fd \in DOMAIN entries', NEW o \in Objects,
           DOMAIN entries \subseteq DOMAIN entries',
           \A gd \in DOMAIN entries' \ {fd} :
               entries'[gd].object = IF gd \in DOMAIN entries THEN entries[gd].object ELSE None
    PROVE  Cardinality(EntriesOf(o))' = Cardinality(EntriesOf(o))
               + (IF entries'[fd].object = o THEN 1 ELSE 0)
               - (IF fd \in DOMAIN entries /\ entries[fd].object = o THEN 1 ELSE 0)
  <1>1. EntriesOf(o) \ {fd} = EntriesOf(o)' \ {fd}
    BY Zenon, FdAssumption DEF EntriesOf
  <1>2. /\ fd \in EntriesOf(o) <=> fd \in DOMAIN entries /\ entries[fd].object = o
        /\ fd \in EntriesOf(o)' <=> entries'[fd].object = o
    BY Zenon DEF EntriesOf
  <1>3. Cardinality(EntriesOf(o)') = Cardinality(EntriesOf(o))
            + (IF fd \in EntriesOf(o)' THEN 1 ELSE 0) - (IF fd \in EntriesOf(o) THEN 1 ELSE 0)
    BY Zenon, <1>1, CountsAreNumbers, OneApart
  <1> QED
    BY Zenon, <1>2, <1>3

(* What RefCountsAreExact says of one object *)
LEMMA ExactCount ==
    ASSUME FdTypeOK, RefCountsAreExact, NEW o \in Objects
    PROVE  /\ refcount[o] = Cardinality(EntriesOf(o)) + Cardinality(HoldersOf(o))
                            + Cardinality(LostOf(o))
           /\ refcount[o] \in Nat /\ (file[o] = "open" <=> refcount[o] > 0)
           /\ Cardinality(EntriesOf(o)) \in Nat /\ Cardinality(HoldersOf(o)) \in Nat
           /\ Cardinality(LostOf(o)) \in Nat
  <1>1. /\ Cardinality(EntriesOf(o)) \in Nat /\ Cardinality(HoldersOf(o)) \in Nat
        /\ Cardinality(LostOf(o)) \in Nat
    BY CountsAreNumbers
  <1>2. /\ refcount[o] = Cardinality(EntriesOf(o)) + Cardinality(HoldersOf(o))
                         + Cardinality(LostOf(o))
        /\ file[o] = "open" <=> refcount[o] > 0
    BY Zenon DEF RefCountsAreExact
  <1> QED
    BY <1>1, <1>2

(* An object that one thread alone refers to is in no entry and not lost.  *)
LEMMA SoleReference ==
    ASSUME FdTypeOK, RefCountsAreExact, NEW t \in Threads,
           held[t] \in Objects, refcount[held[t]] = 1
    PROVE  EntriesOf(held[t]) = {} /\ HoldersOf(held[t]) = {t} /\ held[t] \notin lost
  <1> DEFINE o == held[t]
  <1>1. t \in HoldersOf(o)
    BY Zenon DEF HoldersOf
  <1>2. Cardinality(HoldersOf(o)) # 0
    BY Zenon, <1>1, CountsAreNumbers, FS_EmptySet
  <1>3. refcount[o] = Cardinality(EntriesOf(o)) + Cardinality(HoldersOf(o))
                      + (IF o \in lost THEN 1 ELSE 0)
    BY Zenon, CountsAreNumbers DEF RefCountsAreExact
  <1>4. Cardinality(EntriesOf(o)) = 0 /\ Cardinality(HoldersOf(o)) = 1 /\ o \notin lost
    <2>1. Cardinality(EntriesOf(o)) \in Nat /\ Cardinality(HoldersOf(o)) \in Nat
      BY Zenon, CountsAreNumbers
    <2> HIDE DEF o
    <2>2. refcount[o] = 1
      BY Zenon DEF o
    <2> QED
      BY <1>2, <1>3, <2>1, <2>2
  <1>5. EntriesOf(o) = {}
    BY Zenon, <1>4, CountsAreNumbers, FS_EmptySet
  <1>6. HoldersOf(o) = {t}
    <2>1. IsFiniteSet(HoldersOf(o))
      BY Zenon, CountsAreNumbers
    <2>2. PICK u : HoldersOf(o) = {u}
      BY Zenon, <1>4, <2>1, FS_Singleton
    <2> QED
      BY Zenon, <1>1, <2>2
  <1> QED
    BY Zenon, <1>4, <1>5, <1>6

(* What fd_object_release does to a count and to the handle. *)
LEMMA ReleasingCounts ==
    ASSUME FdTypeOK, RefCountsAreExact, NEW gone, Releasing(gone), NEW o \in Objects
    PROVE  /\ refcount'[o] = refcount[o] - (IF o \in gone THEN 1 ELSE 0)
           /\ file'[o] = "open" <=> refcount'[o] > 0
  <1>1. /\ refcount'[o] = IF o \in gone THEN refcount[o] - 1 ELSE refcount[o]
        /\ file'[o] = IF o \in gone /\ refcount[o] = 1 THEN "closed" ELSE file[o]
    BY Zenon DEF Releasing
  <1>2. refcount[o] \in Int /\ (file[o] = "open" <=> refcount[o] > 0)
    BY Zenon DEF FdTypeOK, RefCountsAreExact
  <1> QED
    BY <1>1, <1>2

(* An object a thread is about to insert keeps its only reference, when    *)
(* the counts that change are those of objects in the table or of another  *)
(* thread.                                                                 *)
LEMMA InsertingUndisturbed ==
    ASSUME FdTypeOK, RefCountsAreExact, Unshared, NEW t \in Threads, NEW u \in Threads,
           u # t, pc[u] = "inserting", NEW o \in Objects,
           o = held[t] \/ EntriesOf(o) # {}
    PROVE  held[u] # o
  <1>1. held[u] \in Objects /\ refcount[held[u]] = 1
    BY Zenon DEF FdTypeOK, Unshared
  <1>2. EntriesOf(held[u]) = {} /\ HoldersOf(held[u]) = {u}
    BY Zenon, <1>1, SoleReference
  <1>3. o = held[t] => t \in HoldersOf(o)
    BY Zenon DEF HoldersOf
  <1> QED
    BY Zenon, <1>2, <1>3

(* The two calls that give up an object and end *)
LEMMA ReleaseRefs ==
    ASSUME FdTypeOK, RefCountsAreExact, Unshared, NEW t \in Threads, held[t] \in Objects,
           Releasing({held[t]}), Idle(t), UNCHANGED <<entries, lost>>
    PROVE  RefCountsAreExact' /\ Unshared'
  <1>1. /\ held' = [held EXCEPT ![t] = None] /\ pc' = [pc EXCEPT ![t] = "idle"]
    BY Zenon DEF Idle
  <1>2. RefCountsAreExact'
    <2> SUFFICES ASSUME NEW o \in Objects
                 PROVE  /\ refcount'[o] = Cardinality(EntriesOf(o))' + Cardinality(HoldersOf(o))'
                                          + Cardinality(LostOf(o))'
                        /\ file'[o] = "open" <=> refcount'[o] > 0
      BY Zenon DEF RefCountsAreExact
    <2>1. Cardinality(HoldersOf(o))' = Cardinality(HoldersOf(o)) - (IF held[t] = o THEN 1 ELSE 0)
      <3>1. Cardinality(HoldersOf(o))' = Cardinality(HoldersOf(o))
                + (IF None = o THEN 1 ELSE 0) - (IF held[t] = o THEN 1 ELSE 0)
        BY Zenon, <1>1, HeldChanges
      <3>2. None # o
        BY Zenon, FdAssumption
      <3>3. Cardinality(HoldersOf(o)) \in Nat
        BY Zenon, CountsAreNumbers
      <3> QED
        BY <3>1, <3>2, <3>3
    <2>2. EntriesOf(o)' = EntriesOf(o) /\ LostOf(o)' = LostOf(o)
      BY Zenon DEF EntriesOf, LostOf
    <2>3. refcount[o] = Cardinality(EntriesOf(o)) + Cardinality(HoldersOf(o))
                        + Cardinality(LostOf(o))
      BY Zenon DEF RefCountsAreExact
    <2> QED
      BY <2>1, <2>2, <2>3, CountsAreNumbers, ReleasingCounts
  <1>3. ASSUME NEW u \in Threads, pc'[u] = "inserting" PROVE refcount'[held'[u]] = 1
    <2>1. u # t /\ pc[u] = "inserting" /\ held'[u] = held[u] /\ held[u] \in Objects
      BY Zenon, <1>1, <1>3 DEF FdTypeOK
    <2>2. held[u] # held[t]
      BY Zenon, <2>1, InsertingUndisturbed
    <2> QED
      BY <2>1, <2>2, ReleasingCounts DEF Unshared, FdTypeOK
  <1> QED
    BY Zenon, <1>2, <1>3 DEF Unshared, InUse

(* A call that gets an object: one reference and one holder more *)
LEMMA GetRefs ==
    ASSUME FdTypeOK, RefCountsAreExact, Unshared, NEW t \in Threads, NEW fd, NEW base,
           NEW inheriting, NEW next \in Places \ {"inserting"}, Get(t, fd, base, inheriting, next)
    PROVE  RefCountsAreExact' /\ Unshared'
  <1> DEFINE x == entries[fd].object
  <1>1. /\ held' = [held EXCEPT ![t] = x] /\ pc' = [pc EXCEPT ![t] = next] /\ pc[t] = "idle"
        /\ refcount' = [refcount EXCEPT ![x] = @ + 1] /\ UNCHANGED <<entries, file, lost>>
        /\ x \in Objects /\ fd \in EntriesOf(x) /\ held[t] = None
    BY Zenon DEF Get, history, InUse, EntriesOf, FdTypeOK, Entry
  <1> HIDE DEF x
  <1>2. RefCountsAreExact'
    <2> SUFFICES ASSUME NEW o \in Objects
                 PROVE  /\ refcount'[o] = Cardinality(EntriesOf(o))' + Cardinality(HoldersOf(o))'
                                          + Cardinality(LostOf(o))'
                        /\ file'[o] = "open" <=> refcount'[o] > 0
      BY Zenon DEF RefCountsAreExact
    <2>1. Cardinality(HoldersOf(o))' = Cardinality(HoldersOf(o)) + (IF x = o THEN 1 ELSE 0)
      <3>1. Cardinality(HoldersOf(o))' = Cardinality(HoldersOf(o))
                + (IF x = o THEN 1 ELSE 0) - (IF held[t] = o THEN 1 ELSE 0)
        BY ZenonT(30), <1>1, HeldChanges
      <3>2. held[t] # o /\ Cardinality(HoldersOf(o)) \in Nat
        BY Zenon, <1>1, FdAssumption, CountsAreNumbers
      <3> QED
        BY <3>1, <3>2
    <2>2. EntriesOf(o)' = EntriesOf(o) /\ LostOf(o)' = LostOf(o)
      BY Zenon, <1>1 DEF EntriesOf, LostOf
    <2>3. /\ refcount[o] = Cardinality(EntriesOf(o)) + Cardinality(HoldersOf(o))
                           + Cardinality(LostOf(o))
          /\ file[o] = "open" <=> refcount[o] > 0
      BY Zenon DEF RefCountsAreExact
    <2>4. x = o => Cardinality(EntriesOf(o)) # 0
      BY Zenon, <1>1, CountsAreNumbers, FS_EmptySet
    <2>5. /\ refcount'[o] = refcount[o] + (IF x = o THEN 1 ELSE 0) /\ file'[o] = file[o]
      BY <1>1 DEF FdTypeOK
    <2>6. /\ Cardinality(EntriesOf(o)) \in Nat /\ Cardinality(HoldersOf(o)) \in Nat
          /\ Cardinality(LostOf(o)) \in Nat
      BY CountsAreNumbers
    <2>7. CASE x = o
      BY <2>1, <2>2, <2>3, <2>4, <2>5, <2>6, <2>7
    <2>8. CASE x # o
      BY <2>1, <2>2, <2>3, <2>5, <2>6, <2>8
    <2> QED
      BY Zenon, <2>7, <2>8
  <1>3. ASSUME NEW u \in Threads, pc'[u] = "inserting" PROVE refcount'[held'[u]] = 1
    <2>1. u # t /\ pc[u] = "inserting" /\ held'[u] = held[u] /\ held[u] \in Objects
      BY Zenon, <1>1, <1>3 DEF FdTypeOK
    <2>2. held[u] # x
      BY Zenon, <1>1, <2>1, InsertingUndisturbed
    <2> QED
      BY Zenon, <1>1, <2>1, <2>2 DEF Unshared, FdTypeOK
  <1> QED
    BY ZenonT(30), <1>1, <1>3, <1>2 DEF Unshared, InUse

(* path_open between the directory and the new file *)
LEMMA OpenedRefs ==
    ASSUME FdTypeOK, RefCountsAreExact, Unshared, NEW t \in Threads, Opened(t)
    PROVE  RefCountsAreExact' /\ Unshared'
  <1>0. pc[t] = "opening" /\ pc' = [pc EXCEPT ![t] = "inserting"] /\ UNCHANGED <<entries, lost>>
    BY Zenon DEF Opened, history
  <1>2. PICK d \in Objects : d = held[t] /\ t \in HoldersOf(d)
    BY Zenon, <1>0 DEF FdTypeOK, HoldersOf
  <1>1. PICK n \in Objects : /\ file[n] = "none" /\ held' = [held EXCEPT ![t] = n]
           /\ refcount' = [refcount EXCEPT ![n] = 1, ![d] = @ - 1]
           /\ file' = [file EXCEPT ![n] = "open", ![d] = IF refcount[d] = 1 THEN "closed" ELSE @]
    BY Zenon, <1>2 DEF Opened
  <1>3. refcount[d] > 0 /\ d # n /\ refcount[n] = 0
    <2>1. Cardinality(HoldersOf(d)) # 0
      BY Zenon, <1>2, CountsAreNumbers, FS_EmptySet
    <2>2. refcount[d] > 0
      <3>1. /\ refcount[d] = Cardinality(EntriesOf(d)) + Cardinality(HoldersOf(d))
                             + Cardinality(LostOf(d))
            /\ Cardinality(EntriesOf(d)) \in Nat /\ Cardinality(HoldersOf(d)) \in Nat
            /\ Cardinality(LostOf(d)) \in Nat
        BY Zenon, <1>2, ExactCount
      <3> QED
        BY <2>1, <3>1
    <2>3. refcount[n] = 0
      <3>1. refcount[n] \in Nat /\ (file[n] = "open" <=> refcount[n] > 0)
        BY Zenon, <1>1, ExactCount
      <3> QED
        BY <1>1, <3>1
    <2>4. d # n
      BY <2>2, <2>3
    <2> QED
      BY Zenon, <2>2, <2>3, <2>4
  <1>upd. ASSUME NEW o \in Objects
          PROVE  /\ refcount'[o] = IF o = n THEN 1 ELSE IF o = d THEN refcount[o] - 1 ELSE refcount[o]
                 /\ file'[o] = IF o = n THEN "open"
                               ELSE IF o = d /\ refcount[d] = 1 THEN "closed" ELSE file[o]
    BY Zenon, <1>1, <1>2, <1>3 DEF FdTypeOK
  <1>4. RefCountsAreExact'
    <2> SUFFICES ASSUME NEW o \in Objects
                 PROVE  /\ refcount'[o] = Cardinality(EntriesOf(o))' + Cardinality(HoldersOf(o))'
                                          + Cardinality(LostOf(o))'
                        /\ file'[o] = "open" <=> refcount'[o] > 0
      BY Zenon DEF RefCountsAreExact
    <2>1. Cardinality(HoldersOf(o))' = Cardinality(HoldersOf(o))
                + (IF n = o THEN 1 ELSE 0) - (IF d = o THEN 1 ELSE 0)
      <3>1. held' = [held EXCEPT ![t] = n]
        BY Zenon, <1>1
      <3>2. Cardinality(HoldersOf(o))' = Cardinality(HoldersOf(o))
                + (IF n = o THEN 1 ELSE 0) - (IF held[t] = o THEN 1 ELSE 0)
        BY ZenonT(30), <3>1, HeldChanges
      <3> QED
        BY Zenon, <1>2, <3>2
    <2>2. EntriesOf(o)' = EntriesOf(o) /\ LostOf(o)' = LostOf(o)
      BY Zenon, <1>0 DEF EntriesOf, LostOf
    <2>3. CASE o = n
      BY <1>3, <1>upd, <2>1, <2>2, <2>3, ExactCount
    <2>4. CASE o = d
      <3>1. Cardinality(HoldersOf(o))' = Cardinality(HoldersOf(o)) - 1
        <4>1. Cardinality(HoldersOf(o)) \in Nat
          BY Zenon, ExactCount
        <4> QED
          BY <1>3, <2>1, <2>4, <4>1
      <3>2. /\ refcount'[o] = refcount[o] - 1
            /\ file'[o] = IF refcount[o] = 1 THEN "closed" ELSE file[o]
            /\ n # o
        BY Zenon, <1>3, <1>upd, <2>4
      <3>3. refcount[o] > 0
        BY Zenon, <1>3, <2>4
      <3> QED
        BY <2>2, <3>1, <3>2, <3>3, ExactCount
    <2>5. CASE o # n /\ o # d
      BY <1>upd, <2>1, <2>2, <2>5, ExactCount
    <2> QED
      BY Zenon, <2>3, <2>4, <2>5
  <1>5. ASSUME NEW u \in Threads, pc'[u] = "inserting" PROVE refcount'[held'[u]] = 1
    <2>1. CASE u = t
      BY <1>1, <1>upd, <2>1 DEF FdTypeOK
    <2>2. CASE u # t
      <3>1. pc[u] = "inserting" /\ held'[u] = held[u] /\ held[u] \in Objects
        BY Zenon, <1>0, <1>1, <1>5, <2>2 DEF FdTypeOK
      <3>2. refcount[held[u]] = 1 /\ held[u] # d
        BY Zenon, <1>2, <2>2, <3>1, InsertingUndisturbed DEF Unshared
      <3> QED
        BY Zenon, <1>3, <1>upd, <3>1, <3>2
    <2> QED
      BY Zenon, <2>1, <2>2
  <1> QED
    BY Zenon, <1>0, <1>4, <1>5 DEF Unshared, InUse

(* fd_close hands the reference of the entry to the thread *)
LEMMA CloseRefs ==
    ASSUME FdTypeOK, RefCountsAreExact, Unshared, NEW t \in Threads, NEW fd, fd_close(t, fd)
    PROVE  RefCountsAreExact' /\ Unshared'
  <1>1. PICK x \in Objects : x = entries[fd].object
    BY Zenon DEF fd_close, InUse, FdTypeOK, Entry
  <1>2. /\ held' = [held EXCEPT ![t] = x] /\ pc' = [pc EXCEPT ![t] = "closing"] /\ held[t] = None
        /\ entries' = [entries EXCEPT ![fd] = Unused] /\ UNCHANGED <<refcount, file, lost>>
        /\ fd \in DOMAIN entries
    BY Zenon, <1>1 DEF fd_close, history, InUse, FdTypeOK
  <1>3. /\ DOMAIN entries' = DOMAIN entries /\ entries'[fd].object = None
        /\ \A gd \in DOMAIN entries' \ {fd} : entries'[gd].object = entries[gd].object
    BY Zenon, <1>2 DEF FdTypeOK, Unused
  <1>4. RefCountsAreExact'
    <2> SUFFICES ASSUME NEW o \in Objects
                 PROVE  /\ refcount'[o] = Cardinality(EntriesOf(o))' + Cardinality(HoldersOf(o))'
                                          + Cardinality(LostOf(o))'
                        /\ file'[o] = "open" <=> refcount'[o] > 0
      BY Zenon DEF RefCountsAreExact
    <2>c. /\ refcount[o] = Cardinality(EntriesOf(o)) + Cardinality(HoldersOf(o))
                           + Cardinality(LostOf(o))
          /\ file[o] = "open" <=> refcount[o] > 0
          /\ Cardinality(EntriesOf(o)) \in Nat /\ Cardinality(HoldersOf(o)) \in Nat
          /\ Cardinality(LostOf(o)) \in Nat
      BY Zenon, ExactCount
    <2>1. Cardinality(HoldersOf(o))' = Cardinality(HoldersOf(o)) + (IF x = o THEN 1 ELSE 0)
      <3>1. Cardinality(HoldersOf(o))' = Cardinality(HoldersOf(o))
                + (IF x = o THEN 1 ELSE 0) - (IF held[t] = o THEN 1 ELSE 0)
        BY Zenon, <1>2, HeldChanges
      <3>2. held[t] # o
        BY Zenon, <1>2, FdAssumption
      <3> QED
        BY <2>c, <3>1, <3>2
    <2>2. Cardinality(EntriesOf(o))' = Cardinality(EntriesOf(o)) - (IF x = o THEN 1 ELSE 0)
      <3>1. Cardinality(EntriesOf(o))' = Cardinality(EntriesOf(o))
                + (IF entries'[fd].object = o THEN 1 ELSE 0)
                - (IF fd \in DOMAIN entries /\ entries[fd].object = o THEN 1 ELSE 0)
        BY Zenon, <1>2, <1>3, EntryChanges
      <3>2. entries'[fd].object # o
        BY Zenon, <1>3, FdAssumption
      <3> QED
        BY <1>1, <1>2, <2>c, <3>1, <3>2
    <2>3. LostOf(o)' = LostOf(o) /\ refcount'[o] = refcount[o] /\ file'[o] = file[o]
      BY Zenon, <1>2 DEF LostOf
    <2> QED
      BY <2>c, <2>1, <2>2, <2>3
  <1>5. ASSUME NEW u \in Threads, pc'[u] = "inserting" PROVE refcount'[held'[u]] = 1
    BY Zenon, <1>2, <1>5 DEF FdTypeOK, Unshared
  <1>6. InUse' \subseteq InUse /\ \A gd \in InUse' : entries'[gd].object = entries[gd].object
    BY Zenon, <1>3 DEF InUse
  <1> QED
    BY Zenon, <1>4, <1>5, <1>6 DEF Unshared

(* fd_renumber moves a reference from one entry to the other, and releases *)
(* the one that was there.                                                 *)
LEMMA RenumberRefs ==
    ASSUME FdTypeOK, RefCountsAreExact, Unshared, NEW t \in Threads, NEW from, NEW to,
           fd_renumber(t, from, to)
    PROVE  RefCountsAreExact' /\ Unshared'
  <1>0. from \in InUse /\ to \in InUse /\ from # to
    BY Zenon DEF fd_renumber
  <1>1. PICK x \in Objects, y \in Objects : x = entries[from].object /\ y = entries[to].object
    BY Zenon, <1>0 DEF InUse, FdTypeOK, Entry
  <1>2. /\ UNCHANGED <<pc, held, lost>> /\ Releasing({y}) /\ pc[t] = "idle"
        /\ entries' = [entries EXCEPT ![to] = entries[from], ![from] = Unused]
    BY Zenon, <1>1 DEF fd_renumber
  <1>3. /\ DOMAIN entries' = DOMAIN entries /\ entries'[from].object = None /\ entries'[to].object = x
        /\ \A gd \in DOMAIN entries \ {from, to} : entries'[gd].object = entries[gd].object
        /\ from \in DOMAIN entries /\ to \in DOMAIN entries
    BY Zenon, <1>0, <1>1, <1>2 DEF FdTypeOK, Unused, InUse
  <1>4. x # y
    BY Zenon, <1>0, <1>1 DEF Unshared
  <1>5. RefCountsAreExact'
    <2> SUFFICES ASSUME NEW o \in Objects
                 PROVE  /\ refcount'[o] = Cardinality(EntriesOf(o))' + Cardinality(HoldersOf(o))'
                                          + Cardinality(LostOf(o))'
                        /\ file'[o] = "open" <=> refcount'[o] > 0
      BY Zenon DEF RefCountsAreExact
    <2>c. /\ refcount[o] = Cardinality(EntriesOf(o)) + Cardinality(HoldersOf(o))
                           + Cardinality(LostOf(o))
          /\ file[o] = "open" <=> refcount[o] > 0
          /\ Cardinality(EntriesOf(o)) \in Nat /\ Cardinality(HoldersOf(o)) \in Nat
          /\ Cardinality(LostOf(o)) \in Nat
      BY Zenon, ExactCount
    <2>1. HoldersOf(o)' = HoldersOf(o) /\ LostOf(o)' = LostOf(o)
      BY Zenon, <1>2 DEF HoldersOf, LostOf
    <2>2. /\ refcount'[o] = refcount[o] - (IF o = y THEN 1 ELSE 0)
          /\ file'[o] = "open" <=> refcount'[o] > 0
      BY Zenon, <1>2, ReleasingCounts
    <2>f. IsFiniteSet(EntriesOf(o))
      BY Zenon, CountsAreNumbers
    <2>3. CASE o = x
      <3>1. EntriesOf(o)' = (EntriesOf(o) \ {from}) \cup {to}
        BY Zenon, <1>1, <1>3, <1>4, <2>3, FdAssumption DEF EntriesOf
      <3>2. from \in EntriesOf(o) /\ to \notin EntriesOf(o)
        BY Zenon, <1>1, <1>3, <1>4, <2>3 DEF EntriesOf
      <3>3. /\ IsFiniteSet(EntriesOf(o) \ {from})
            /\ Cardinality(EntriesOf(o) \ {from}) = Cardinality(EntriesOf(o)) - 1
        BY Zenon, <2>f, <3>2, FS_RemoveElement
      <3>4. Cardinality(EntriesOf(o)') = Cardinality(EntriesOf(o) \ {from}) + 1
        BY Zenon, <3>1, <3>2, <3>3, FS_AddElement
      <3>5. Cardinality(EntriesOf(o)') = Cardinality(EntriesOf(o))
        BY <2>c, <3>3, <3>4
      <3> QED
        BY <1>4, <2>c, <2>1, <2>2, <2>3, <3>5
    <2>4. CASE o = y
      <3>1. EntriesOf(o)' = EntriesOf(o) \ {to} /\ to \in EntriesOf(o)
        BY Zenon, <1>1, <1>3, <1>4, <2>4, FdAssumption DEF EntriesOf
      <3>2. Cardinality(EntriesOf(o)') = Cardinality(EntriesOf(o)) - 1
        BY Zenon, <2>f, <3>1, FS_RemoveElement
      <3> QED
        BY <2>c, <2>1, <2>2, <2>4, <3>2
    <2>5. CASE o # x /\ o # y
      <3>1. EntriesOf(o)' = EntriesOf(o)
        BY Zenon, <1>1, <1>3, <2>5, FdAssumption DEF EntriesOf
      <3> QED
        BY <2>c, <2>1, <2>2, <2>5, <3>1
    <2> QED
      BY Zenon, <2>3, <2>4, <2>5
  <1>6. ASSUME NEW u \in Threads, pc'[u] = "inserting" PROVE refcount'[held'[u]] = 1
    <2>1. u # t /\ pc[u] = "inserting" /\ held'[u] = held[u] /\ held[u] \in Objects
      BY Zenon, <1>2, <1>6 DEF FdTypeOK
    <2>2. EntriesOf(y) # {}
      BY Zenon, <1>1, <1>3 DEF EntriesOf
    <2>3. held[u] # y /\ refcount[held[u]] = 1
      BY Zenon, <2>1, <2>2, InsertingUndisturbed DEF Unshared
    <2> QED
      BY <1>2, <2>1, <2>3, ReleasingCounts
  <1>7. ASSUME NEW gd \in InUse', NEW hd \in InUse', entries'[gd].object = entries'[hd].object
        PROVE  gd = hd
    <2>1. gd # from /\ hd # from
      BY Zenon, <1>3, <1>7 DEF InUse
    <2>2. (gd # to => gd \in InUse) /\ (hd # to => hd \in InUse)
      BY Zenon, <1>3, <1>7, <2>1 DEF InUse
    <2>3. entries[from].object = x
      BY Zenon, <1>1
    <2> QED
      BY <1>0, <1>3, <1>7, <2>1, <2>2, <2>3 DEF Unshared, InUse
  <1> QED
    BY Zenon, <1>5, <1>6, <1>7 DEF Unshared

(* fd_table_insert hands the only reference of the thread to an entry *)
LEMMA InsertRefs ==
    ASSUME FdTypeOK, RefCountsAreExact, Unshared, NEW t \in Threads, Insert(t)
    PROVE  RefCountsAreExact' /\ Unshared'
  <1>0. /\ pc[t] = "inserting" /\ held' = [held EXCEPT ![t] = None] /\ pc' = [pc EXCEPT ![t] = "idle"]
        /\ UNCHANGED <<refcount, file, lost>>
    BY Zenon DEF Insert, Idle, history
  <1>1. PICK x \in Objects : x = held[t]
    BY Zenon, <1>0 DEF FdTypeOK
  <1>s. PICK s \in Doublings : \E fd \in 0 .. s - 1 :
           /\ Grown(s)[fd].object = None
           /\ entries' = [Grown(s) EXCEPT ![fd] =
                 [object |-> held[t], rights_base |-> want[t].base,
                  rights_inheriting |-> want[t].inheriting]]
    BY Zenon DEF Insert
  <1>2. PICK fd \in 0 .. s - 1 :
           /\ Grown(s)[fd].object = None
           /\ entries' = [Grown(s) EXCEPT ![fd] =
                 [object |-> held[t], rights_base |-> want[t].base,
                  rights_inheriting |-> want[t].inheriting]]
    BY Zenon, <1>s
  <1>3. /\ DOMAIN entries' = 0 .. s - 1 /\ entries'[fd].object = x
        /\ \A gd \in (0 .. s - 1) \ {fd} : entries'[gd] = Grown(s)[gd]
    BY Zenon, <1>s, <1>1, <1>2, GrownTable
  <1>4. /\ DOMAIN entries \subseteq DOMAIN entries' /\ fd \in DOMAIN entries'
        /\ \A gd \in DOMAIN entries' \ {fd} :
               entries'[gd].object = IF gd \in DOMAIN entries THEN entries[gd].object ELSE None
        /\ fd \in DOMAIN entries => entries[fd].object = None
    <2>1. /\ DOMAIN entries \subseteq 0 .. s - 1
          /\ \A gd \in DOMAIN entries : Grown(s)[gd] = entries[gd]
          /\ \A gd \in 0 .. s - 1 : gd \notin DOMAIN entries => Grown(s)[gd] = Unused
      BY Zenon, <1>s, GrownTable
    <2>2. Unused.object = None
      BY Zenon DEF Unused
    <2> QED
      BY Zenon, <1>2, <1>3, <2>1, <2>2
  <1>5. EntriesOf(x) = {} /\ x \notin lost
    BY Zenon, <1>0, <1>1, SoleReference DEF Unshared
  <1>6. RefCountsAreExact'
    <2> SUFFICES ASSUME NEW o \in Objects
                 PROVE  /\ refcount'[o] = Cardinality(EntriesOf(o))' + Cardinality(HoldersOf(o))'
                                          + Cardinality(LostOf(o))'
                        /\ file'[o] = "open" <=> refcount'[o] > 0
      BY Zenon DEF RefCountsAreExact
    <2>c. /\ refcount[o] = Cardinality(EntriesOf(o)) + Cardinality(HoldersOf(o))
                           + Cardinality(LostOf(o))
          /\ file[o] = "open" <=> refcount[o] > 0
          /\ Cardinality(EntriesOf(o)) \in Nat /\ Cardinality(HoldersOf(o)) \in Nat
          /\ Cardinality(LostOf(o)) \in Nat
      BY Zenon, ExactCount
    <2>1. Cardinality(HoldersOf(o))' = Cardinality(HoldersOf(o)) - (IF x = o THEN 1 ELSE 0)
      <3>1. Cardinality(HoldersOf(o))' = Cardinality(HoldersOf(o))
                + (IF None = o THEN 1 ELSE 0) - (IF held[t] = o THEN 1 ELSE 0)
        BY ZenonT(30), <1>0, HeldChanges
      <3>2. None # o
        BY Zenon, FdAssumption
      <3> QED
        BY <1>1, <2>c, <3>1, <3>2
    <2>2. Cardinality(EntriesOf(o))' = Cardinality(EntriesOf(o)) + (IF x = o THEN 1 ELSE 0)
      <3>1. Cardinality(EntriesOf(o))' = Cardinality(EntriesOf(o))
                + (IF entries'[fd].object = o THEN 1 ELSE 0)
                - (IF fd \in DOMAIN entries /\ entries[fd].object = o THEN 1 ELSE 0)
        BY Zenon, <1>4, EntryChanges
      <3>2. ~(fd \in DOMAIN entries /\ entries[fd].object = o)
        BY Zenon, <1>4, FdAssumption
      <3> QED
        BY <1>3, <2>c, <3>1, <3>2
    <2>3. LostOf(o)' = LostOf(o) /\ refcount'[o] = refcount[o] /\ file'[o] = file[o]
      BY Zenon, <1>0 DEF LostOf
    <2> QED
      BY <2>c, <2>1, <2>2, <2>3
  <1>7. ASSUME NEW u \in Threads, pc'[u] = "inserting" PROVE refcount'[held'[u]] = 1
    BY Zenon, <1>0, <1>7 DEF FdTypeOK, Unshared
  <1>8. ASSUME NEW gd \in InUse', NEW hd \in InUse', entries'[gd].object = entries'[hd].object
        PROVE  gd = hd
    <2>1. /\ gd # fd => gd \in InUse /\ entries'[gd].object = entries[gd].object
          /\ hd # fd => hd \in InUse /\ entries'[hd].object = entries[hd].object
      BY Zenon, <1>4, <1>8 DEF InUse
    <2>2. \A kd \in InUse : entries[kd].object # x
      BY Zenon, <1>5 DEF InUse, EntriesOf
    <2> QED
      BY Zenon, <1>3, <1>8, <2>1, <2>2 DEF Unshared
  <1> QED
    BY Zenon, <1>6, <1>7, <1>8 DEF Unshared

(* fd_table_insert without a random number keeps the only reference. *)
LEMMA LoseRefs ==
    ASSUME FdTypeOK, RefCountsAreExact, Unshared, NEW t \in Threads, pc[t] = "inserting",
           NEW s \in Doublings, entries' = Grown(s), lost' = lost \cup {held[t]}, Idle(t),
           UNCHANGED <<refcount, file>>
    PROVE  RefCountsAreExact' /\ Unshared'
  <1>0. held' = [held EXCEPT ![t] = None] /\ pc' = [pc EXCEPT ![t] = "idle"]
    BY Zenon DEF Idle
  <1>1. PICK x \in Objects : x = held[t]
    BY Zenon DEF FdTypeOK
  <1>2. /\ \A gd \in DOMAIN entries' : entries'[gd].object # None
              => gd \in DOMAIN entries /\ entries'[gd] = entries[gd]
        /\ \A gd \in DOMAIN entries : gd \in DOMAIN entries' /\ entries'[gd] = entries[gd]
    BY GrownTable DEF Unused
  <1>3. x \notin lost
    BY Zenon, <1>1, SoleReference DEF Unshared
  <1>4. RefCountsAreExact'
    <2> SUFFICES ASSUME NEW o \in Objects
                 PROVE  /\ refcount'[o] = Cardinality(EntriesOf(o))' + Cardinality(HoldersOf(o))'
                                          + Cardinality(LostOf(o))'
                        /\ file'[o] = "open" <=> refcount'[o] > 0
      BY Zenon DEF RefCountsAreExact
    <2>c. /\ refcount[o] = Cardinality(EntriesOf(o)) + Cardinality(HoldersOf(o))
                           + Cardinality(LostOf(o))
          /\ file[o] = "open" <=> refcount[o] > 0
          /\ Cardinality(EntriesOf(o)) \in Nat /\ Cardinality(HoldersOf(o)) \in Nat
          /\ Cardinality(LostOf(o)) \in Nat
      BY Zenon, ExactCount
    <2>1. Cardinality(HoldersOf(o))' = Cardinality(HoldersOf(o)) - (IF x = o THEN 1 ELSE 0)
      <3>1. Cardinality(HoldersOf(o))' = Cardinality(HoldersOf(o))
                + (IF None = o THEN 1 ELSE 0) - (IF held[t] = o THEN 1 ELSE 0)
        BY ZenonT(30), <1>0, HeldChanges
      <3>2. None # o
        BY Zenon, FdAssumption
      <3> QED
        BY <1>1, <2>c, <3>1, <3>2
    <2>2. EntriesOf(o)' = EntriesOf(o)
      BY Zenon, <1>2, FdAssumption DEF EntriesOf
    <2>3. Cardinality(LostOf(o))' = Cardinality(LostOf(o)) + (IF x = o THEN 1 ELSE 0)
      <3>1. CASE x = o
        <4>1. LostOf(o) = {} /\ LostOf(o)' = {o}
          BY Zenon, <1>1, <1>3, <3>1 DEF LostOf
        <4> QED
          BY <3>1, <4>1, FS_EmptySet, FS_Singleton
      <3>2. CASE x # o
        <4>1. LostOf(o)' = LostOf(o)
          BY Zenon, <1>1, <3>2 DEF LostOf
        <4> QED
          BY <2>c, <3>2, <4>1
      <3> QED
        BY Zenon, <3>1, <3>2
    <2> QED
      BY <2>c, <2>1, <2>2, <2>3
  <1>5. ASSUME NEW u \in Threads, pc'[u] = "inserting" PROVE refcount'[held'[u]] = 1
    BY Zenon, <1>0, <1>5 DEF FdTypeOK, Unshared
  <1>6. InUse' = InUse /\ \A gd \in InUse : entries'[gd] = entries[gd]
    BY Zenon, <1>2 DEF InUse
  <1> QED
    BY <1>4, <1>5, <1>6 DEF Unshared

(* fd_table_destroy releases every object that is in the table. *)
LEMMA DestroyRefs ==
    ASSUME FdTypeOK, RefCountsAreExact, Unshared, Destroy
    PROVE  RefCountsAreExact' /\ Unshared'
  <1> DEFINE gone == {entries[fd].object : fd \in InUse}
  <1>1. /\ \A t \in Threads : pc[t] = "idle"
        /\ Releasing(gone) /\ entries' = [fd \in DOMAIN entries |-> Unused]
        /\ pc' = [t \in Threads |-> "ended"] /\ UNCHANGED <<held, lost>>
    BY Zenon DEF Destroy, history
  <1>2. InUse' = {}
    BY Zenon, <1>1 DEF InUse, Unused
  <1>3. RefCountsAreExact'
    <2> SUFFICES ASSUME NEW o \in Objects
                 PROVE  /\ refcount'[o] = Cardinality(EntriesOf(o))' + Cardinality(HoldersOf(o))'
                                          + Cardinality(LostOf(o))'
                        /\ file'[o] = "open" <=> refcount'[o] > 0
      BY Zenon DEF RefCountsAreExact
    <2>c. /\ refcount[o] = Cardinality(EntriesOf(o)) + Cardinality(HoldersOf(o))
                           + Cardinality(LostOf(o))
          /\ file[o] = "open" <=> refcount[o] > 0
          /\ Cardinality(EntriesOf(o)) \in Nat /\ Cardinality(HoldersOf(o)) \in Nat
          /\ Cardinality(LostOf(o)) \in Nat
      BY Zenon, ExactCount
    <2>1. HoldersOf(o)' = HoldersOf(o) /\ LostOf(o)' = LostOf(o)
      BY Zenon, <1>1 DEF HoldersOf, LostOf
    <2>2. EntriesOf(o)' = {}
      BY Zenon, <1>1, FdAssumption DEF EntriesOf, Unused
    <2>3. /\ refcount'[o] = refcount[o] - (IF o \in gone THEN 1 ELSE 0)
          /\ file'[o] = "open" <=> refcount'[o] > 0
      BY Zenon, <1>1, ReleasingCounts
    <2>4. CASE o \in gone
      <3>1. PICK fd \in InUse : o = entries[fd].object
        BY Zenon, <2>4
      <3>2. EntriesOf(o) = {fd}
        BY Zenon, <3>1, FdAssumption DEF EntriesOf, InUse, Unshared
      <3>3. Cardinality(EntriesOf(o)) = 1 /\ Cardinality({}) = 0
        BY Zenon, <3>2, FS_Singleton, FS_EmptySet
      <3> QED
        BY <2>c, <2>1, <2>2, <2>3, <2>4, <3>3
    <2>5. CASE o \notin gone
      <3>1. EntriesOf(o) = {}
        BY Zenon, <2>5, FdAssumption DEF EntriesOf, InUse
      <3> QED
        BY <2>c, <2>1, <2>2, <2>3, <2>5, <3>1
    <2> QED
      BY Zenon, <2>4, <2>5
  <1> QED
    BY Zenon, <1>1, <1>2, <1>3 DEF Unshared

(* No step of any thread makes a count inexact. *)
LEMMA RefStep ==
    FdTypeOK /\ RefCountsAreExact /\ Unshared /\ [Next]_vars => RefCountsAreExact' /\ Unshared'
  <1> SUFFICES ASSUME FdTypeOK, RefCountsAreExact, Unshared, [Next]_vars
               PROVE  RefCountsAreExact' /\ Unshared'
    OBVIOUS
  <1>1. ASSUME NEW t \in Threads, Release(t) \/ OpenFails(t)
        PROVE  RefCountsAreExact' /\ Unshared'
    <2>1. held[t] \in Objects
      BY Zenon, <1>1 DEF Release, OpenFails, FdTypeOK
    <2> QED
      BY Zenon, <1>1, <2>1, ReleaseRefs DEF Release, OpenFails, history
  <1>2. ASSUME NEW t \in Threads, InsertFails(t) PROVE RefCountsAreExact' /\ Unshared'
    <2>1. held[t] \in Objects
      BY Zenon, <1>2 DEF InsertFails, FdTypeOK
    <2>2. pc[t] = "inserting" /\ Idle(t)
      BY Zenon, <1>2 DEF InsertFails
    <2>3. PICK s \in Doublings :
             \/ Releasing({held[t]}) /\ UNCHANGED <<entries, lost>>
             \/ /\ entries' = Grown(s) /\ lost' = lost \cup {held[t]}
                /\ UNCHANGED <<refcount, file>>
      BY Zenon, <1>2 DEF InsertFails
    <2> QED
      BY Zenon, <2>1, <2>2, <2>3, ReleaseRefs, LoseRefs
  <1>3. ASSUME NEW t \in Threads, NEW fd, fd_read(t, fd) PROVE RefCountsAreExact' /\ Unshared'
    BY Zenon, <1>3, GetRefs DEF fd_read, Places
  <1>4. ASSUME NEW t \in Threads, NEW fd, NEW base, NEW inheriting, path_open(t, fd, base, inheriting)
        PROVE  RefCountsAreExact' /\ Unshared'
    BY Zenon, <1>4, GetRefs DEF path_open, Places
  <1>5. ASSUME NEW t \in Threads, NEW fd, NEW base, NEW inheriting,
               fd_fdstat_set_rights(t, fd, base, inheriting)
        PROVE  RefCountsAreExact' /\ Unshared'
    <2>1. /\ DOMAIN entries' = DOMAIN entries
          /\ \A gd \in DOMAIN entries : entries'[gd].object = entries[gd].object
      BY <1>5 DEF fd_fdstat_set_rights, FdTypeOK, Entry
    <2>2. InUse' = InUse /\ \A o \in Objects : EntriesOf(o)' = EntriesOf(o)
      BY Zenon, <2>1 DEF InUse, EntriesOf
    <2>3. /\ UNCHANGED <<refcount, file, pc, held, lost>>
          /\ \A o \in Objects : HoldersOf(o)' = HoldersOf(o) /\ LostOf(o)' = LostOf(o)
      BY Zenon, <1>5 DEF fd_fdstat_set_rights, history, HoldersOf, LostOf
    <2> QED
      BY <2>1, <2>2, <2>3 DEF RefCountsAreExact, Unshared, InUse
  <1>6. CASE UNCHANGED vars
    BY Zenon, <1>6
       DEF vars, history, RefCountsAreExact, Unshared, EntriesOf, HoldersOf, LostOf, InUse
  <1> QED
    BY Zenon, <1>1, <1>2, <1>3, <1>4, <1>5, <1>6, OpenedRefs, InsertRefs, CloseRefs, RenumberRefs,
       DestroyRefs DEF Next, Ended

-----------------------------------------------------------------------------
(* The entries in use are finitely many, and at most one per object. *)
LEMMA InUseIsBounded ==
    ASSUME FdTypeOK, Unshared
    PROVE  /\ IsFiniteSet(InUse) /\ Cardinality(InUse) \in Nat
           /\ Cardinality(InUse) <= Cardinality(Objects)
  <1> DEFINE f == [fd \in InUse |-> entries[fd].object]
  <1>1. f \in Injection(InUse, Objects)
    <2>1. f \in [InUse -> Objects]
      BY Zenon DEF InUse, FdTypeOK, Entry
    <2>2. \A fd, gd \in InUse : f[fd] = f[gd] => fd = gd
      BY Zenon DEF Unshared
    <2> QED
      BY Zenon, <2>1, <2>2 DEF Injection, IsInjective
  <1>2. IsFiniteSet(InUse) /\ Cardinality(InUse) <= Cardinality(Objects)
    BY Zenon, <1>1, FdAssumption, FS_Injection
  <1> QED
    BY Zenon, <1>2, FS_CardinalityType

(* When an entry changes, so does the number of those in use. *)
LEMMA InUseChanges ==
    ASSUME FdTypeOK, Unshared, NEW fd, InUse \ {fd} = InUse' \ {fd}
    PROVE  Cardinality(InUse)' = Cardinality(InUse)
              + (IF fd \in InUse' THEN 1 ELSE 0) - (IF fd \in InUse THEN 1 ELSE 0)
  BY Zenon, InUseIsBounded, OneApart

(* used stays short by one per renumbering, whatever it wraps to. *)
LEMMA UsedStep ==
    FdTypeOK /\ Unshared /\ UsedIsShort /\ [Next]_vars => UsedIsShort'
  <1> SUFFICES ASSUME FdTypeOK, Unshared, UsedIsShort, [Next]_vars PROVE UsedIsShort'
    OBVIOUS
  <1>c. Cardinality(InUse) \in Nat /\ renumbers \in Nat
    BY Zenon, InUseIsBounded DEF FdTypeOK
  <1>add. ASSUME NEW k \in Int, used = Wrapped(Cardinality(InUse) - renumbers),
                 used' = Wrapped(used + k),
                 Cardinality(InUse)' - renumbers' = Cardinality(InUse) - renumbers + k
          PROVE  UsedIsShort'
    <2>1. Cardinality(InUse) - renumbers \in Int
      BY <1>c
    <2>2. Wrapped(Wrapped(Cardinality(InUse) - renumbers) + k)
             = Wrapped(Cardinality(InUse) - renumbers + k)
      BY Zenon, <2>1, WrapAdds
    <2> QED
      BY Zenon, <1>add, <2>2 DEF UsedIsShort
  <1>keep. ASSUME InUse' = InUse, UNCHANGED <<used, renumbers>>,
                  (\E t \in Threads : pc'[t] # "ended") => \E t \in Threads : pc[t] # "ended"
           PROVE  UsedIsShort'
    BY Zenon, <1>keep DEF UsedIsShort
  <1>1. ASSUME NEW t \in Threads, Release(t) \/ Opened(t) \/ OpenFails(t) PROVE UsedIsShort'
    <2>1. UNCHANGED <<entries, used, renumbers>> /\ pc[t] # "ended"
      BY Zenon, <1>1 DEF Release, Opened, OpenFails, history
    <2> QED
      BY Zenon, <1>keep, <2>1 DEF InUse
  <1>2. ASSUME NEW t \in Threads, NEW fd, NEW base, NEW inheriting,
               fd_read(t, fd) \/ path_open(t, fd, base, inheriting)
        PROVE  UsedIsShort'
    <2>1. UNCHANGED <<entries, used, renumbers>> /\ pc[t] # "ended"
      BY Zenon, <1>2 DEF fd_read, path_open, Get, history
    <2> QED
      BY Zenon, <1>keep, <2>1 DEF InUse
  <1>3. ASSUME NEW t \in Threads, Insert(t) PROVE UsedIsShort'
    <2>0. /\ pc[t] = "inserting" /\ used' = Wrapped(used + 1) /\ renumbers' = renumbers
          /\ held[t] \in Objects
      BY Zenon, <1>3 DEF Insert, history, FdTypeOK
    <2>1. PICK s \in Doublings : \E fd \in 0 .. s - 1 :
             /\ Grown(s)[fd].object = None
             /\ entries' = [Grown(s) EXCEPT ![fd] =
                   [object |-> held[t], rights_base |-> want[t].base,
                    rights_inheriting |-> want[t].inheriting]]
      BY Zenon, <1>3 DEF Insert
    <2>2. PICK fd \in 0 .. s - 1 :
             /\ Grown(s)[fd].object = None
             /\ entries' = [Grown(s) EXCEPT ![fd] =
                   [object |-> held[t], rights_base |-> want[t].base,
                    rights_inheriting |-> want[t].inheriting]]
      BY Zenon, <2>1
    <2>3. /\ DOMAIN entries \subseteq 0 .. s - 1 /\ Grown(s) \in [0 .. s - 1 -> Entry]
          /\ \A gd \in DOMAIN entries : Grown(s)[gd] = entries[gd]
          /\ \A gd \in 0 .. s - 1 : gd \notin DOMAIN entries => Grown(s)[gd].object = None
      BY <2>1, GrownTable DEF Unused
    <2>4. /\ DOMAIN entries' = 0 .. s - 1 /\ entries'[fd].object = held[t]
          /\ \A gd \in (0 .. s - 1) \ {fd} : entries'[gd] = Grown(s)[gd]
      BY Zenon, <2>2, <2>3
    <2>5. InUse \ {fd} = InUse' \ {fd} /\ fd \in InUse' /\ fd \notin InUse
      BY <2>0, <2>2, <2>3, <2>4, FdAssumption DEF InUse
    <2>6. Cardinality(InUse)' = Cardinality(InUse) + 1
      BY <1>c, <2>5, InUseChanges
    <2>7. used = Wrapped(Cardinality(InUse) - renumbers)
      BY Zenon, <2>0 DEF UsedIsShort
    <2> QED
      BY <1>c, <1>add, <2>0, <2>6, <2>7
  <1>4. ASSUME NEW t \in Threads, InsertFails(t) PROVE UsedIsShort'
    <2>1. PICK s \in Doublings : entries' = Grown(s) \/ UNCHANGED entries
      BY Zenon, <1>4 DEF InsertFails
    <2>2. InUse' = InUse
      BY <2>1, GrownTable DEF InUse, Unused
    <2>3. UNCHANGED <<used, renumbers>> /\ pc[t] # "ended"
      BY Zenon, <1>4 DEF InsertFails
    <2> QED
      BY Zenon, <1>keep, <2>2, <2>3
  <1>5. ASSUME NEW t \in Threads, NEW fd, fd_close(t, fd) PROVE UsedIsShort'
    <2>1. /\ used' = Wrapped(used - 1) /\ renumbers' = renumbers /\ pc[t] = "idle" /\ fd \in InUse
          /\ entries' = [entries EXCEPT ![fd] = Unused]
      BY Zenon, <1>5 DEF fd_close, history
    <2>2. InUse \ {fd} = InUse' \ {fd} /\ fd \notin InUse'
      BY Zenon, <2>1 DEF InUse, Unused, FdTypeOK
    <2>3. Cardinality(InUse)' = Cardinality(InUse) - 1
      BY <1>c, <2>1, <2>2, InUseChanges
    <2>4. used = Wrapped(Cardinality(InUse) - renumbers) /\ used' = Wrapped(used + (-1))
      BY Zenon, <2>1 DEF UsedIsShort, FdTypeOK
    <2> QED
      BY <1>c, <1>add, <2>1, <2>3, <2>4
  <1>6. ASSUME NEW t \in Threads, NEW from, NEW to, fd_renumber(t, from, to) PROVE UsedIsShort'
    <2>1. /\ used' = Wrapped(used - 2) /\ renumbers' = renumbers + 1 /\ pc[t] = "idle"
          /\ from \in InUse /\ to \in InUse /\ from # to
          /\ entries' = [entries EXCEPT ![to] = entries[from], ![from] = Unused]
      BY Zenon, <1>6 DEF fd_renumber
    <2>2. InUse \ {from} = InUse' \ {from} /\ from \notin InUse'
      BY Zenon, <2>1 DEF InUse, Unused, FdTypeOK
    <2>3. Cardinality(InUse)' = Cardinality(InUse) - 1
      BY <1>c, <2>1, <2>2, InUseChanges
    <2>4. used = Wrapped(Cardinality(InUse) - renumbers) /\ used' = Wrapped(used + (-2))
      BY Zenon, <2>1 DEF UsedIsShort, FdTypeOK
    <2> QED
      BY <1>c, <1>add, <2>1, <2>3, <2>4
  <1>7. ASSUME NEW t \in Threads, NEW fd, NEW base, NEW inheriting,
               fd_fdstat_set_rights(t, fd, base, inheriting)
        PROVE  UsedIsShort'
    <2>1. /\ DOMAIN entries' = DOMAIN entries
          /\ \A gd \in DOMAIN entries : entries'[gd].object = entries[gd].object
      BY <1>7 DEF fd_fdstat_set_rights, FdTypeOK, Entry
    <2> QED
      BY Zenon, <1>7, <1>keep, <2>1 DEF fd_fdstat_set_rights, history, InUse
  <1>8. CASE Destroy
    BY Zenon, <1>8 DEF Destroy, UsedIsShort
  <1>9. CASE UNCHANGED vars
    BY Zenon, <1>9, <1>keep DEF vars, history, InUse
  <1> QED
    BY Zenon, <1>1, <1>2, <1>3, <1>4, <1>5, <1>6, <1>7, <1>8, <1>9 DEF Next, Ended

-----------------------------------------------------------------------------
(* The table of preopened directories follows the descriptors. *)
LEMMA PrestatsStep ==
    FdTypeOK /\ PrestatsNameTheirDirectory /\ [Next]_vars => PrestatsNameTheirDirectory'
  <1> SUFFICES ASSUME FdTypeOK, PrestatsNameTheirDirectory, [Next]_vars
               PROVE  PrestatsNameTheirDirectory'
    OBVIOUS
  <1>keep. ASSUME UNCHANGED <<prestats, unnamed>>,
                  \A fd \in InUse : fd \in DOMAIN entries' /\ entries'[fd].object = entries[fd].object
           PROVE  PrestatsNameTheirDirectory'
    BY Zenon, <1>keep DEF PrestatsNameTheirDirectory, InUse
  <1>1. ASSUME NEW t \in Threads, Release(t) \/ Opened(t) \/ OpenFails(t)
        PROVE  PrestatsNameTheirDirectory'
    BY Zenon, <1>1, <1>keep DEF Release, Opened, OpenFails, history, InUse
  <1>2. ASSUME NEW t \in Threads, NEW fd, NEW base, NEW inheriting,
               fd_read(t, fd) \/ path_open(t, fd, base, inheriting)
        PROVE  PrestatsNameTheirDirectory'
    BY Zenon, <1>2, <1>keep DEF fd_read, path_open, Get, history, InUse
  <1>3. ASSUME NEW t \in Threads, Insert(t) PROVE PrestatsNameTheirDirectory'
    <2>1. PICK s \in Doublings : \E fd \in 0 .. s - 1 :
             /\ Grown(s)[fd].object = None
             /\ entries' = [Grown(s) EXCEPT ![fd] =
                   [object |-> held[t], rights_base |-> want[t].base,
                    rights_inheriting |-> want[t].inheriting]]
      BY Zenon, <1>3 DEF Insert
    <2>2. /\ DOMAIN entries \subseteq 0 .. s - 1 /\ Grown(s) \in [0 .. s - 1 -> Entry]
          /\ \A gd \in DOMAIN entries : Grown(s)[gd] = entries[gd]
      BY Zenon, <2>1, GrownTable
    <2>3. \A gd \in InUse : gd \in DOMAIN entries' /\ entries'[gd].object = entries[gd].object
      BY Zenon, <2>1, <2>2 DEF InUse
    <2> QED
      BY Zenon, <1>3, <1>keep, <2>3 DEF Insert, history
  <1>4. ASSUME NEW t \in Threads, InsertFails(t) PROVE PrestatsNameTheirDirectory'
    <2>1. PICK s \in Doublings : entries' = Grown(s) \/ UNCHANGED entries
      BY Zenon, <1>4 DEF InsertFails
    <2>2. \A gd \in InUse : gd \in DOMAIN entries' /\ entries'[gd].object = entries[gd].object
      BY Zenon, <2>1, GrownTable DEF InUse
    <2> QED
      BY Zenon, <1>4, <1>keep, <2>2 DEF InsertFails
  <1>5. ASSUME NEW t \in Threads, NEW fd, fd_close(t, fd) PROVE PrestatsNameTheirDirectory'
    <2>1. /\ DOMAIN prestats' = DOMAIN prestats \ {fd} /\ UNCHANGED unnamed
          /\ \A gd \in DOMAIN prestats' : prestats'[gd] = prestats[gd]
      BY Zenon, <1>5 DEF fd_close, Without, history
    <2>2. /\ DOMAIN entries' = DOMAIN entries
          /\ \A gd \in DOMAIN entries \ {fd} : entries'[gd] = entries[gd]
      BY Zenon, <1>5 DEF fd_close, FdTypeOK
    <2> QED
      BY Zenon, <2>1, <2>2 DEF PrestatsNameTheirDirectory, InUse
  <1>6. ASSUME NEW t \in Threads, NEW from, NEW to, fd_renumber(t, from, to)
        PROVE  PrestatsNameTheirDirectory'
    <2>1. /\ DOMAIN entries' = DOMAIN entries /\ entries'[to] = entries[from] /\ from # to
          /\ \A gd \in DOMAIN entries \ {from, to} : entries'[gd] = entries[gd]
          /\ {from, to} \subseteq InUse /\ Moved(from, to)
      BY Zenon, <1>6 DEF fd_renumber, FdTypeOK, InUse
    <2> SUFFICES ASSUME ~unnamed', NEW gd \in DOMAIN prestats'
                 PROVE  gd \in InUse' /\ entries'[gd].object = prestats'[gd]
      BY Zenon DEF PrestatsNameTheirDirectory
    <2>2. CASE /\ from \in DOMAIN prestats /\ UNCHANGED unnamed
               /\ prestats' = [fd \in (DOMAIN prestats \ {from}) \cup {to} |->
                                  IF fd = to THEN prestats[from] ELSE prestats[fd]]
      BY Zenon, <2>1, <2>2 DEF PrestatsNameTheirDirectory, InUse
    <2>3. CASE /\ prestats' = Without(prestats, to)
               /\ unnamed' = (unnamed \/ from \in DOMAIN prestats)
      <3>1. ~unnamed /\ from \notin DOMAIN prestats
        BY Zenon, <2>3
      <3>2. gd \in DOMAIN prestats /\ gd # to /\ gd # from /\ prestats'[gd] = prestats[gd]
        BY Zenon, <2>3, <3>1 DEF Without
      <3>3. gd \in InUse /\ entries[gd].object = prestats[gd]
        BY Zenon, <3>1, <3>2 DEF PrestatsNameTheirDirectory
      <3> QED
        BY Zenon, <2>1, <3>2, <3>3 DEF InUse
    <2> QED
      BY Zenon, <2>1, <2>2, <2>3 DEF Moved
  <1>7. ASSUME NEW t \in Threads, NEW fd, NEW base, NEW inheriting,
               fd_fdstat_set_rights(t, fd, base, inheriting)
        PROVE  PrestatsNameTheirDirectory'
    <2>1. /\ DOMAIN entries' = DOMAIN entries
          /\ \A gd \in DOMAIN entries : entries'[gd].object = entries[gd].object
      BY <1>7 DEF fd_fdstat_set_rights, FdTypeOK, Entry
    <2> QED
      BY Zenon, <1>7, <1>keep, <2>1 DEF fd_fdstat_set_rights, history, InUse
  <1>8. CASE Destroy
    BY Zenon, <1>8 DEF Destroy, PrestatsNameTheirDirectory
  <1>9. CASE UNCHANGED vars
    BY Zenon, <1>9, <1>keep DEF vars, history, InUse
  <1> QED
    BY Zenon, <1>1, <1>2, <1>3, <1>4, <1>5, <1>6, <1>7, <1>8, <1>9 DEF Next, Ended

(* The table as fd_table_insert_existing leaves it *)
LEMMA FdInitially == Init => FdInv
  <1> SUFFICES ASSUME Init PROVE FdInv
    OBVIOUS
  <1> USE FdAssumption
  <1>1. entries \in [0 .. 1 -> Entry] /\ size = 2
    <2>1. entries \in [0 .. 1 -> Entry]
      BY Zenon DEF Init, Entry, Unused
    <2>2. entries \in [0 .. 2 - 1 -> Entry]
      BY <2>1
    <2> QED
      BY Zenon, <2>1, <2>2, SizeIsLength DEF size
  <1>2. FdTypeOK
    BY <1>1 DEF Init, FdTypeOK, Places, NoRights
  <1>3. InUse = {0} /\ entries[0].object = Preopened
    BY DEF Init, InUse, Unused
  <1>4. RefCountsAreExact
    <2> SUFFICES ASSUME NEW o \in Objects
                 PROVE  /\ refcount[o] = Cardinality(EntriesOf(o)) + Cardinality(HoldersOf(o))
                                         + Cardinality(LostOf(o))
                        /\ file[o] = "open" <=> refcount[o] > 0
      BY Zenon DEF RefCountsAreExact
    <2>1. EntriesOf(o) = IF o = Preopened THEN {0} ELSE {}
      BY Zenon, <1>3 DEF InUse, EntriesOf
    <2>2. HoldersOf(o) = {} /\ LostOf(o) = {}
      BY Zenon DEF Init, HoldersOf, LostOf
    <2>3. /\ Cardinality(EntriesOf(o)) = IF o = Preopened THEN 1 ELSE 0
          /\ Cardinality(HoldersOf(o)) = 0 /\ Cardinality(LostOf(o)) = 0
      BY Zenon, <2>1, <2>2, FS_EmptySet, FS_Singleton
    <2> QED
      BY <2>3 DEF Init
  <1>5. Unshared
    BY Zenon, <1>3 DEF Init, Unshared
  <1>6. UsedIsShort
    <2>1. Cardinality(InUse) = 1
      BY Zenon, <1>3, FS_Singleton
    <2>2. Wrapped(1) = 1
      <3>1. Cardinality(Objects) # 0
        BY Zenon, FS_EmptySet
      <3>2. 1 \in 0 .. 2^SizeBits - 1
        BY <3>1, WidthIsPositive
      <3> QED
        BY <3>2, WrapAdds
    <2> QED
      BY <2>1, <2>2 DEF Init, UsedIsShort
  <1>7. PrestatsNameTheirDirectory
    BY Zenon, <1>3 DEF Init, PrestatsNameTheirDirectory
  <1> QED
    BY Zenon, <1>2, <1>4, <1>5, <1>6, <1>7 DEF FdInv

(* The inductive invariant holds always. *)
LEMMA FdInvariance == Spec => []FdInv
  <1>1. FdInv /\ [Next]_vars => FdInv'
    BY Zenon, TypeStep, RefStep, UsedStep, PrestatsStep DEF FdInv
  <1> QED
    BY <1>1, FdInitially, PTL DEF Spec

(* For any number of threads, objects and renumberings: the count of an    *)
(* object is the number of its entries and of the calls that use it, and   *)
(* its handle is open exactly as long as there are any.                    *)
THEOREM RefCountsSafe == Spec => []RefCountsAreExact
  <1>1. FdInv => RefCountsAreExact
    BY Zenon DEF FdInv
  <1> QED
    BY <1>1, FdInvariance, PTL

(* For any number of threads, objects and renumberings: a preopened fd is  *)
(* open, and is the directory that it is named for.                        *)
THEOREM PrestatsSafe == Spec => []PrestatsNameTheirDirectory
  <1>1. FdInv => PrestatsNameTheirDirectory
    BY Zenon DEF FdInv
  <1> QED
    BY <1>1, FdInvariance, PTL

(* Whatever rights there are and calls ask for: no fd gets a right that    *)
(* the host has not given.                                                 *)
THEOREM RightsSafe == Spec => []RightsWithinGrant
  <1>1. FdInv => RightsWithinGrant
    BY Zenon DEF FdInv, FdTypeOK, RightsWithinGrant, InUse, Entry
  <1> QED
    BY <1>1, FdInvariance, PTL

(* fd_table_unused finds a free entry as long as there were at most half   *)
(* as many renumberings as the table has entries.                          *)
THEOREM FreeSlotSafe == Spec => []ThereIsAFreeSlot
  <1>1. ASSUME FdInv PROVE ThereIsAFreeSlot
    <2> SUFFICES ASSUME NEW t \in Threads, pc[t] = "inserting", GrowsTo(size),
                        2 * renumbers <= size, InUse = DOMAIN entries
                 PROVE  FALSE
      BY Zenon DEF ThereIsAFreeSlot
    <2>t. FdTypeOK /\ Unshared
      BY Zenon, <1>1 DEF FdInv
    <2>1. Cardinality(InUse) = size /\ size \in Nat /\ renumbers \in Nat
      BY Zenon, <2>t DEF size, FdTypeOK
    <2>2. size <= Cardinality(Objects) /\ 4 * Cardinality(Objects) < 2^SizeBits
      BY Zenon, <2>t, <2>1, InUseIsBounded, WidthIsPositive
    <2>3. used = Wrapped(size - renumbers)
      BY Zenon, <1>1, <2>1 DEF FdInv, UsedIsShort
    <2>4. Cardinality(Objects) \in Nat /\ 2^SizeBits \in Nat
      BY Zenon, WidthIsPositive
    <2>5. size > 0
      BY Zenon DEF GrowsTo, Enough
    <2>6. used = size - renumbers
      <3>1. size - renumbers \in 0 .. 2^SizeBits - 1
        BY <2>1, <2>2, <2>4
      <3> QED
        BY <2>3, <3>1, WrapAdds
    <2>7. Wrapped((used + 1) * 2) = (used + 1) * 2
      <3>1. (used + 1) * 2 \in 0 .. 2^SizeBits - 1
        BY <2>1, <2>2, <2>4, <2>5, <2>6
      <3> QED
        BY <3>1, WrapAdds
    <2> QED
      BY <2>1, <2>6, <2>7 DEF GrowsTo, Enough
  <1> QED
    BY <1>1, FdInvariance, PTL

=============================================================================
