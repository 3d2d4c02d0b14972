---------------------------- MODULE OutputBuffer ----------------------------
(***************************************************************************)
(* The output of a guest: writev (linux-trustzone/tz_file.c) prints it on  *)
(* the secure console and stores it in the buffer that the trusted         *)
(* application shares with the normal world, which prints it as a string   *)
(* when the guest has ended.                                               *)
(*                                                                         *)
(* The buffer is two static variables, a pointer that moves and the room   *)
(* that is left.  The pointer is modelled by its offset from the start of  *)
(* the shared memory, the bytes by the writes that stored them.            *)
(***************************************************************************)
EXTENDS Naturals

CONSTANTS
    Word,         \* 2^32: the setter takes a uint32_t, its caller a uint64_t
    Sizes,        \* sizes of shared buffer the normal world may pass
    Lengths,      \* lengths of the writes of the guest
    MaxWrites     \* bound on the number of writes in a run

ASSUME OutputAssumption ==
    /\ Word \in Nat \ {0}
    /\ Sizes \subseteq Nat
    /\ Lengths \subseteq Nat
    /\ MaxWrites \in Nat

VARIABLES
    size,                 \* size of the shared memory
    output_buffer,        \* offset of the static pointer
    output_buffer_size,   \* the static counter
    stored,               \* writes in the shared memory: number, place, length
    refused,              \* numbers of the writes that found no room
    writes                \* number of writes so far

outputVars == <<size, output_buffer, output_buffer_size, stored, refused, writes>>

(* Before the first command both statics are zero.                         *)
OutputInit ==
    /\ size = 0 /\ output_buffer = 0 /\ output_buffer_size = 0
    /\ stored = {} /\ refused = {} /\ writes = 0

(* The normal world runs a guest: TA_RunWasm sets the buffer first.        *)
vedliot_set_output_buffer ==
    /\ size' \in Sizes
    /\ output_buffer' = 0
    /\ output_buffer_size' = size' % Word
    /\ stored' = {} /\ refused' = {} /\ writes' = 0

(* Mutant: a check that lets the last byte be used.                        *)
Fits_inclusive(nchars) == output_buffer_size >= nchars

(* nchars is the sum of the lengths of the vector.                         *)
Fits(nchars) == output_buffer_size > nchars

(* Mutant: the pointer does not move.                                      *)
writev_in_place ==
    /\ writes < MaxWrites
    /\ writes' = writes + 1
    /\ \E nchars \in Lengths :
          /\ Fits(nchars)
          /\ stored' = stored \cup {[n |-> writes', at |-> output_buffer, len |-> nchars]}
          /\ output_buffer_size' = output_buffer_size - nchars
    /\ UNCHANGED <<size, output_buffer, refused>>

writev ==
    /\ writes < MaxWrites
    /\ writes' = writes + 1
    /\ \E nchars \in Lengths :
          \/ /\ Fits(nchars)
             /\ stored' = stored \cup {[n |-> writes', at |-> output_buffer, len |-> nchars]}
             /\ output_buffer' = output_buffer + nchars
             /\ output_buffer_size' = output_buffer_size - nchars
             /\ UNCHANGED refused
          \/ /\ ~Fits(nchars)
             /\ refused' = refused \cup {writes'}
             /\ UNCHANGED <<stored, output_buffer, output_buffer_size>>
    /\ UNCHANGED size

OutputNext == vedliot_set_output_buffer \/ writev

OutputSpec == OutputInit /\ [][OutputNext]_outputVars

(* The statics keep to their types.                                        *)
OutputTypeOK ==
    /\ size \in Sizes \cup {0} /\ writes \in Nat
    /\ output_buffer \in Nat /\ output_buffer_size \in Nat
    /\ stored \subseteq [n : Nat, at : Nat, len : Nat] /\ refused \subseteq Nat

(* The pointer and the room that is left account for the whole buffer,     *)
(* also when its size does not fit the 32 bits of the setter, and the last *)
(* byte is never used: the pointer stays inside a buffer that has a byte.  *)
RoomIsAccounted ==
    /\ output_buffer + output_buffer_size <= size
    /\ size % Word # 0 => output_buffer < size

(* The writes lie in the buffer in the order they were made, none over     *)
(* another, and everything before the pointer was written by one of them;  *)
(* a write that is missing is one that found no room.                      *)
StoredInOrder ==
    /\ \A v, w \in stored : v.n < w.n => v.at + v.len <= w.at
    /\ \A w \in stored : w.n <= writes /\ w.at + w.len <= output_buffer
    /\ \A p \in 0..(output_buffer - 1) :
          \E w \in stored : w.at <= p /\ p < w.at + w.len
    /\ \A k \in 1..writes : k \in refused \/ \E w \in stored : w.n = k
=============================================================================
