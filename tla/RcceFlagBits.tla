---------------------------- MODULE RcceFlagBits ----------------------------
(***************************************************************************)
(* Flags of one bit each (SINGLEBITFLAGS): RCCE_flag_write, the test&set   *)
(* lock it takes, and the flip of the gather flag in RCCE_barrier          *)
(* (src/rcce/src/RCCE_flags.c, RCCE_admin.c, RCCE_synch.c).                *)
(*                                                                         *)
(* Several flags share one byte of the MPB of Owner, the UE whose flags    *)
(* they are.  Every UE writes them by reading the byte, changing a bit and *)
(* writing the byte back, with the lock of Owner; Owner itself flips its   *)
(* gather flag in the same way, but without the lock.                      *)
(***************************************************************************)
EXTENDS Naturals

CONSTANTS UE,      \* the units of execution
          Owner,   \* the one in whose MPB the byte is
          Flag,    \* the flags that share the byte
          Gather,  \* the one that is the gather flag of a communicator
          BitUses  \* {} or {"race"}: others write flags of Owner also while
                   \* Owner enters a barrier

ASSUME FlagBitsAssumption == Owner \in UE /\ Gather \in Flag /\ BitUses \subseteq {"race"}

VARIABLES byte,  \* the byte in the MPB
          lock,  \* the test&set register of Owner has been read
          pc,    \* where each UE is in RCCE_flag_write or RCCE_barrier
          copy,  \* its private copy of the byte
          job    \* which flag it writes, and the value

bitsVars == <<byte, lock, pc, copy, job>>

Byte == [Flag -> {0, 1}]

\* Type correctness; no bit is ever carried into its neighbour.
BitsTypeOK ==
  /\ byte \in Byte /\ lock \in BOOLEAN
  /\ pc \in [UE -> {"idle", "acquire", "get", "put", "release", "flip"}]
  /\ copy \in [UE -> Byte]
  /\ job \in [UE -> [flag : Flag, val : {0, 1}]]

\* The MPB is zero at the start.
BitsInit ==
  /\ byte = [f \in Flag |-> 0] /\ lock = FALSE
  /\ pc = [u \in UE |-> "idle"]
  /\ copy = [u \in UE |-> byte]
  /\ job = [u \in UE |-> [flag |-> Gather, val |-> 0]]

Goto(u, from, to) == pc[u] = from /\ pc' = [pc EXCEPT ![u] = to]

\* No UE has a flag of Owner still to write.  It is so when Owner enters a
\* barrier, and until it has flipped its flag, as long as all synchronisation
\* is through RCCE_COMM_WORLD: who sends to Owner waits for it, and nobody can
\* be released before Owner has entered.
Quiet == \A u \in UE : pc[u] \in {"idle", "release"}

-----------------------------------------------------------------------------
\* RCCE_flag_write(f, v, Owner) is called by u.
Write(u, f, v) ==
  /\ pc[Owner] # "flip" \/ "race" \in BitUses
  /\ Goto(u, "idle", "acquire")
  /\ job' = [job EXCEPT ![u] = [flag |-> f, val |-> v]]
  /\ UNCHANGED <<byte, lock, copy>>

\* Mutation: the register is not tested.
AcquireLock_Untested(u) ==
  /\ Goto(u, "acquire", "get")
  /\ lock' = TRUE
  /\ UNCHANGED <<byte, copy, job>>

\* RCCE_acquire_lock(Owner): the read that finds the register reset sets it.
AcquireLock(u) ==
  /\ ~lock
  /\ Goto(u, "acquire", "get")
  /\ lock' = TRUE
  /\ UNCHANGED <<byte, copy, job>>

\* RCCE_get_char.
GetChar(u) ==
  /\ Goto(u, "get", "put")
  /\ copy' = [copy EXCEPT ![u] = byte]
  /\ UNCHANGED <<byte, lock, job>>

\* Mutation: the lock is released with the write, and then again.
PutChar_AfterRelease(u) ==
  /\ Goto(u, "put", "release")
  /\ lock' = FALSE
  /\ byte' = [copy[u] EXCEPT ![job[u].flag] = job[u].val]
  /\ UNCHANGED <<copy, job>>

\* RCCE_write_bit_value and RCCE_put_char.
PutChar(u) ==
  /\ Goto(u, "put", "release")
  /\ byte' = [copy[u] EXCEPT ![job[u].flag] = job[u].val]
  /\ UNCHANGED <<lock, copy, job>>

\* RCCE_release_lock(Owner).
ReleaseLock(u) ==
  /\ Goto(u, "release", "idle")
  /\ lock' = FALSE
  /\ UNCHANGED <<byte, copy, job>>

\* RCCE_barrier, called by Owner, reads the byte with its gather flag ...
FlipGet ==
  /\ Quiet \/ "race" \in BitUses
  /\ Goto(Owner, "idle", "flip")
  /\ copy' = [copy EXCEPT ![Owner] = byte]
  /\ UNCHANGED <<byte, lock, job>>

\* ... and writes it back with the flag flipped.
FlipPut ==
  /\ Goto(Owner, "flip", "idle")
  /\ byte' = [copy[Owner] EXCEPT ![Gather] = 1 - @]
  /\ UNCHANGED <<lock, copy, job>>

-----------------------------------------------------------------------------
Step(u) == AcquireLock(u) \/ GetChar(u) \/ PutChar(u) \/ ReleaseLock(u)

BitsNext == \/ \E u \in UE, f \in Flag, v \in {0, 1} : Write(u, f, v)
            \/ \E u \in UE : Step(u)
            \/ FlipGet \/ FlipPut

BitsSpec == BitsInit /\ [][BitsNext]_bitsVars

-----------------------------------------------------------------------------
(***************************************************************************)
(* Properties                                                              *)
(***************************************************************************)

\* A UE that has read the byte to write it back holds the lock, alone, or is
\* Owner in a flip that nothing disturbs: what it has read is still there.
Holds(u) == pc[u] \in {"get", "put", "release"}

LockInv ==
  /\ \A u, w \in UE : Holds(u) /\ Holds(w) => u = w
  /\ \A u \in UE : Holds(u) => lock
  /\ \A u \in UE : pc[u] = "flip" => u = Owner /\ \A w \in UE \ {u} : pc[w] \in {"idle", "release"}
  /\ \A u \in UE : pc[u] \in {"put", "flip"} => copy[u] = byte

\* The flags of one byte are registers of their own: a write to one, and the
\* flip of the gather flag, never undoes or repeats a write to another.
Registers == INSTANCE FlagRegisters WITH value <- byte
FlagsIndependent == Registers!Spec
=============================================================================
