------------------------------ MODULE ReplayKeys ------------------------------
(***************************************************************************)
(* The keys of checkpoints (etas_host/src/replay).  A checkpoint carries   *)
(* the identifier of a key and not the key, so a run can only be resumed   *)
(* if the provider still resolves that identifier.  The memory provider is *)
(* a bounded map behind a lock; the directory provider keeps one file per  *)
(* key, and its retain is a series of system calls.                        *)
(*                                                                         *)
(* Threads of one process call the provider; any call may fail, the        *)
(* process may be killed, and power may be lost.  What the operating       *)
(* system promises is external: a kill leaves the files as they are; a     *)
(* loss of power leaves of a file that was not synced any prefix, or bytes *)
(* that were never written, and perhaps no name for a file whose directory *)
(* was not synced.  The identifier is a digest of the key, so a file whose *)
(* bytes hash to its name holds that key.                                  *)
(***************************************************************************)
EXTENDS Naturals, FiniteSets

CONSTANTS
    ReplayKey,      \* keys; their identifiers are not told apart from them
    KeyThread,      \* threads of the process
    KeyCapacity     \* capacity of the memory provider

ASSUME KeyAssumption == KeyCapacity \in Nat \ {0}

VARIABLES
    provider,       \* "memory" | "directory"
    keys,           \* the memory provider's map, as the set of its keys
    file,           \* the directory, as every process sees it
    synced,         \* files whose bytes are on the disk
    linked,         \* files whose name is on the disk
    owned,          \* keys that the process has in its memory
    used,           \* keys that were ever generated
    call,           \* what a thread is doing: [at, key]
    kept,           \* history: keys whose retain stored them and returned Ok
    promised        \* history: keys whose retain returned Ok

keyVars == <<provider, keys, file, synced, linked, owned, used, call, kept, promised>>

FileContent == {"absent", "empty", "part", "junk", "whole"}
Idle == [at |-> "idle", key |-> "none"]

KeyInit ==
    /\ provider \in {"memory", "directory"}
    /\ keys = {}
    /\ file = [k \in ReplayKey |-> "absent"]
    /\ synced = {} /\ linked = {}
    /\ owned = {} /\ used = {}
    /\ call = [t \in KeyThread |-> Idle]
    /\ kept = {} /\ promised = {}

Goes(t, at, k) == call' = [call EXCEPT ![t] = [at |-> at, key |-> k]]
Returns(t) == call' = [call EXCEPT ![t] = Idle]

Generate(t) ==
    /\ call[t].at = "idle"
    /\ \E k \in ReplayKey \ used : used' = used \cup {k} /\ owned' = owned \cup {k}
    /\ UNCHANGED <<provider, keys, file, synced, linked, call, kept, promised>>

-----------------------------------------------------------------------------
(* The memory provider: one critical section per call.                     *)

MemoryRetain(t) ==
    /\ provider = "memory" /\ call[t].at = "idle"
    /\ \E k \in owned :
         /\ k \in keys \/ Cardinality(keys) < KeyCapacity
         /\ keys' = keys \cup {k}
         /\ kept' = kept \cup {k} /\ promised' = promised \cup {k}
    /\ UNCHANGED <<provider, file, synced, linked, owned, used, call>>

MemoryResolve(t) ==
    /\ provider = "memory" /\ call[t].at = "idle"
    /\ \E k \in keys : owned' = owned \cup {k}
    /\ UNCHANGED <<provider, keys, file, synced, linked, used, call, kept, promised>>

(* remove is the owner's wish to forget the key.                           *)
MemoryRemove(t) ==
    /\ provider = "memory" /\ call[t].at = "idle"
    /\ \E k \in keys :
         keys' = keys \ {k} /\ kept' = kept \ {k} /\ promised' = promised \ {k}
    /\ UNCHANGED <<provider, file, synced, linked, owned, used, call>>

-----------------------------------------------------------------------------
(* The directory provider: a step per system call.                         *)

(* What resolve makes of a file: the length, the magic number and the      *)
(* identity of the material are checked.                                   *)
Resolved(k) ==
    CASE file[k] = "absent" -> "Missing"
      [] file[k] \in {"empty", "part"} -> "Unavailable"
      [] file[k] = "junk" -> "Invalid"
      [] file[k] = "whole" -> "Ok"

resolve_key(t) ==
    /\ provider = "directory" /\ call[t].at = "idle"
    /\ \E k \in used :
         Resolved(k) = "Ok" /\ owned' = owned \cup {k}
    /\ UNCHANGED <<provider, keys, file, synced, linked, used, call, kept, promised>>

(* retain first looks whether the key is there already.  An answer other   *)
(* than Ok and Missing is an error and leaves everything as it was.        *)
RetainFinds(t) ==
    /\ provider = "directory" /\ call[t].at = "idle"
    /\ \E k \in owned : Resolved(k) = "Ok" /\ promised' = promised \cup {k}
    /\ UNCHANGED <<provider, keys, file, synced, linked, owned, used, call, kept>>

RetainMisses(t) ==
    /\ provider = "directory" /\ call[t].at = "idle"
    /\ \E k \in owned : Resolved(k) = "Missing" /\ Goes(t, "create", k)
    /\ UNCHANGED <<provider, keys, file, synced, linked, owned, used, kept, promised>>

(* O_CREAT | O_EXCL: only one thread gets the file, the others an error.   *)
open_key(t) ==
    /\ call[t].at = "create"
    /\ LET k == call[t].key
       IN  \/ file[k] = "absent" /\ file' = [file EXCEPT ![k] = "empty"] /\ Goes(t, "write", k)
           \/ file[k] # "absent" /\ Returns(t) /\ UNCHANGED file
    /\ UNCHANGED <<provider, keys, synced, linked, owned, used, kept, promised>>

(* write_all, which other threads may observe half done.                   *)
write_all(t) ==
    /\ call[t].at = "write"
    /\ LET k == call[t].key
       IN  \/ file[k] = "empty" /\ file' = [file EXCEPT ![k] = "part"] /\ UNCHANGED call
           \/ file' = [file EXCEPT ![k] = "whole"] /\ Goes(t, "sync", k)
    /\ UNCHANGED <<provider, keys, synced, linked, owned, used, kept, promised>>

sync_all(t) ==
    /\ call[t].at = "sync"
    /\ synced' = synced \cup {call[t].key}
    /\ Goes(t, "link", call[t].key)
    /\ UNCHANGED <<provider, keys, file, linked, owned, used, kept, promised>>

(* The return before the directory is synced.                              *)
SkipsDirectory(t) ==
    /\ call[t].at = "link"
    /\ kept' = kept \cup {call[t].key} /\ promised' = promised \cup {call[t].key}
    /\ Returns(t)
    /\ UNCHANGED <<provider, keys, file, synced, linked, owned, used>>

(* Syncing the directory makes every name in it durable.                   *)
sync_directory(t) ==
    /\ call[t].at = "link"
    /\ linked' = {k \in ReplayKey : file[k] # "absent"}
    /\ kept' = kept \cup {call[t].key} /\ promised' = promised \cup {call[t].key}
    /\ Returns(t)
    /\ UNCHANGED <<provider, keys, file, synced, owned, used>>

(* Every system call of retain may fail; what was done before it stays.    *)
RetainFails(t) ==
    /\ call[t].at # "idle" /\ Returns(t)
    /\ UNCHANGED <<provider, keys, file, synced, linked, owned, used, kept, promised>>

-----------------------------------------------------------------------------
(* The memory provider promises nothing beyond its process.                *)
Killed ==
    /\ call' = [t \in KeyThread |-> Idle]
    /\ owned' = {} /\ keys' = {}
    /\ IF provider = "memory" THEN kept' = {} /\ promised' = {} ELSE UNCHANGED <<kept, promised>>

ProcessDies ==
    /\ owned # {} \/ keys # {}
    /\ Killed
    /\ UNCHANGED <<provider, file, synced, linked, used>>

(* What a loss of power may leave of a file.                               *)
Survives(k) ==
    (IF k \in linked THEN {} ELSE {"absent"})
        \cup (IF k \in synced \/ file[k] = "absent" THEN {file[k]}
              ELSE {"empty", file[k]} \cup (IF file[k] = "whole" THEN {"part", "junk"} ELSE {}))

PowerLoss ==
    /\ Killed
    /\ file' \in {f \in [ReplayKey -> FileContent] : \A k \in ReplayKey : f[k] \in Survives(k)}
    /\ linked' = {k \in ReplayKey : file'[k] # "absent"}
    /\ synced' = linked'
    /\ UNCHANGED <<provider, used>>

KeyNext ==
    \/ \E t \in KeyThread :
         \/ Generate(t) \/ MemoryRetain(t) \/ MemoryResolve(t) \/ MemoryRemove(t)
         \/ resolve_key(t) \/ RetainFinds(t) \/ RetainMisses(t) \/ open_key(t) \/ write_all(t)
         \/ sync_all(t) \/ sync_directory(t) \/ RetainFails(t)
    \/ ProcessDies \/ PowerLoss

KeySpec == KeyInit /\ [][KeyNext]_keyVars

-----------------------------------------------------------------------------
KeyTypeOK ==
    /\ provider \in {"memory", "directory"}
    /\ file \in [ReplayKey -> FileContent]
    /\ keys \cup owned \cup used \cup synced \cup linked \cup kept \cup promised \subseteq ReplayKey
    /\ call \in [KeyThread -> {Idle} \cup [at : {"create", "write", "sync", "link"}, key : ReplayKey]]
    /\ IsFiniteSet(keys) /\ Cardinality(keys) <= KeyCapacity

Resolves(k) == IF provider = "memory" THEN k \in keys ELSE file[k] = "whole"

(* A retain that stored the key itself and returned Ok makes the key        *)
(* recoverable: whatever other calls, failures, kills and losses of power   *)
(* come, resolve finds it, until the owner removes it or, with the memory   *)
(* provider, the process ends.                                              *)
KeysAreRecoverable ==
    /\ KeyTypeOK
    /\ \A k \in kept : Resolves(k)

(* The contract of the trait: retain has to "Make the key recoverable       *)
(* before publishing a checkpoint containing its identifier", so every Ok,  *)
(* also the one of a call that found the file of another call, means that   *)
(* resolve will find the key.                                               *)
RetainMakesRecoverable == \A k \in promised : Resolves(k)
=============================================================================
