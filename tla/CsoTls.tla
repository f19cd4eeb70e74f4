------------------------------- MODULE CsoTls -------------------------------
(* Emulated thread-local storage of the in-process library loader            *)
(* (csoloader: tls.rs and the tls_index bookkeeping of linker_sym.rs).       *)
(*                                                                           *)
(* A library with a PT_TLS segment takes a slot of one process-wide table    *)
(* when it is linked and gives it back when it is released; each thread      *)
(* keeps a block per slot, allocated at the first access, and throws away    *)
(* what is out of date when it next calls __tls_get_addr.  The two meet only *)
(* through a generation counter.  The actions here are the ones the linker   *)
(* calls (CsoLinker) and the accesses of running code.                       *)
(*                                                                           *)
(* A block is represented by the image whose initialiser it was filled from. *)
EXTENDS Naturals, FiniteSets, Functions

CONSTANTS
    Images,         \* identities of the CsoElf objects that may be made
    NoImage,
    Threads,
    MaxTlsModules   \* MAX_TLS_MODULES; slot 0 is never used

ASSUME TlsAssumption ==
    /\ NoImage \notin Images
    /\ MaxTlsModules \in Nat \ {0}

VARIABLES
    modules,     \* TLS_MODULES: the owner of each slot
    generation,  \* TLS_GENERATION
    modId,       \* img.tls_mod_id, 0 when the image holds no slot
    tracked,     \* the images whose tls_indices hold a live tls_index
    thread       \* the per-thread state behind the pthread key

tlsVars == <<modules, generation, modId, tracked, thread>>

Slots == 1 .. (MaxTlsModules - 1)

(* ThreadTls.  made: the state exists.  heap and arena say where the block   *)
(* of a slot really is, fallback is the bit mask that remembers it;          *)
(* wrongFree records that a block of the arena was passed to free().         *)
NewThread == [made      |-> FALSE,
              gen       |-> 0,
              block     |-> [s \in Slots |-> NoImage],
              arena     |-> {},
              fallback  |-> {},
              wrongFree |-> FALSE]

TlsTypeOK ==
    /\ modules \in [Slots -> Images \cup {NoImage}]
    /\ generation \in Nat
    /\ modId \in [Images -> 0 .. (MaxTlsModules - 1)]
    /\ tracked \subseteq Images
    /\ thread \in [Threads -> [made      : BOOLEAN,
                               gen       : Nat,
                               block     : [Slots -> Images \cup {NoImage}],
                               arena     : SUBSET Slots,
                               fallback  : SUBSET Slots,
                               wrongFree : BOOLEAN]]

TlsInit ==
    /\ modules = [s \in Slots |-> NoImage]
    /\ generation = 0
    /\ modId = [i \in Images |-> 0]
    /\ tracked = {}
    /\ thread = [t \in Threads |-> NewThread]

-----------------------------------------------------------------------------
(* The module table.                                                         *)

FreeSlots == {s \in Slots : modules[s] = NoImage}

LowestOf(S) == CHOOSE s \in S : \A r \in S : s <= r

(* register_tls_segment for an image with PT_TLS: the first free slot.       *)
RegisterTlsSegment(img) ==
    LET id == LowestOf(FreeSlots) IN
    /\ FreeSlots # {}
    /\ modules' = [modules EXCEPT ![id] = img]
    /\ modId' = [modId EXCEPT ![img] = id]
    /\ generation' = generation + 1
    /\ UNCHANGED <<tracked, thread>>

BumpTlsGeneration ==
    /\ generation' = generation + 1
    /\ UNCHANGED <<modules, modId, tracked, thread>>

OwnedSlots(img) == {s \in Slots : modId[img] = s /\ modules[s] = img}

(* Mutant: a slot goes without telling the threads. *)
UnregisterTlsSegmentsQuietly(imgs) ==
    LET cleared == UNION {OwnedSlots(i) : i \in imgs}
    IN /\ modules' = [s \in Slots |-> IF s \in cleared THEN NoImage ELSE modules[s]]
       /\ modId' = [i \in Images |-> IF i \in imgs THEN 0 ELSE modId[i]]
       /\ tracked' = tracked \ imgs
       /\ UNCHANGED <<generation, thread>>

(* unregister_tls_segment of linker_core.rs for the images of imgs: an image *)
(* that never registered returns at once, which leaves its tracked indices;  *)
(* a slot is cleared only by the image that owns it.                         *)
UnregisterTlsSegments(imgs) ==
    LET registered == {i \in imgs : modId[i] # 0}
        cleared    == UNION {OwnedSlots(i) : i \in registered}
    IN /\ modules' = [s \in Slots |-> IF s \in cleared THEN NoImage ELSE modules[s]]
       /\ generation' = generation + Cardinality(cleared)
       /\ modId' = [i \in Images |->
                       IF i \in registered /\ OwnedSlots(i) # {} THEN 0 ELSE modId[i]]
       /\ tracked' = tracked \ registered
       /\ UNCHANGED thread

-----------------------------------------------------------------------------
(* The blocks of a thread.                                                   *)

(* sync_thread_tls_locked: what the thread holds for an empty slot goes.     *)
Synced(th) ==
    LET stale == {s \in Slots : modules[s] = NoImage /\ th.block[s] # NoImage} IN
    IF th.gen >= generation THEN th
    ELSE [th EXCEPT !.block     = [s \in Slots |-> IF s \in stale THEN NoImage ELSE @[s]],
                    !.arena     = @ \ stale,
                    !.fallback  = @ \ stale,
                    !.wrongFree = @ \/ (stale \ th.fallback) \cap th.arena # {},
                    !.gen       = generation]

(* The part of __tls_get_addr behind the checks of the index: how is what    *)
(* the allocation of a missing block comes to, the heap, a slice carved from *)
(* the thread's arena, or neither.                                           *)
Accessed(th, id, how) ==
    LET ready == [Synced(th) EXCEPT !.made = TRUE] IN
    IF ready.block[id] # NoImage \/ how = "exhausted" THEN ready
    ELSE [ready EXCEPT !.block[id] = modules[id],
                       !.arena     = IF how = "arena" THEN @ \cup {id} ELSE @ \ {id},
                       !.fallback  = IF how = "arena" THEN @ \cup {id} ELSE @]

Allocations == {"heap", "arena", "exhausted"}

(* An index that names no registered slot is served the shared slice of the  *)
(* thread, without looking at its blocks.                                    *)
Registered(id) == id \in Slots /\ modules[id] # NoImage

(* __tls_get_addr called by thread t.                                        *)
TlsGetAddr(t, id, how) ==
    thread' = [thread EXCEPT ![t] = IF Registered(id) THEN Accessed(@, id, how)
                                    ELSE [@ EXCEPT !.made = TRUE]]

(* thread_tls_destructor, run by pthread when a thread ends.                 *)
ThreadEnds(t) ==
    /\ thread[t].made
    /\ thread' = [thread EXCEPT ![t] =
                    [NewThread EXCEPT !.wrongFree =
                        @ \/ (thread[t].arena \ thread[t].fallback) # {}
                          \/ thread[t].wrongFree]]
    /\ UNCHANGED <<modules, generation, modId, tracked>>

(* deinit: the caller's state is freed and the key is deleted, so every      *)
(* thread starts afresh; table and generation go back to the beginning.      *)
TlsDeinit ==
    /\ thread' = [t \in Threads |-> [NewThread EXCEPT !.wrongFree = thread[t].wrongFree]]
    /\ modules' = [s \in Slots |-> NoImage]
    /\ generation' = 0
    /\ UNCHANGED <<modId, tracked>>
=============================================================================
