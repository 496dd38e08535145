----------------------------- MODULE SharedMemory -----------------------------
(***************************************************************************)
(* Shared memory from allocation to mapping: AshmemAllocator               *)
(* (transport/allocator/1.0/default), the hidl_memory objects a client     *)
(* copies and moves about (base/include/hidl/HidlSupport.h), and           *)
(* mapMemory() (libhidlmemory) with AshmemMapper and AshmemMemory          *)
(* (transport/memory/1.0/default).                                         *)
(*                                                                         *)
(* A native handle of shared memory holds one file descriptor and is named *)
(* by it here.  The allocator serves one call at a time                    *)
(* (configureRpcThreadpool(1)).  Its hidl_memory objects do not own their  *)
(* handles; a client's copy, made in the callback, owns a clone.           *)
(***************************************************************************)
EXTENDS Naturals, Sequences

CONSTANTS Memories,   \* hidl_memory objects of clients
          Fds,        \* file descriptors
          NoFd,       \* the null handle
          MaxBatch    \* the largest batch, UINT32_MAX in the code

ASSUME SharedMemoryAssumption == NoFd \notin Fds /\ MaxBatch \in Nat

VARIABLES phase,      \* of the allocator's call
          count,      \* memories asked for
          batch,      \* handles of the memories allocated so far
          mem,        \* clients' objects: mHandle, mName and mSize
          mappers,    \* gMappersByName, the names that have a mapper
          maps,       \* AshmemMemory objects, by their mMemory's handle
          openFds     \* file descriptors that are open

memoryVars == <<phase, count, batch, mem, mappers, maps, openFds>>
callVars == <<phase, count, batch>>

(* hidl_memory() and what allocateOne() makes.                             *)
EmptyMemory == [fd |-> NoFd, name |-> "", size |-> 0]
AshmemOf(f) == [fd |-> f, name |-> "ashmem", size |-> 1]

MemoryInit ==
    /\ phase = "idle" /\ count = 0 /\ batch = <<>>
    /\ mem = [m \in Memories |-> EmptyMemory]
    /\ mappers = {}
    /\ maps = {}
    /\ openFds = {}

FdsOf(s) == {s[i] : i \in DOMAIN s}

(* Plausible bugs, used only to show that the properties can fail.         *)
CleanupAfterSuccessOnly(b) == IF Len(b) = count THEN FdsOf(b) ELSE {}
MoveKeepsName(w) == [fd |-> NoFd, name |-> mem[w].name, size |-> 0]

-----------------------------------------------------------------------------
(* allocate() is a batch of one.  A batch that is too large fails at once. *)
Request(n) ==
    /\ phase = "idle"
    /\ phase' = IF n > MaxBatch THEN "failing" ELSE "allocating"
    /\ count' = n
    /\ UNCHANGED <<batch, mem, mappers, maps, openFds>>

(* allocateOne(), until the batch is complete or a region is refused.      *)
AllocateOne(f) ==
    /\ phase = "allocating" /\ Len(batch) < count
    /\ f \in Fds \ openFds
    /\ openFds' = openFds \union {f}
    /\ batch' = Append(batch, f)
    /\ UNCHANGED <<phase, count, mem, mappers, maps>>

AllocateOneFails ==
    /\ phase = "allocating" /\ Len(batch) < count
    /\ phase' = "failing"
    /\ UNCHANGED <<count, batch, mem, mappers, maps, openFds>>

BatchComplete ==
    /\ phase = "allocating" /\ Len(batch) = count
    /\ phase' = "serving"
    /\ UNCHANGED <<count, batch, mem, mappers, maps, openFds>>

(* hidl_memory's operator=: the handle m owned is closed, and v's cloned.  *)
Assign(m, v) ==
    LET left == openFds \ {mem[m].fd}
    IN  IF v.fd = NoFd
        THEN openFds' = left /\ mem' = [mem EXCEPT ![m] = v]
        ELSE \E f \in Fds \ left :
                /\ openFds' = left \union {f}
                /\ mem' = [mem EXCEPT ![m] = [v EXCEPT !.fd = f]]

(* The client's callback copies a memory it is given, an empty one if the  *)
(* allocation failed.                                                      *)
Receive(m) ==
    /\ \/ phase = "serving" /\ \E i \in DOMAIN batch : Assign(m, AshmemOf(batch[i]))
       \/ phase = "failing" /\ Assign(m, EmptyMemory)
    /\ UNCHANGED <<callVars, mappers, maps>>

(* The handles the allocator closes after the callback.                    *)
cleanup(b) == FdsOf(b)

EndOfCall ==
    /\ phase \in {"serving", "failing"}
    /\ openFds' = openFds \ cleanup(batch)
    /\ phase' = "idle" /\ count' = 0 /\ batch' = <<>>
    /\ UNCHANGED <<mem, mappers, maps>>

(* hidl_memory's copy and move; both do nothing for m itself.              *)
CopyMemory(m, w) ==
    /\ m # w
    /\ Assign(m, mem[w])
    /\ UNCHANGED <<callVars, mappers, maps>>

(* What a move leaves behind: hidl_handle and hidl_string are emptied by   *)
(* their own moves, mSize is set to 0.                                     *)
MovedFrom(w) == EmptyMemory

MoveMemory(m, w) ==
    /\ m # w
    /\ mem' = [mem EXCEPT ![m] = mem[w], ![w] = MovedFrom(w)]
    /\ openFds' = openFds \ {mem[m].fd}
    /\ UNCHANGED <<callVars, mappers, maps>>

(* A memory is destroyed, and a new one made in its place.                 *)
RenewMemory(m) ==
    /\ mem' = [mem EXCEPT ![m] = EmptyMemory]
    /\ openFds' = openFds \ {mem[m].fd}
    /\ UNCHANGED <<callVars, mappers, maps>>

(* IMapper::getService(name, true) ends in HIDL_FETCH_IMapper.             *)
HIDL_FETCH_IMapper(name) == name = "ashmem"

(* AshmemMapper::mapMemory(): mmap() may fail; an AshmemMemory owns a      *)
(* clone of the handle.                                                    *)
MapRegion(ok) ==
    IF ok THEN \E f \in Fds \ openFds :
                  maps' = maps \union {f} /\ openFds' = openFds \union {f}
          ELSE UNCHANGED <<maps, openFds>>

(* mapMemory(): without a mapper for the name the result is null; with     *)
(* one, mem.handle() is dereferenced.  A mapping that fails leaves only    *)
(* the cached mapper.                                                      *)
mapMemory(m, ok) ==
    /\ mem[m].name \in mappers \/ HIDL_FETCH_IMapper(mem[m].name)
    /\ mappers' = mappers \union {mem[m].name}
    /\ MapRegion(ok)
    /\ UNCHANGED <<callVars, mem>>

(* ~AshmemMemory: munmap, and mMemory closes its handle.                   *)
Unmap(f) ==
    /\ f \in maps
    /\ maps' = maps \ {f}
    /\ openFds' = openFds \ {f}
    /\ UNCHANGED <<callVars, mem, mappers>>

MemoryNext ==
    \/ \E n \in 0..(MaxBatch + 1) : Request(n)
    \/ \E f \in Fds : AllocateOne(f) \/ Unmap(f)
    \/ AllocateOneFails \/ BatchComplete \/ EndOfCall
    \/ \E m \in Memories :
          \/ Receive(m) \/ RenewMemory(m)
          \/ \E ok \in BOOLEAN : mapMemory(m, ok)
          \/ \E w \in Memories : CopyMemory(m, w) \/ MoveMemory(m, w)

MemorySpec == MemoryInit /\ [][MemoryNext]_memoryVars

-----------------------------------------------------------------------------
(***************************************************************************)
(* mapMemory() and AshmemMapper dereference the handle of any memory whose *)
(* name finds a mapper: such a memory has a handle, it is open whatever    *)
(* the allocator has cleaned up, and its size is that of the region.  This *)
(* must survive failed allocations, copies and moves of hidl_memory.       *)
(***************************************************************************)
MappableMemoryIsWhole ==
    \A m \in Memories :
        HIDL_FETCH_IMapper(mem[m].name) =>
            mem[m].fd \in openFds /\ mem[m] = AshmemOf(mem[m].fd)

(***************************************************************************)
(* Every open file descriptor is closed by somebody: it belongs to the     *)
(* allocator's call in progress, to one client object or to one mapping.   *)
(* A batch that fails half way gives back what it had.                     *)
(***************************************************************************)
FdsAccountedFor ==
    LET held == {mem[m].fd : m \in Memories} \ {NoFd}
    IN  /\ openFds = FdsOf(batch) \union held \union maps
        /\ FdsOf(batch) \cap (held \union maps) = {} /\ held \cap maps = {}
        /\ \A m, w \in Memories : m # w /\ mem[m].fd = mem[w].fd => mem[m].fd = NoFd
==============================================================================
