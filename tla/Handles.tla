------------------------------ MODULE Handles -------------------------------
(***************************************************************************)
(* Who owns memory and mappings: sa_malloc and sa_free of lib/my-malloc.c, *)
(* sa_open_mmap of lib/mmp.c, sa_open and sa_close of lib/file.c and       *)
(* sa_open_did and sa_close_did of lib/did.c, called by the Ruby binding,  *)
(* ruby/sufary.c, whose objects close what they wrap when the garbage      *)
(* collector sweeps them, in any order.  Each step of a call that          *)
(* allocates or frees is an action of its own.  A mapping lives as long as *)
(* its SA_MMAP block: both ends are one function in the code.              *)
(***************************************************************************)
EXTENDS Naturals

CONSTANTS Addresses,  \* of heap blocks
          Objects,    \* Ruby objects, each made once
          NULL

ASSUME NullAssumption == NULL \notin Addresses \union Objects

VARIABLES mode,     \* of sa_set_memory_debug_mode; 1 unless a program asks for 0
          type,     \* what the block at an address holds, "free" if none
          mmtxt,    \* SUFARY: the mapped text; DID: the mapped file (mmdid)
          mmary,    \* SUFARY: the mapped array
          list,     \* the addresses in sa_malloc_list
          corrupt,  \* free() was called for a block already free
          frame,    \* the call in progress
          kind,     \* what an object is
          ptr,      \* the handle an object wraps
          rary,     \* R_DID: its copy of the pointer in the object given
          held,     \* the objects the Ruby program refers to
          leaked    \* handles nobody can close any more

heapvars == <<type, mmtxt, mmary, list>>
objvars == <<kind, ptr, rary, held>>
vars == <<mode, heapvars, corrupt, frame, objvars, leaked>>

Idle == [at |-> "idle", ptr |-> NULL, obj |-> NULL, arg |-> NULL]

(* sa_malloc and sa_calloc with memory left; in mode 0 there is no list.   *)
Listed(a) == IF mode = 1 THEN list \union {a} ELSE list

Malloc(a, t) ==
  /\ type[a] = "free"
  /\ type' = [type EXCEPT ![a] = t]
  /\ list' = Listed(a)

(* Fault: what is not on the list is freed, too.                           *)
FreeableUnlisted(S) == S

(* The blocks sa_free frees of a set: in mode 1 those on its list.         *)
Freeable(S) == IF mode = 1 THEN S \intersect list ELSE S

Without(f, S, value) == [x \in DOMAIN f |-> IF x \in S THEN value ELSE f[x]]

(* What a block held is gone with it: overwritten with OLD_GARBAGE.        *)
FreeBlocks(S) ==
  /\ type' = Without(type, Freeable(S), "free")
  /\ mmtxt' = Without(mmtxt, Freeable(S), NULL)
  /\ mmary' = Without(mmary, Freeable(S), NULL)
  /\ list' = list \ S
  /\ corrupt' = (corrupt \/ \E a \in Freeable(S) : type[a] = "free")

(* What sa_close or sa_close_did frees: the mappings there are, the handle. *)
Owned(a) == ({mmtxt[a], mmary[a]} \ {NULL}) \union {a}

Live == {o \in Objects : kind[o] \in {"Sufary", "SufaryDid"}}

-----------------------------------------------------------------------------
Init ==
  /\ mode \in {0, 1}
  /\ type = [a \in Addresses |-> "free"]
  /\ mmtxt = [a \in Addresses |-> NULL]
  /\ mmary = [a \in Addresses |-> NULL]
  /\ list = {}
  /\ corrupt = FALSE
  /\ frame = Idle
  /\ kind = [o \in Objects |-> "unused"]
  /\ ptr = [o \in Objects |-> NULL]
  /\ rary = [o \in Objects |-> NULL]
  /\ held = {}
  /\ leaked = {}

(* C says nothing of a program that has freed a block twice: nothing       *)
(* begins any more.                                                        *)
Ready == frame = Idle /\ ~ corrupt

(* A handle, zeroed by sa_calloc.  Without memory nothing has happened.    *)
CallocHandle(a, t, next) ==
  /\ Ready
  /\ Malloc(a, t)
  /\ mmtxt' = [mmtxt EXCEPT ![a] = NULL]
  /\ mmary' = [mmary EXCEPT ![a] = NULL]
  /\ frame' = next
  /\ UNCHANGED <<mode, corrupt, objvars, leaked>>

SufaryNew(o, a) ==
  /\ kind[o] = "unused"
  /\ CallocHandle(a, "SUFARY", [at |-> "text", ptr |-> a, obj |-> o, arg |-> NULL])

(* Any data object passes for an index, and NULL stands for what is none.  *)
SufaryDidNew(o, p, a) ==
  /\ kind[o] = "unused"
  /\ p \in held \union {NULL}
  /\ CallocHandle(a, "DID", [at |-> "did", ptr |-> a, obj |-> o, arg |-> p])

OpenText(b) ==
  /\ frame.at = "text"
  /\ Malloc(b, "SA_MMAP")
  /\ mmtxt' = [mmtxt EXCEPT ![frame.ptr] = b]
  /\ frame' = [frame EXCEPT !.at = "array"]
  /\ UNCHANGED <<mode, mmary, corrupt, objvars, leaked>>

OpenArray(b) ==
  /\ frame.at = "array"
  /\ Malloc(b, "SA_MMAP")
  /\ mmary' = [mmary EXCEPT ![frame.ptr] = b]
  /\ frame' = [frame EXCEPT !.at = "wrap"]
  /\ UNCHANGED <<mode, mmtxt, corrupt, objvars, leaked>>

(* Fault: what was opened before is not closed.                            *)
MmapFailsUnclosed ==
  /\ frame.at \in {"text", "array"}
  /\ frame' = Idle
  /\ UNCHANGED <<mode, heapvars, corrupt, objvars, leaked>>

(* sa_open_mmap gives back its own block before it returns NULL: no file,  *)
(* no memory, or an empty file, which mmap refuses.                        *)
MmapFails ==
  /\ frame.at \in {"text", "array"}
  /\ frame' = [frame EXCEPT !.at = "close"]
  /\ UNCHANGED <<mode, heapvars, corrupt, objvars, leaked>>

CloseFailed ==
  /\ frame.at = "close"
  /\ FreeBlocks(Owned(frame.ptr))
  /\ frame' = [frame EXCEPT !.at = "free_again"]
  /\ UNCHANGED <<mode, objvars, leaked>>

(* sa_open frees what its sa_close has freed.                              *)
FreeAgain ==
  /\ frame.at = "free_again"
  /\ FreeBlocks({frame.ptr})
  /\ frame' = Idle
  /\ UNCHANGED <<mode, objvars, leaked>>

(* Data_Wrap_Struct.                                                       *)
WrapSufary ==
  /\ frame.at = "wrap"
  /\ kind' = [kind EXCEPT ![frame.obj] = "Sufary"]
  /\ ptr' = [ptr EXCEPT ![frame.obj] = frame.ptr]
  /\ held' = held \union {frame.obj}
  /\ frame' = Idle
  /\ UNCHANGED <<mode, heapvars, corrupt, rary, leaked>>

OpenDid(b) ==
  /\ frame.at = "did"
  /\ Malloc(b, "SA_MMAP")
  /\ mmtxt' = [mmtxt EXCEPT ![frame.ptr] = b]
  /\ frame' = [frame EXCEPT !.at = "wrap_did"]
  /\ UNCHANGED <<mode, mmary, corrupt, objvars, leaked>>

(* sa_open_did returns NULL and keeps the handle to itself.                *)
OpenDidFails ==
  /\ frame.at = "did"
  /\ leaked' = leaked \union {frame.ptr}
  /\ frame' = Idle
  /\ UNCHANGED <<mode, heapvars, corrupt, objvars>>

(* The index is given as a pointer: the collector is told nothing of it.   *)
(* That of a SufaryDid leads to its R_DID, taken for a SUFARY all the same *)
(* and named here by the object it belongs to.                             *)
WrapDid ==
  /\ frame.at = "wrap_did" /\ frame.arg # NULL
  /\ kind' = [kind EXCEPT ![frame.obj] = "SufaryDid"]
  /\ ptr' = [ptr EXCEPT ![frame.obj] = frame.ptr]
  /\ rary' = [rary EXCEPT ![frame.obj] =
                 IF kind[frame.arg] = "Sufary" THEN ptr[frame.arg] ELSE frame.arg]
  /\ held' = held \union {frame.obj}
  /\ frame' = Idle
  /\ UNCHANGED <<mode, heapvars, corrupt, leaked>>

(* The argument is no data object: Data_Get_Struct raises an exception.    *)
WrapDidRaises ==
  /\ frame.at = "wrap_did" /\ frame.arg = NULL
  /\ leaked' = leaked \union {frame.ptr}
  /\ frame' = Idle
  /\ UNCHANGED <<mode, heapvars, corrupt, objvars>>

(* The program drops its last reference to an object.                      *)
Release(o) ==
  /\ Ready
  /\ o \in held
  /\ held' = held \ {o}
  /\ UNCHANGED <<mode, heapvars, corrupt, frame, kind, ptr, rary, leaked>>

(* sufary_free or sufarydid_free: sa_close or sa_close_did.  The collector *)
(* runs between calls, or in Data_Wrap_Struct before the object is made.   *)
Sweep(o) ==
  /\ Ready \/ frame.at \in {"wrap", "wrap_did"}
  /\ o \in Live \ held
  /\ FreeBlocks(Owned(ptr[o]))
  /\ kind' = [kind EXCEPT ![o] = "swept"]
  /\ ptr' = [ptr EXCEPT ![o] = NULL]
  /\ rary' = [rary EXCEPT ![o] = NULL]
  /\ UNCHANGED <<mode, frame, held, leaked>>

Next ==
  \/ \E o \in Objects, a \in Addresses :
       SufaryNew(o, a) \/ \E p \in Objects \union {NULL} : SufaryDidNew(o, p, a)
  \/ \E b \in Addresses : OpenText(b) \/ OpenArray(b) \/ OpenDid(b)
  \/ MmapFails \/ CloseFailed \/ FreeAgain \/ WrapSufary
  \/ OpenDidFails \/ WrapDid \/ WrapDidRaises
  \/ \E o \in Objects : Release(o) \/ Sweep(o)

Spec == Init /\ [][Next]_vars

-----------------------------------------------------------------------------
Allocated == {a \in Addresses : type[a] # "free"}

Building == frame.at \in {"text", "array", "close", "wrap", "did", "wrap_did"}

(* The handles from which blocks are still reachable.                      *)
Roots == {ptr[o] : o \in Live} \union leaked
         \union (IF Building THEN {frame.ptr} ELSE {})

TypeOK ==
  /\ mode \in {0, 1}
  /\ type \in [Addresses -> {"free", "SUFARY", "DID", "SA_MMAP"}]
  /\ mmtxt \in [Addresses -> Addresses \union {NULL}]
  /\ mmary \in [Addresses -> Addresses \union {NULL}]
  /\ list \subseteq Addresses
  /\ corrupt \in BOOLEAN
  /\ frame \in [at : {"idle", "text", "array", "close", "free_again", "wrap",
                      "did", "wrap_did"},
                ptr : Addresses \union {NULL}, obj : Objects \union {NULL},
                arg : Objects \union {NULL}]
  /\ kind \in [Objects -> {"unused", "Sufary", "SufaryDid", "swept"}]
  /\ ptr \in [Objects -> Addresses \union {NULL}]
  /\ rary \in [Objects -> Addresses \union Objects \union {NULL}]
  /\ held \subseteq Live
  /\ leaked \subseteq Addresses

WrappedOnce ==
  /\ \A o, p \in Live : o # p => ptr[o] # ptr[p]
  /\ \A o \in Live : ptr[o] \notin leaked

OneOwner ==
  /\ Allocated = UNION {Owned(r) : r \in Roots}
  /\ \A r, s \in Roots : r # s => Owned(r) \intersect Owned(s) = {}
  /\ WrappedOnce

(* Until free() is called for a free block, every block, and with it every *)
(* mapping, belongs to exactly one handle: one that an object wraps, one   *)
(* that is being opened, or one that is lost, which only a failed          *)
(* SufaryDid.new does; a handle's own blocks are distinct.                 *)
BlocksHaveOneOwner == ~ corrupt => OneOwner

(* In the default mode nothing is freed twice, though sa_open tries to,    *)
(* and sa_memory_leak_check sees exactly what is allocated.                *)
DebugModeIsSafe == mode = 1 => ~ corrupt /\ list = Allocated

(* What ruby/Reference.rd.ja (line 63) says of get_doc_region, with no     *)
(* condition on the index's object: it takes out the text area at a        *)
(* position.  The text it takes it from is there for every SufaryDid made  *)
(* with a Sufary.                                                          *)
DidReadsItsIndex ==
  \A o \in held :
    kind[o] = "SufaryDid" /\ rary[o] \in Addresses => type[rary[o]] = "SUFARY"

-----------------------------------------------------------------------------
(* The inductive invariant.  A handle has two blocks at most, both         *)
(* mappings, and no other block refers to one.                             *)
HandlesOK ==
  /\ \A r \in Roots :
       /\ r \in Addresses
       /\ type[r] \in {"SUFARY", "DID"}
       /\ \A b \in {mmtxt[r], mmary[r]} \ {NULL} : type[b] = "SA_MMAP"
       /\ mmtxt[r] # NULL => mmtxt[r] # mmary[r]
  /\ \A a \in Addresses : type[a] \in {"free", "SA_MMAP"} =>
       mmtxt[a] = NULL /\ mmary[a] = NULL

(* What an object wraps was opened completely.                             *)
ObjectsOK ==
  \A o \in Objects :
    /\ kind[o] = "Sufary" =>
         /\ type[ptr[o]] = "SUFARY"
         /\ mmtxt[ptr[o]] # NULL /\ mmary[ptr[o]] # NULL
    /\ kind[o] = "SufaryDid" => type[ptr[o]] = "DID"

(* How far the call in progress has come, from what its handle holds.      *)
FrameOK ==
  /\ Building =>
       /\ frame.ptr \in Addresses \ leaked
       /\ \A o \in Live : ptr[o] # frame.ptr
       /\ frame.obj \in Objects /\ kind[frame.obj] = "unused"
       /\ type[frame.ptr] =
            IF frame.at \in {"did", "wrap_did"} THEN "DID" ELSE "SUFARY"
  /\ frame.at \in {"text", "did"} => mmtxt[frame.ptr] = NULL
  /\ frame.at \in {"text", "array", "did"} => mmary[frame.ptr] = NULL
  /\ frame.at \in {"array", "wrap"} => mmtxt[frame.ptr] # NULL
  /\ frame.at = "wrap" => mmary[frame.ptr] # NULL
  /\ frame.at \in {"did", "wrap_did"} /\ frame.arg # NULL =>
       frame.arg \in held
  /\ frame.at = "free_again" =>
       frame.ptr \in Addresses /\ type[frame.ptr] = "free"

IInv ==
  /\ TypeOK /\ HandlesOK /\ ObjectsOK /\ FrameOK
  /\ OneOwner /\ DebugModeIsSafe
=============================================================================
