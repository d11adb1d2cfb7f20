---------------------------- MODULE HandlesProofs ---------------------------
(***************************************************************************)
(* That the inductive invariant of Handles is one, for any heap and any    *)
(* number of objects, and what follows from it.  What the calls do to the  *)
(* heap is proved of functions and sets first: a handle made, a mapping    *)
(* put into a handle, a handle freed with its mappings.                    *)
(***************************************************************************)
EXTENDS Handles, TLAPS

Types == {"free", "SUFARY", "DID", "SA_MMAP"}

(* The blocks of type ty, with the fields mt and ma, belong to the handles *)
(* rs, each to one.                                                        *)
HeapOK(ty, mt, ma, rs) ==
  /\ ty \in [Addresses -> Types]
  /\ mt \in [Addresses -> Addresses \union {NULL}]
  /\ ma \in [Addresses -> Addresses \union {NULL}]
  /\ rs \subseteq Addresses
  /\ \A r \in rs :
       /\ ty[r] \in {"SUFARY", "DID"}
       /\ mt[r] # NULL => ty[mt[r]] = "SA_MMAP" /\ mt[r] # ma[r]
       /\ ma[r] # NULL => ty[ma[r]] = "SA_MMAP"
  /\ \A a \in Addresses :
       ty[a] \in {"free", "SA_MMAP"} => mt[a] = NULL /\ ma[a] = NULL
  /\ \A a \in Addresses :
       ty[a] # "free" => \E r \in rs : a = r \/ a = mt[r] \/ a = ma[r]
  /\ \A r, s \in rs : r # s =>
       /\ mt[r] # NULL => mt[r] # mt[s] /\ mt[r] # ma[s]
       /\ ma[r] # NULL => ma[r] # mt[s] /\ ma[r] # ma[s]

LEMMA HeapFromInv ==
  ASSUME TypeOK, HandlesOK, OneOwner
  PROVE  HeapOK(type, mmtxt, mmary, Roots)
<1>1. \A a \in Addresses : type[a] # "free" =>
        \E r \in Roots : a = r \/ a = mmtxt[r] \/ a = mmary[r]
  BY DEF OneOwner, Allocated, Owned
<1>2. \A r, s \in Roots : r # s =>
        /\ mmtxt[r] # NULL => mmtxt[r] # mmtxt[s] /\ mmtxt[r] # mmary[s]
        /\ mmary[r] # NULL => mmary[r] # mmtxt[s] /\ mmary[r] # mmary[s]
  BY DEF OneOwner, Owned
<1>3. \A r \in Roots :
        /\ r \in Addresses
        /\ type[r] \in {"SUFARY", "DID"}
        /\ mmtxt[r] # NULL => type[mmtxt[r]] = "SA_MMAP" /\ mmtxt[r] # mmary[r]
        /\ mmary[r] # NULL => type[mmary[r]] = "SA_MMAP"
  BY DEF HandlesOK
<1>4. \A a \in Addresses : type[a] \in {"free", "SA_MMAP"} =>
        mmtxt[a] = NULL /\ mmary[a] = NULL
  BY DEF HandlesOK
<1>5. /\ type \in [Addresses -> Types]
      /\ mmtxt \in [Addresses -> Addresses \union {NULL}]
      /\ mmary \in [Addresses -> Addresses \union {NULL}]
  BY DEF TypeOK, Types
<1>. QED  BY <1>1, <1>2, <1>3, <1>4, <1>5 DEF HeapOK

(* The way back, said of any heap so that it serves the next state.        *)
OwnedIn(mt, ma, a) == ({mt[a], ma[a]} \ {NULL}) \union {a}

LEMMA OwnedOfHeap ==
  ASSUME NEW ty, NEW mt, NEW ma, NEW rs, HeapOK(ty, mt, ma, rs)
  PROVE  /\ {a \in Addresses : ty[a] # "free"} = UNION {OwnedIn(mt, ma, r) : r \in rs}
         /\ \A r, s \in rs : r # s => OwnedIn(mt, ma, r) \intersect OwnedIn(mt, ma, s) = {}
         /\ \A r \in rs : \A b \in {mt[r], ma[r]} \ {NULL} : ty[b] = "SA_MMAP"
<1>1. \A a \in Addresses : ty[a] # "free" => \E r \in rs : a \in OwnedIn(mt, ma, r)
  <2> TAKE a \in Addresses
  <2> HAVE ty[a] # "free"
  <2>1. PICK r \in rs : a = r \/ a = mt[r] \/ a = ma[r]
    BY DEF HeapOK
  <2>2. a # NULL
    BY NullAssumption
  <2>. QED  BY <2>1, <2>2 DEF OwnedIn
<1>2. \A r \in rs : \A b \in OwnedIn(mt, ma, r) :
        b \in Addresses /\ ty[b] # "free" /\ (b # r => ty[b] = "SA_MMAP")
  BY NullAssumption DEF HeapOK, OwnedIn
<1>3. \A r, s \in rs : r # s => OwnedIn(mt, ma, r) \intersect OwnedIn(mt, ma, s) = {}
  <2> SUFFICES ASSUME NEW r \in rs, NEW s \in rs, r # s,
                      NEW b \in OwnedIn(mt, ma, r), b \in OwnedIn(mt, ma, s)
               PROVE  FALSE
    OBVIOUS
  <2>1. ty[r] \in {"SUFARY", "DID"} /\ ty[s] \in {"SUFARY", "DID"}
    BY DEF HeapOK
  <2>2. b # r /\ b # s
    BY <1>2, <2>1
  <2>3. /\ b # NULL
        /\ b = mt[r] \/ b = ma[r]
        /\ b = mt[s] \/ b = ma[s]
    BY <2>2 DEF OwnedIn
  <2>. QED  BY <2>3 DEF HeapOK
<1>4. \A r \in rs : \A b \in {mt[r], ma[r]} \ {NULL} : ty[b] = "SA_MMAP"
  BY DEF HeapOK
<1>5. {a \in Addresses : ty[a] # "free"} = UNION {OwnedIn(mt, ma, r) : r \in rs}
  BY <1>1, <1>2
<1>. QED  BY <1>3, <1>4, <1>5

LEMMA InvFromHeap ==
  ASSUME TypeOK', HeapOK(type', mmtxt', mmary', Roots'), WrappedOnce'
  PROVE  HandlesOK' /\ OneOwner'
<1> DEFINE own(r) == OwnedIn(mmtxt', mmary', r)
<1>1. /\ {a \in Addresses : type'[a] # "free"} = UNION {own(r) : r \in Roots'}
      /\ \A r, s \in Roots' : r # s => own(r) \intersect own(s) = {}
      /\ \A r \in Roots' : \A b \in {mmtxt'[r], mmary'[r]} \ {NULL} : type'[b] = "SA_MMAP"
  BY OwnedOfHeap
<1>2. HandlesOK'
  BY <1>1 DEF HandlesOK, HeapOK
<1>3. OneOwner'
  BY <1>1 DEF OneOwner, Allocated, Owned, OwnedIn
<1>. QED  BY <1>2, <1>3
-----------------------------------------------------------------------------
(* A new handle.                                                           *)
LEMMA HeapNew ==
  ASSUME NEW ty, NEW mt, NEW ma, NEW rs, HeapOK(ty, mt, ma, rs),
         NEW a \in Addresses, ty[a] = "free", NEW t \in {"SUFARY", "DID"}
  PROVE  HeapOK([ty EXCEPT ![a] = t], [mt EXCEPT ![a] = NULL],
                [ma EXCEPT ![a] = NULL], rs \union {a})
<1>1. mt[a] = NULL /\ ma[a] = NULL
  BY DEF HeapOK
<1>2. [mt EXCEPT ![a] = NULL] = mt /\ [ma EXCEPT ![a] = NULL] = ma
  BY <1>1 DEF HeapOK
<1>3. \A r \in rs : r # a /\ mt[r] # a /\ ma[r] # a
  BY NullAssumption DEF HeapOK
<1>. QED  BY <1>1, <1>2, <1>3, NullAssumption DEF HeapOK, Types

(* A mapping put into the field of a handle that had none.                 *)
LEMMA HeapText ==
  ASSUME NEW ty, NEW mt, NEW ma, NEW rs, HeapOK(ty, mt, ma, rs),
         NEW p \in rs, mt[p] = NULL, NEW b \in Addresses, ty[b] = "free"
  PROVE  HeapOK([ty EXCEPT ![b] = "SA_MMAP"], [mt EXCEPT ![p] = b], ma, rs)
<1>1. \A r \in rs : r # b /\ mt[r] # b /\ ma[r] # b
  BY NullAssumption DEF HeapOK
<1>2. mt[b] = NULL /\ ma[b] = NULL /\ b # NULL
  BY NullAssumption DEF HeapOK
<1>. QED  BY <1>1, <1>2, NullAssumption DEF HeapOK, Types

LEMMA HeapArray ==
  ASSUME NEW ty, NEW mt, NEW ma, NEW rs, HeapOK(ty, mt, ma, rs),
         NEW p \in rs, ma[p] = NULL, NEW b \in Addresses, ty[b] = "free"
  PROVE  HeapOK([ty EXCEPT ![b] = "SA_MMAP"], mt, [ma EXCEPT ![p] = b], rs)
<1>1. \A r \in rs : r # b /\ mt[r] # b /\ ma[r] # b
  BY NullAssumption DEF HeapOK
<1>2. mt[b] = NULL /\ ma[b] = NULL /\ b # NULL
  BY NullAssumption DEF HeapOK
<1>. QED  BY <1>1, <1>2, NullAssumption DEF HeapOK, Types

(* A handle freed with all it has.                                         *)
LEMMA HeapFree ==
  ASSUME NEW ty, NEW mt, NEW ma, NEW rs, HeapOK(ty, mt, ma, rs), NEW p \in rs
  PROVE  LET gone == OwnedIn(mt, ma, p) IN
         HeapOK(Without(ty, gone, "free"), Without(mt, gone, NULL),
                Without(ma, gone, NULL), rs \ {p})
<1> DEFINE gone == OwnedIn(mt, ma, p)
           ty1 == Without(ty, gone, "free")
           mt1 == Without(mt, gone, NULL)
           ma1 == Without(ma, gone, NULL)
<1>1. /\ ty1 \in [Addresses -> Types]
      /\ mt1 \in [Addresses -> Addresses \union {NULL}]
      /\ ma1 \in [Addresses -> Addresses \union {NULL}]
      /\ \A a \in Addresses : a \in gone => ty1[a] = "free" /\ mt1[a] = NULL /\ ma1[a] = NULL
      /\ \A a \in Addresses : a \notin gone =>
           ty1[a] = ty[a] /\ mt1[a] = mt[a] /\ ma1[a] = ma[a]
  BY DEF HeapOK, Without, Types
<1>2. \A r \in rs \ {p} :
        /\ r \in Addresses /\ r \notin gone
        /\ mt[r] \notin gone /\ ma[r] \notin gone
  <2> SUFFICES ASSUME NEW r \in rs \ {p}
               PROVE  /\ r \in Addresses /\ r \notin gone
                      /\ mt[r] \notin gone /\ ma[r] \notin gone
    OBVIOUS
  <2>1. OwnedIn(mt, ma, r) \intersect gone = {} /\ r \in Addresses /\ p \in Addresses
    BY OwnedOfHeap DEF HeapOK
  <2>2. NULL \notin gone
    BY <2>1, NullAssumption DEF OwnedIn
  <2>. QED  BY <2>1, <2>2 DEF OwnedIn
<1>3. \A a \in Addresses : ty1[a] # "free" =>
        \E r \in rs \ {p} : a = r \/ a = mt1[r] \/ a = ma1[r]
  <2> TAKE a \in Addresses
  <2> HAVE ty1[a] # "free"
  <2>1. a \notin gone /\ ty[a] # "free" /\ a # NULL
    BY <1>1, NullAssumption
  <2>2. PICK r \in rs : a = r \/ a = mt[r] \/ a = ma[r]
    BY <2>1 DEF HeapOK
  <2>3. r # p
    BY <2>1, <2>2 DEF OwnedIn
  <2>. QED  BY <2>2, <2>3, <1>1, <1>2
<1>4. \A r \in rs \ {p} :
        mt1[r] = mt[r] /\ ma1[r] = ma[r] /\ ty1[r] = ty[r]
  BY <1>1, <1>2
<1>5. \A r \in rs \ {p} :
        /\ ty1[r] \in {"SUFARY", "DID"}
        /\ mt1[r] # NULL => ty1[mt1[r]] = "SA_MMAP" /\ mt1[r] # ma1[r]
        /\ ma1[r] # NULL => ty1[ma1[r]] = "SA_MMAP"
  BY <1>1, <1>2, <1>4, NullAssumption DEF HeapOK
<1>6. \A a \in Addresses :
        ty1[a] \in {"free", "SA_MMAP"} => mt1[a] = NULL /\ ma1[a] = NULL
  BY <1>1 DEF HeapOK
<1>7. \A r, s \in rs \ {p} : r # s =>
        /\ mt1[r] # NULL => mt1[r] # mt1[s] /\ mt1[r] # ma1[s]
        /\ ma1[r] # NULL => ma1[r] # mt1[s] /\ ma1[r] # ma1[s]
  BY <1>4 DEF HeapOK
<1>8. rs \ {p} \subseteq Addresses
  BY DEF HeapOK
<1> HIDE DEF ty1, mt1, ma1, gone
<1>9. HeapOK(ty1, mt1, ma1, rs \ {p})
  BY <1>1, <1>3, <1>5, <1>6, <1>7, <1>8 DEF HeapOK
<1>. QED  BY <1>9 DEF gone, ty1, mt1, ma1
-----------------------------------------------------------------------------
(* A handle with all it has can be freed: in debugging mode it is listed.  *)
LEMMA FreeRoot ==
  ASSUME IInv, NEW r \in Roots, FreeBlocks(Owned(r)), mode' = mode
  PROVE  /\ type' = Without(type, Owned(r), "free")
         /\ mmtxt' = Without(mmtxt, Owned(r), NULL)
         /\ mmary' = Without(mmary, Owned(r), NULL)
         /\ Owned(r) \subseteq Allocated
         /\ corrupt' \in BOOLEAN /\ list' \subseteq Addresses
         /\ DebugModeIsSafe'
         /\ HeapOK(type', mmtxt', mmary', Roots \ {r})
<1>1. HeapOK(type, mmtxt, mmary, Roots)
  BY HeapFromInv DEF IInv
<1>2. Owned(r) \subseteq Allocated
  BY DEF IInv, OneOwner
<1>3. Freeable(Owned(r)) = Owned(r)
  BY <1>2 DEF IInv, TypeOK, DebugModeIsSafe, Freeable
<1>4. corrupt' = corrupt /\ list' = list \ Owned(r)
  BY <1>2, <1>3 DEF FreeBlocks, Allocated, IInv, TypeOK
<1>5. /\ type' = Without(type, Owned(r), "free")
      /\ mmtxt' = Without(mmtxt, Owned(r), NULL)
      /\ mmary' = Without(mmary, Owned(r), NULL)
  BY <1>3 DEF FreeBlocks
<1>6. Owned(r) = OwnedIn(mmtxt, mmary, r)
  BY DEF Owned, OwnedIn
<1>7. HeapOK(type', mmtxt', mmary', Roots \ {r})
  BY <1>1, <1>5, <1>6, HeapFree
<1>8. Allocated' = Allocated \ Owned(r)
  BY <1>5 DEF Allocated, Without, IInv, TypeOK
<1>9. DebugModeIsSafe'
  BY <1>4, <1>8 DEF DebugModeIsSafe, IInv
<1>. QED  BY <1>2, <1>4, <1>5, <1>7, <1>9 DEF IInv, TypeOK

LEMMA InitInv == Init => IInv
<1> SUFFICES ASSUME Init PROVE IInv
  OBVIOUS
<1> USE DEF Init
<1>1. Live = {} /\ ~ Building /\ Roots = {}
  BY DEF Live, Building, Roots, Idle
<1>2. TypeOK
  BY <1>1 DEF TypeOK, Idle
<1>3. HandlesOK /\ ObjectsOK
  BY <1>1 DEF HandlesOK, ObjectsOK
<1>4. FrameOK
  BY <1>1 DEF FrameOK, Idle
<1>5. OneOwner
  BY <1>1 DEF OneOwner, Allocated, WrappedOnce
<1>6. DebugModeIsSafe
  BY DEF DebugModeIsSafe, Allocated
<1>. QED  BY <1>2, <1>3, <1>4, <1>5, <1>6 DEF IInv

(* What objects wrap are handles, and none of them is being opened.        *)
LEMMA RootFacts ==
  ASSUME IInv
  PROVE  /\ Roots \subseteq Addresses
         /\ \A o \in Live : ptr[o] \in Roots
         /\ leaked \subseteq Roots
         /\ Building => frame.ptr \in Roots
         /\ \A r \in Roots : type[r] \in {"SUFARY", "DID"}
BY DEF IInv, HandlesOK, Roots

LEMMA CallocStep ==
  ASSUME IInv, NEW a \in Addresses, NEW t \in {"SUFARY", "DID"},
         NEW o \in Objects, kind[o] = "unused", NEW arg \in Objects \union {NULL},
         arg # NULL => t = "DID" /\ arg \in held,
         CallocHandle(a, t, [at |-> IF t = "DID" THEN "did" ELSE "text",
                             ptr |-> a, obj |-> o, arg |-> arg])
  PROVE  IInv'
<1> DEFINE next == [at |-> IF t = "DID" THEN "did" ELSE "text",
                    ptr |-> a, obj |-> o, arg |-> arg]
<1>1. /\ frame = Idle /\ type[a] = "free"
      /\ type' = [type EXCEPT ![a] = t]
      /\ mmtxt' = [mmtxt EXCEPT ![a] = NULL]
      /\ mmary' = [mmary EXCEPT ![a] = NULL]
      /\ list' = Listed(a)
      /\ frame' = next
      /\ UNCHANGED <<mode, corrupt, kind, ptr, rary, held, leaked>>
  BY DEF CallocHandle, Ready, Malloc, objvars
<1>2. Live' = Live /\ ~ Building /\ Building'
  BY <1>1 DEF Live, Building, Idle
<1>3. Roots' = Roots \union {a}
  BY <1>1, <1>2 DEF Roots
<1>4. a \notin Roots
  BY <1>1, RootFacts
<1>5. HeapOK(type', mmtxt', mmary', Roots')
  BY <1>1, <1>3, HeapFromInv, HeapNew DEF IInv
<1>6. TypeOK'
  <2>1. frame' \in [at : {"idle", "text", "array", "close", "free_again", "wrap",
                          "did", "wrap_did"},
                    ptr : Addresses \union {NULL}, obj : Objects \union {NULL},
                    arg : Objects \union {NULL}]
    BY <1>1
  <2>. QED  BY <1>1, <1>2, <2>1 DEF TypeOK, IInv, Listed
<1>7. WrappedOnce'
  BY <1>1, <1>2 DEF WrappedOnce, OneOwner, IInv
<1>8. \A r \in Roots : type'[r] = type[r] /\ mmtxt'[r] = mmtxt[r] /\ mmary'[r] = mmary[r]
  BY <1>1, <1>4, RootFacts DEF IInv, TypeOK
<1>9. ObjectsOK'
  <2>1. \A x \in Live : ptr[x] \in Roots
    BY RootFacts
  <2>. QED  BY <1>1, <1>8, <2>1 DEF ObjectsOK, IInv, Live
<1>10. FrameOK'
  <2>1. a \notin leaked /\ \A x \in Live : ptr[x] # a
    BY <1>4, RootFacts
  <2>2. type'[a] = t /\ mmtxt'[a] = NULL /\ mmary'[a] = NULL
    BY <1>1 DEF IInv, TypeOK
  <2>. QED  BY <1>1, <1>2, <2>1, <2>2 DEF FrameOK
<1>11. DebugModeIsSafe'
  <2>1. Allocated' = Allocated \union {a}
    BY <1>1 DEF Allocated, IInv, TypeOK
  <2>. QED  BY <1>1, <2>1 DEF DebugModeIsSafe, IInv, Listed
<1>. QED  BY <1>5, <1>6, <1>7, <1>9, <1>10, <1>11, InvFromHeap DEF IInv

(* A mapping made for the handle being opened.                             *)
LEMMA OpenTextStep ==
  ASSUME IInv, NEW b \in Addresses, OpenText(b) \/ OpenDid(b)
  PROVE  IInv'
<1> DEFINE next == IF frame.at = "text" THEN "array" ELSE "wrap_did"
<1>1. /\ frame.at \in {"text", "did"} /\ type[b] = "free"
      /\ type' = [type EXCEPT ![b] = "SA_MMAP"]
      /\ mmtxt' = [mmtxt EXCEPT ![frame.ptr] = b]
      /\ list' = Listed(b)
      /\ frame' = [frame EXCEPT !.at = next]
      /\ UNCHANGED <<mode, mmary, corrupt, kind, ptr, rary, held, leaked>>
  BY DEF OpenText, OpenDid, Malloc, objvars
<1>2. Live' = Live /\ Building /\ Building' /\ frame'.ptr = frame.ptr
  BY <1>1 DEF Live, Building, IInv, TypeOK
<1>3. Roots' = Roots
  BY <1>1, <1>2 DEF Roots
<1>4. /\ frame.ptr \in Roots /\ frame.ptr \in Addresses
      /\ mmtxt[frame.ptr] = NULL /\ mmary[frame.ptr] = NULL
  BY <1>1, <1>2, RootFacts DEF IInv, FrameOK
<1>5. HeapOK(type', mmtxt', mmary', Roots')
  BY <1>1, <1>3, <1>4, HeapFromInv, HeapText DEF IInv
<1>6. TypeOK'
  BY <1>1, <1>2 DEF TypeOK, IInv, Listed
<1>7. WrappedOnce'
  BY <1>1, <1>2 DEF WrappedOnce, OneOwner, IInv
<1>8. /\ \A r \in Roots : type'[r] = type[r] /\ mmary'[r] = mmary[r]
      /\ \A r \in Roots \ {frame.ptr} : mmtxt'[r] = mmtxt[r]
      /\ mmtxt'[frame.ptr] = b
  BY <1>1, <1>4, RootFacts DEF IInv, TypeOK
<1>9. ObjectsOK'
  <2>1. \A x \in Live : ptr[x] \in Roots \ {frame.ptr}
    BY <1>2, RootFacts DEF IInv, FrameOK
  <2>. QED  BY <1>1, <1>8, <2>1 DEF ObjectsOK, IInv, Live
<1>10. FrameOK'
  <2>1. /\ frame'.ptr = frame.ptr /\ frame'.obj = frame.obj /\ frame'.arg = frame.arg
        /\ frame'.at = next
    BY <1>1 DEF IInv, TypeOK
  <2>2. type'[frame.ptr] = type[frame.ptr] /\ mmary'[frame.ptr] = NULL
    BY <1>4, <1>8
  <2>. QED  BY <1>1, <1>2, <2>1, <2>2, <1>8, NullAssumption DEF FrameOK, IInv
<1>11. DebugModeIsSafe'
  <2>1. Allocated' = Allocated \union {b}
    BY <1>1 DEF Allocated, IInv, TypeOK
  <2>. QED  BY <1>1, <2>1 DEF DebugModeIsSafe, IInv, Listed
<1>. QED  BY <1>5, <1>6, <1>7, <1>9, <1>10, <1>11, InvFromHeap DEF IInv

LEMMA OpenArrayStep ==
  ASSUME IInv, NEW b \in Addresses, OpenArray(b)
  PROVE  IInv'
<1>1. /\ frame.at = "array" /\ type[b] = "free"
      /\ type' = [type EXCEPT ![b] = "SA_MMAP"]
      /\ mmary' = [mmary EXCEPT ![frame.ptr] = b]
      /\ list' = Listed(b)
      /\ frame' = [frame EXCEPT !.at = "wrap"]
      /\ UNCHANGED <<mode, mmtxt, corrupt, kind, ptr, rary, held, leaked>>
  BY DEF OpenArray, Malloc, objvars
<1>2. Live' = Live /\ Building /\ Building' /\ frame'.ptr = frame.ptr
  BY <1>1 DEF Live, Building, IInv, TypeOK
<1>3. Roots' = Roots
  BY <1>1, <1>2 DEF Roots
<1>4. /\ frame.ptr \in Roots /\ frame.ptr \in Addresses
      /\ mmary[frame.ptr] = NULL
  BY <1>1, <1>2, RootFacts DEF IInv, FrameOK
<1>5. HeapOK(type', mmtxt', mmary', Roots')
  BY <1>1, <1>3, <1>4, HeapFromInv, HeapArray DEF IInv
<1>6. TypeOK'
  BY <1>1, <1>2 DEF TypeOK, IInv, Listed
<1>7. WrappedOnce'
  BY <1>1, <1>2 DEF WrappedOnce, OneOwner, IInv
<1>8. /\ \A r \in Roots : type'[r] = type[r] /\ mmtxt'[r] = mmtxt[r]
      /\ \A r \in Roots \ {frame.ptr} : mmary'[r] = mmary[r]
      /\ mmary'[frame.ptr] = b
  BY <1>1, <1>4, RootFacts DEF IInv, TypeOK
<1>9. ObjectsOK'
  <2>1. \A x \in Live : ptr[x] \in Roots \ {frame.ptr}
    BY <1>2, RootFacts DEF IInv, FrameOK
  <2>. QED  BY <1>1, <1>8, <2>1 DEF ObjectsOK, IInv, Live
<1>10. FrameOK'
  <2>1. /\ frame'.ptr = frame.ptr /\ frame'.obj = frame.obj /\ frame'.arg = frame.arg
        /\ frame'.at = "wrap"
    BY <1>1 DEF IInv, TypeOK
  <2>2. type'[frame.ptr] = type[frame.ptr] /\ b # NULL
    BY <1>4, <1>8, NullAssumption
  <2>. QED  BY <1>1, <1>2, <1>8, <2>1, <2>2 DEF FrameOK, IInv
<1>11. DebugModeIsSafe'
  <2>1. Allocated' = Allocated \union {b}
    BY <1>1 DEF Allocated, IInv, TypeOK
  <2>. QED  BY <1>1, <2>1 DEF DebugModeIsSafe, IInv, Listed
<1>. QED  BY <1>5, <1>6, <1>7, <1>9, <1>10, <1>11, InvFromHeap DEF IInv

(* The steps that leave the heap alone and keep the handles that there are. *)
LEMMA HeapUnchanged ==
  ASSUME IInv, UNCHANGED <<mode, type, mmtxt, mmary, list, corrupt>>,
         Roots' = Roots, TypeOK', ObjectsOK', FrameOK', WrappedOnce'
  PROVE  IInv'
<1>1. HeapOK(type, mmtxt, mmary, Roots)
  BY HeapFromInv DEF IInv
<1>2. HeapOK(type', mmtxt', mmary', Roots')
  BY <1>1
<1>3. DebugModeIsSafe'
  BY DEF IInv, DebugModeIsSafe, Allocated
<1>. QED  BY <1>2, <1>3, InvFromHeap DEF IInv

LEMMA MmapFailsStep ==
  ASSUME IInv, MmapFails
  PROVE  IInv'
<1>1. /\ frame.at \in {"text", "array"}
      /\ frame' = [frame EXCEPT !.at = "close"]
      /\ UNCHANGED <<mode, type, mmtxt, mmary, list, corrupt,
                     kind, ptr, rary, held, leaked>>
  BY DEF MmapFails, heapvars, objvars
<1>2. /\ Live' = Live /\ Building /\ Building'
      /\ frame'.ptr = frame.ptr /\ frame'.obj = frame.obj /\ frame'.at = "close"
  BY <1>1 DEF Live, Building, IInv, TypeOK
<1>3. Roots' = Roots
  BY <1>1, <1>2 DEF Roots
<1>4. TypeOK'
  BY <1>1, <1>2 DEF TypeOK, IInv
<1>5. WrappedOnce' /\ ObjectsOK'
  BY <1>1, <1>2 DEF WrappedOnce, ObjectsOK, OneOwner, IInv
<1>6. FrameOK'
  BY <1>1, <1>2 DEF FrameOK, IInv
<1>. QED  BY <1>1, <1>3, <1>4, <1>5, <1>6, HeapUnchanged

LEMMA WrapSufaryStep ==
  ASSUME IInv, WrapSufary
  PROVE  IInv'
<1> DEFINE o == frame.obj
<1>1. /\ frame.at = "wrap"
      /\ kind' = [kind EXCEPT ![o] = "Sufary"]
      /\ ptr' = [ptr EXCEPT ![o] = frame.ptr]
      /\ held' = held \union {o}
      /\ frame' = Idle
      /\ UNCHANGED <<mode, type, mmtxt, mmary, list, corrupt, rary, leaked>>
  BY DEF WrapSufary, heapvars
<1>2. /\ o \in Objects /\ kind[o] = "unused"
      /\ frame.ptr \in Addresses \ leaked
      /\ \A x \in Live : ptr[x] # frame.ptr
      /\ type[frame.ptr] = "SUFARY"
      /\ mmtxt[frame.ptr] # NULL /\ mmary[frame.ptr] # NULL
  BY <1>1 DEF IInv, FrameOK, Building
<1>3. /\ Live' = Live \union {o} /\ o \notin Live
      /\ ptr'[o] = frame.ptr /\ kind'[o] = "Sufary"
      /\ \A x \in Objects \ {o} : ptr'[x] = ptr[x] /\ kind'[x] = kind[x]
  BY <1>1, <1>2 DEF Live, IInv, TypeOK
<1>4. Building /\ ~ Building' /\ frame'.at = "idle"
  BY <1>1 DEF Building, Idle
<1>5. {ptr'[x] : x \in Live'} = {ptr[x] : x \in Live} \union {frame.ptr}
  <2>1. \A x \in Live : ptr'[x] = ptr[x]
    BY <1>3 DEF Live
  <2>. QED  BY <1>3, <2>1
<1>6. Roots' = Roots
  BY <1>1, <1>4, <1>5 DEF Roots
<1>7. TypeOK'
  BY <1>1, <1>2, <1>3 DEF TypeOK, IInv, Idle
<1>8. WrappedOnce'
  <2>1. \A x \in Live : ptr'[x] = ptr[x] /\ ptr'[x] # ptr'[o]
    BY <1>2, <1>3 DEF Live
  <2>. QED  BY <1>1, <1>2, <1>3, <2>1 DEF WrappedOnce, IInv, OneOwner
<1>9. ObjectsOK'
  <2> SUFFICES ASSUME NEW x \in Objects
               PROVE  /\ kind'[x] = "Sufary" =>
                           /\ type'[ptr'[x]] = "SUFARY"
                           /\ mmtxt'[ptr'[x]] # NULL /\ mmary'[ptr'[x]] # NULL
                      /\ kind'[x] = "SufaryDid" => type'[ptr'[x]] = "DID"
    BY DEF ObjectsOK
  <2>1. CASE x = o
    BY <1>1, <1>2, <1>3, <2>1
  <2>2. CASE x # o
    BY <1>1, <1>3, <2>2 DEF IInv, ObjectsOK
  <2>. QED  BY <2>1, <2>2
<1>10. FrameOK'
  BY <1>4 DEF FrameOK
<1>. QED  BY <1>1, <1>6, <1>7, <1>8, <1>9, <1>10, HeapUnchanged

LEMMA WrapDidStep ==
  ASSUME IInv, WrapDid
  PROVE  IInv'
<1> DEFINE o == frame.obj
           p == frame.arg
<1>1. /\ frame.at = "wrap_did" /\ p # NULL
      /\ kind' = [kind EXCEPT ![o] = "SufaryDid"]
      /\ ptr' = [ptr EXCEPT ![o] = frame.ptr]
      /\ rary' = [rary EXCEPT ![o] = IF kind[p] = "Sufary" THEN ptr[p] ELSE p]
      /\ held' = held \union {o}
      /\ frame' = Idle
      /\ UNCHANGED <<mode, type, mmtxt, mmary, list, corrupt, leaked>>
  BY DEF WrapDid, heapvars
<1>2. /\ o \in Objects /\ kind[o] = "unused"
      /\ frame.ptr \in Addresses \ leaked
      /\ \A x \in Live : ptr[x] # frame.ptr
      /\ type[frame.ptr] = "DID"
      /\ p \in held
  BY <1>1 DEF IInv, FrameOK, Building
<1>3. /\ p \in Objects /\ p # o
  BY <1>2 DEF IInv, TypeOK, Live
<1>4. /\ Live' = Live \union {o} /\ o \notin Live
      /\ ptr'[o] = frame.ptr /\ kind'[o] = "SufaryDid"
      /\ \A x \in Objects \ {o} : ptr'[x] = ptr[x] /\ kind'[x] = kind[x]
  BY <1>1, <1>2 DEF Live, IInv, TypeOK
<1>5. Building /\ ~ Building' /\ frame'.at = "idle"
  BY <1>1 DEF Building, Idle
<1>6. {ptr'[x] : x \in Live'} = {ptr[x] : x \in Live} \union {frame.ptr}
  <2>1. \A x \in Live : ptr'[x] = ptr[x]
    BY <1>4 DEF Live
  <2>. QED  BY <1>4, <2>1
<1>7. Roots' = Roots
  BY <1>1, <1>5, <1>6 DEF Roots
<1>8. TypeOK'
  BY <1>1, <1>2, <1>3, <1>4 DEF TypeOK, IInv, Idle
<1>9. WrappedOnce'
  <2>1. \A x \in Live : ptr'[x] = ptr[x] /\ ptr'[x] # ptr'[o]
    BY <1>2, <1>4 DEF Live
  <2>. QED  BY <1>1, <1>2, <1>4, <2>1 DEF WrappedOnce, IInv, OneOwner
<1>10. ObjectsOK'
  <2> SUFFICES ASSUME NEW x \in Objects
               PROVE  /\ kind'[x] = "Sufary" =>
                           /\ type'[ptr'[x]] = "SUFARY"
                           /\ mmtxt'[ptr'[x]] # NULL /\ mmary'[ptr'[x]] # NULL
                      /\ kind'[x] = "SufaryDid" => type'[ptr'[x]] = "DID"
    BY DEF ObjectsOK
  <2>1. CASE x = o
    BY <1>1, <1>2, <1>3, <1>4, <2>1
  <2>2. CASE x # o
    BY <1>1, <1>4, <2>2 DEF IInv, ObjectsOK
  <2>. QED  BY <2>1, <2>2
<1>11. FrameOK'
  BY <1>5 DEF FrameOK
<1>. QED  BY <1>1, <1>7, <1>8, <1>9, <1>10, <1>11, HeapUnchanged

(* sa_open_did and SufaryDid.new lose the handle.                          *)
LEMMA LoseStep ==
  ASSUME IInv, OpenDidFails \/ WrapDidRaises
  PROVE  IInv'
<1>1. /\ frame.at \in {"did", "wrap_did"}
      /\ leaked' = leaked \union {frame.ptr}
      /\ frame' = Idle
      /\ UNCHANGED <<mode, type, mmtxt, mmary, list, corrupt, kind, ptr, rary, held>>
  BY DEF OpenDidFails, WrapDidRaises, heapvars, objvars
<1>2. Live' = Live /\ Building /\ ~ Building' /\ frame'.at = "idle"
  BY <1>1 DEF Live, Building, Idle
<1>3. Roots' = Roots
  BY <1>1, <1>2 DEF Roots
<1>4. frame.ptr \in Addresses /\ \A x \in Live : ptr[x] # frame.ptr
  BY <1>2 DEF IInv, FrameOK
<1>5. TypeOK'
  BY <1>1, <1>2, <1>4 DEF TypeOK, IInv, Idle
<1>6. WrappedOnce'
  BY <1>1, <1>2, <1>4 DEF WrappedOnce, IInv, OneOwner
<1>7. ObjectsOK'
  BY <1>1 DEF ObjectsOK, IInv
<1>8. FrameOK'
  BY <1>2 DEF FrameOK
<1>. QED  BY <1>1, <1>3, <1>5, <1>6, <1>7, <1>8, HeapUnchanged

LEMMA ReleaseStep ==
  ASSUME IInv, NEW o \in Objects, Release(o)
  PROVE  IInv'
<1>1. /\ frame = Idle /\ held' = held \ {o}
      /\ UNCHANGED <<mode, type, mmtxt, mmary, list, corrupt, frame,
                     kind, ptr, rary, leaked>>
  BY DEF Release, Ready, heapvars
<1>2. Live' = Live /\ ~ Building /\ ~ Building' /\ frame'.at = "idle"
  BY <1>1 DEF Live, Building, Idle
<1>3. Roots' = Roots
  BY <1>1, <1>2 DEF Roots
<1>4. TypeOK'
  BY <1>1, <1>2 DEF TypeOK, IInv
<1>5. WrappedOnce' /\ ObjectsOK'
  BY <1>1, <1>2 DEF WrappedOnce, ObjectsOK, IInv, OneOwner
<1>6. FrameOK'
  BY <1>2 DEF FrameOK
<1>. QED  BY <1>1, <1>3, <1>4, <1>5, <1>6, HeapUnchanged

(* A root freed: what the other roots hold is as before.                   *)
LEMMA OthersKept ==
  ASSUME IInv, NEW r \in Roots, NEW s \in Roots \ {r},
         FreeBlocks(Owned(r)), mode' = mode
  PROVE  type'[s] = type[s] /\ mmtxt'[s] = mmtxt[s] /\ mmary'[s] = mmary[s]
<1>1. s \notin Owned(r) /\ s \in Addresses
  BY RootFacts DEF IInv, OneOwner, Owned
<1>2. /\ type' = Without(type, Owned(r), "free")
      /\ mmtxt' = Without(mmtxt, Owned(r), NULL)
      /\ mmary' = Without(mmary, Owned(r), NULL)
  BY FreeRoot
<1>3. /\ DOMAIN type = Addresses /\ DOMAIN mmtxt = Addresses
      /\ DOMAIN mmary = Addresses
  BY DEF IInv, TypeOK
<1>. QED  BY <1>1, <1>2, <1>3 DEF Without

LEMMA CloseFailedStep ==
  ASSUME IInv, CloseFailed
  PROVE  IInv'
<1> DEFINE r == frame.ptr
<1>1. /\ frame.at = "close" /\ FreeBlocks(Owned(r))
      /\ frame' = [frame EXCEPT !.at = "free_again"]
      /\ UNCHANGED <<mode, kind, ptr, rary, held, leaked>>
  BY DEF CloseFailed, objvars
<1>2. /\ Live' = Live /\ Building /\ ~ Building'
      /\ frame'.ptr = r /\ frame'.at = "free_again"
  BY <1>1 DEF Live, Building, IInv, TypeOK
<1>3. /\ r \in Roots /\ r \in Addresses \ leaked
      /\ \A x \in Live : ptr[x] # r
  BY <1>2, RootFacts DEF IInv, FrameOK
<1>4. Roots' = Roots \ {r}
  BY <1>1, <1>2, <1>3 DEF Roots
<1>5. HeapOK(type', mmtxt', mmary', Roots') /\ DebugModeIsSafe'
      /\ corrupt' \in BOOLEAN /\ list' \subseteq Addresses
  BY <1>1, <1>3, <1>4, FreeRoot
<1>6. TypeOK'
  BY <1>1, <1>2, <1>5 DEF TypeOK, IInv, HeapOK, Types
<1>7. WrappedOnce'
  BY <1>1, <1>2 DEF WrappedOnce, IInv, OneOwner
<1>8. ObjectsOK'
  <2>1. \A x \in Live : ptr[x] \in Roots \ {r}
    BY <1>3, RootFacts
  <2>2. \A s \in Roots \ {r} :
          type'[s] = type[s] /\ mmtxt'[s] = mmtxt[s] /\ mmary'[s] = mmary[s]
    BY <1>1, <1>3, OthersKept
  <2>. QED  BY <1>1, <2>1, <2>2 DEF ObjectsOK, IInv, Live
<1>9. FrameOK'
  <2>1. type'[r] = "free"
    <3>1. type' = Without(type, Owned(r), "free")
      BY <1>1, <1>3, FreeRoot
    <3>2. r \in Owned(r) /\ r \in DOMAIN type
      BY <1>3 DEF Owned, IInv, TypeOK
    <3>. QED  BY <3>1, <3>2 DEF Without
  <2>. QED  BY <1>2, <1>3, <2>1 DEF FrameOK
<1>. QED  BY <1>5, <1>6, <1>7, <1>8, <1>9, InvFromHeap DEF IInv

(* The second sa_free of sa_open: on no list in debugging mode, free       *)
(* already in the other, where only free() itself takes offence.           *)
LEMMA FreeAgainStep ==
  ASSUME IInv, FreeAgain
  PROVE  IInv'
<1> DEFINE r == frame.ptr
<1>1. /\ frame.at = "free_again" /\ FreeBlocks({r})
      /\ frame' = Idle
      /\ UNCHANGED <<mode, kind, ptr, rary, held, leaked>>
  BY DEF FreeAgain, objvars
<1>2. r \in Addresses /\ type[r] = "free"
  BY <1>1 DEF IInv, FrameOK
<1>3. mmtxt[r] = NULL /\ mmary[r] = NULL
  BY <1>2 DEF IInv, HandlesOK
<1>4. Freeable({r}) \subseteq {r}
  BY DEF Freeable
<1>5. type' = type /\ mmtxt' = mmtxt /\ mmary' = mmary
  BY <1>1, <1>2, <1>3, <1>4 DEF FreeBlocks, Without, IInv, TypeOK
<1>6. mode = 1 => r \notin list
  BY <1>2 DEF IInv, DebugModeIsSafe, Allocated
<1>7. mode = 1 => corrupt' = corrupt /\ list' = list
  <2>1. mode = 1 => Freeable({r}) = {}
    BY <1>6 DEF Freeable
  <2>2. mode = 1 => corrupt = FALSE
    BY DEF IInv, DebugModeIsSafe
  <2>3. mode = 1 => corrupt' = FALSE
    BY <1>1, <2>1, <2>2 DEF FreeBlocks
  <2>4. list' = list \ {r}
    BY <1>1 DEF FreeBlocks
  <2>. QED  BY <1>6, <2>2, <2>3, <2>4
<1>8. Live' = Live /\ ~ Building /\ ~ Building' /\ frame'.at = "idle"
  BY <1>1 DEF Live, Building, Idle
<1>9. Roots' = Roots
  BY <1>1, <1>8 DEF Roots
<1>10. HeapOK(type', mmtxt', mmary', Roots')
  <2>1. HeapOK(type, mmtxt, mmary, Roots)
    BY HeapFromInv DEF IInv
  <2>. QED  BY <2>1, <1>5, <1>9
<1>11. TypeOK'
  <2>1. corrupt' \in BOOLEAN /\ list' \subseteq Addresses
    BY <1>1 DEF FreeBlocks, IInv, TypeOK
  <2>. QED  BY <1>1, <1>5, <1>8, <2>1 DEF TypeOK, IInv, Idle
<1>12. WrappedOnce'
  BY <1>1, <1>8 DEF WrappedOnce, IInv, OneOwner
<1>13. ObjectsOK'
  BY <1>1, <1>5 DEF ObjectsOK, IInv
<1>14. FrameOK'
  BY <1>8 DEF FrameOK
<1>15. DebugModeIsSafe'
  BY <1>1, <1>5, <1>7 DEF DebugModeIsSafe, Allocated, IInv
<1>. QED  BY <1>10, <1>11, <1>12, <1>13, <1>14, <1>15, InvFromHeap DEF IInv

LEMMA SweepStep ==
  ASSUME IInv, NEW o \in Objects, Sweep(o)
  PROVE  IInv'
<1> DEFINE r == ptr[o]
<1>1. /\ frame = Idle \/ frame.at \in {"wrap", "wrap_did"}
      /\ o \in Live \ held /\ FreeBlocks(Owned(r))
      /\ kind' = [kind EXCEPT ![o] = "swept"]
      /\ ptr' = [ptr EXCEPT ![o] = NULL]
      /\ rary' = [rary EXCEPT ![o] = NULL]
      /\ UNCHANGED <<mode, frame, held, leaked>>
  BY DEF Sweep, Ready
<1>2. /\ Live' = Live \ {o} /\ kind'[o] = "swept"
      /\ \A x \in Objects \ {o} :
           ptr'[x] = ptr[x] /\ kind'[x] = kind[x] /\ rary'[x] = rary[x]
  BY <1>1 DEF Live, IInv, TypeOK
<1>3. /\ Building' = Building
      /\ Building => frame.ptr # r /\ frame.ptr \in Roots
  BY <1>1, RootFacts DEF Building, IInv, FrameOK
<1>4. r \in Roots /\ \A x \in Live \ {o} : ptr[x] # r
  BY <1>1, RootFacts DEF IInv, OneOwner, WrappedOnce
<1>5. r \notin leaked
  BY <1>1 DEF IInv, OneOwner, WrappedOnce
<1>6. {ptr'[x] : x \in Live'} = {ptr[x] : x \in Live} \ {r}
  <2>1. \A x \in Live' : ptr'[x] = ptr[x] /\ x \in Live /\ ptr[x] # r
    BY <1>2, <1>4 DEF Live
  <2>2. \A x \in Live : ptr[x] # r => x \in Live'
    BY <1>2
  <2>. QED  BY <2>1, <2>2
<1>7. Roots' = Roots \ {r}
  <2>1. Roots = {ptr[x] : x \in Live} \union leaked
                  \union (IF Building THEN {frame.ptr} ELSE {})
    BY DEF Roots
  <2>2. Roots' = {ptr'[x] : x \in Live'} \union leaked
                   \union (IF Building THEN {frame.ptr} ELSE {})
    BY <1>1, <1>3 DEF Roots
  <2>. QED  BY <2>1, <2>2, <1>3, <1>5, <1>6
<1>8. HeapOK(type', mmtxt', mmary', Roots') /\ DebugModeIsSafe'
      /\ corrupt' \in BOOLEAN /\ list' \subseteq Addresses
  BY <1>1, <1>4, <1>7, FreeRoot
<1>9. TypeOK'
  <2>1. held \subseteq Live'
    BY <1>1, <1>2 DEF IInv, TypeOK
  <2>. QED  BY <1>1, <1>8, <2>1 DEF TypeOK, IInv, HeapOK, Types
<1>10. WrappedOnce'
  BY <1>1, <1>2 DEF WrappedOnce, IInv, OneOwner, Live
<1>11. \A s \in Roots \ {r} :
         type'[s] = type[s] /\ mmtxt'[s] = mmtxt[s] /\ mmary'[s] = mmary[s]
  BY <1>1, <1>4, OthersKept
<1>12. ObjectsOK'
  <2>1. \A x \in Live \ {o} : ptr[x] \in Roots \ {r}
    BY <1>4, RootFacts
  <2> SUFFICES ASSUME NEW x \in Objects
               PROVE  /\ kind'[x] = "Sufary" =>
                           /\ type'[ptr'[x]] = "SUFARY"
                           /\ mmtxt'[ptr'[x]] # NULL /\ mmary'[ptr'[x]] # NULL
                      /\ kind'[x] = "SufaryDid" => type'[ptr'[x]] = "DID"
    BY DEF ObjectsOK
  <2>2. CASE x = o
    BY <1>2, <2>2
  <2>3. CASE x # o
    <3>1. kind'[x] = kind[x] /\ ptr'[x] = ptr[x]
      BY <1>2, <2>3
    <3>. QED  BY <1>11, <2>1, <2>3, <3>1 DEF IInv, ObjectsOK, Live
  <2>. QED  BY <2>2, <2>3
<1>13. FrameOK'
  <2>1. CASE frame = Idle
    BY <1>1, <1>3, <2>1 DEF FrameOK, Building, Idle
  <2>2. CASE frame.at \in {"wrap", "wrap_did"}
    <3>1. /\ frame.ptr \in Roots \ {r}
          /\ frame.ptr \in Addresses \ leaked
          /\ \A x \in Live : ptr[x] # frame.ptr
          /\ frame.obj \in Objects /\ kind[frame.obj] = "unused"
          /\ type[frame.ptr] = IF frame.at = "wrap_did" THEN "DID" ELSE "SUFARY"
          /\ frame.at = "wrap" => mmtxt[frame.ptr] # NULL /\ mmary[frame.ptr] # NULL
          /\ frame.at = "wrap_did" /\ frame.arg # NULL => frame.arg \in held
      BY <1>3, <2>2 DEF IInv, FrameOK, Building
    <3>2. frame.obj # o
      BY <1>1, <3>1 DEF Live
    <3>. QED  BY <1>1, <1>2, <1>11, <2>2, <3>1, <3>2 DEF FrameOK
  <2>. QED  BY <1>1, <2>1, <2>2
<1>. QED  BY <1>8, <1>9, <1>10, <1>12, <1>13, InvFromHeap DEF IInv
-----------------------------------------------------------------------------
LEMMA NextInv ==
  ASSUME IInv, [Next]_vars
  PROVE  IInv'
<1>1. CASE \E o \in Objects, a \in Addresses : SufaryNew(o, a)
  <2>1. PICK o \in Objects, a \in Addresses : SufaryNew(o, a)
    BY <1>1
  <2>2. CallocHandle(a, "SUFARY", [at |-> IF "SUFARY" = "DID" THEN "did" ELSE "text",
                                   ptr |-> a, obj |-> o, arg |-> NULL])
    BY <2>1 DEF SufaryNew
  <2>. QED  BY <2>1, <2>2, CallocStep DEF SufaryNew
<1>2. CASE \E o \in Objects, a \in Addresses, p \in Objects \union {NULL} :
             SufaryDidNew(o, p, a)
  <2>1. PICK o \in Objects, a \in Addresses, p \in Objects \union {NULL} :
               SufaryDidNew(o, p, a)
    BY <1>2
  <2>2. CallocHandle(a, "DID", [at |-> IF "DID" = "DID" THEN "did" ELSE "text",
                                ptr |-> a, obj |-> o, arg |-> p])
    BY <2>1 DEF SufaryDidNew
  <2>3. p # NULL => p \in held
    BY <2>1 DEF SufaryDidNew
  <2>. QED  BY <2>1, <2>2, <2>3, CallocStep DEF SufaryDidNew
<1>3. CASE \E b \in Addresses : OpenText(b) \/ OpenArray(b) \/ OpenDid(b)
  BY <1>3, OpenTextStep, OpenArrayStep
<1>4. CASE MmapFails
  BY <1>4, MmapFailsStep
<1>5. CASE CloseFailed
  BY <1>5, CloseFailedStep
<1>6. CASE FreeAgain
  BY <1>6, FreeAgainStep
<1>7. CASE WrapSufary
  BY <1>7, WrapSufaryStep
<1>8. CASE OpenDidFails \/ WrapDidRaises
  BY <1>8, LoseStep
<1>9. CASE WrapDid
  BY <1>9, WrapDidStep
<1>10. CASE \E o \in Objects : Release(o) \/ Sweep(o)
  BY <1>10, ReleaseStep, SweepStep
<1>11. CASE UNCHANGED vars
  <2>1. UNCHANGED <<mode, type, mmtxt, mmary, list, corrupt, frame, kind, ptr,
                    rary, held, leaked>>
    BY <1>11 DEF vars, heapvars, objvars
  <2>2. Live' = Live /\ Building' = Building
    BY <2>1 DEF Live, Building
  <2>3. Roots' = Roots
    BY <2>1, <2>2 DEF Roots
  <2>4. TypeOK' /\ ObjectsOK' /\ WrappedOnce'
    BY <2>1, <2>2 DEF TypeOK, ObjectsOK, WrappedOnce, IInv, OneOwner
  <2>5. FrameOK'
    BY <2>1, <2>2 DEF FrameOK, IInv
  <2>. QED  BY <2>1, <2>3, <2>4, <2>5, HeapUnchanged
<1>. QED
  BY <1>1, <1>2, <1>3, <1>4, <1>5, <1>6, <1>7, <1>8, <1>9, <1>10, <1>11 DEF Next

(* sa_open, sa_close, sa_open_did, sa_close_did and the objects around     *)
(* them keep the heap in order, whatever fails and whatever is swept when. *)
THEOREM InductiveInvariant == Spec => []IInv
<1>1. IInv /\ [Next]_vars => IInv'
  BY NextInv
<1>. QED  BY InitInv, <1>1, PTL DEF Spec

THEOREM TypeCorrect == Spec => []TypeOK
<1>1. IInv => TypeOK
  BY DEF IInv
<1>. QED  BY InductiveInvariant, <1>1, PTL

(* Every block and every mapping has one owner: none is freed by two       *)
(* objects, and none is lost but with a handle that is.                    *)
THEOREM BlocksOwnedOnce == Spec => []BlocksHaveOneOwner
<1>1. IInv => BlocksHaveOneOwner
  BY DEF IInv, BlocksHaveOneOwner
<1>. QED  BY InductiveInvariant, <1>1, PTL

(* The list of sa_malloc absorbs the second free of sa_open and is exact.  *)
THEOREM DebugModeSafe == Spec => []DebugModeIsSafe
<1>1. IInv => DebugModeIsSafe
  BY DEF IInv
<1>. QED  BY InductiveInvariant, <1>1, PTL
=============================================================================
