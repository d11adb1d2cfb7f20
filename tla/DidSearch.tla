----------------------------- MODULE DidSearch -----------------------------
(***************************************************************************)
(* sa_didsearch (lib/did.c): which document holds a text position.  The    *)
(* document file is an array of words, two to a document: where its region *)
(* starts and where it ends.  Regions are in order and do not overlap, but *)
(* there may be text between them.  One action is one turn of the binary   *)
(* search.  The result is built from what the last probe left in cur,      *)
(* region_from and region_to, whether or not it was a hit.  Nothing here   *)
(* has the name of something of MakeDid: DidProofs extends both.           *)
(***************************************************************************)
EXTENDS Integers, Sequences

CONSTANTS DidFiles,  \* the document files that may be open, as words
          Targets,   \* the text positions asked for
          CurGarbage \* what an uninitialised cur may hold

(* Documents, not words: a file cut off within a document loses it.        *)
DidSize(words) == Len(words) \div 2
RegionFrom(words, i) == words[2 * i + 1]
RegionTo(words, i) == words[2 * i + 2]

Documents(words) == 0 .. DidSize(words) - 1
Holds(words, i, t) == RegionFrom(words, i) <= t /\ t < RegionTo(words, i)

(* What sa_make_did writes (MakeDid: FileInOrder): no region ends before   *)
(* it starts, nor behind the start of a later one.                         *)
DidOK(words) ==
  /\ words \in Seq(Nat)
  /\ \A i \in Documents(words) : RegionFrom(words, i) <= RegionTo(words, i)
  /\ \A i, j \in Documents(words) :
       i < j => RegionTo(words, i) <= RegionFrom(words, j)

ASSUME DidFilesAssumption == \A words \in DidFiles : DidOK(words)
ASSUME TargetsAssumption == Targets \subseteq Nat
ASSUME GarbageAssumption == CurGarbage \subseteq Int

VARIABLES did,          \* the open document file
          lookup,       \* where the search stands: "idle", "loop", or "return"
          target,       \* the argument
          li, ri,       \* the window of the search
          cur,          \* the document probed last
          region_from,  \* its region
          region_to,
          dr            \* the DID_RESULT, once there is one

lookup_vars ==
  <<did, lookup, target, li, ri, cur, region_from, region_to, dr>>

NoResult == [stat |-> "NONE", no |-> 0, start |-> 0, size |-> 0]

Mid(l, r) == l \div 2 + r \div 2 + (IF l % 2 = 1 /\ r % 2 = 1 THEN 1 ELSE 0)
-----------------------------------------------------------------------------
LookupInit ==
  /\ did \in DidFiles
  /\ lookup = "idle"
  /\ target = 0
  /\ li = 0 /\ ri = 0
  /\ cur = 0
  /\ region_from = 0 /\ region_to = 0
  /\ dr = NoResult

(* cur is not initialised.                                                 *)
Search(t) ==
  /\ lookup = "idle"
  /\ target' = t
  /\ li' = 0 /\ ri' = DidSize(did)
  /\ cur' \in CurGarbage
  /\ region_from' = 0 /\ region_to' = 0
  /\ dr' = NoResult
  /\ lookup' = "loop"
  /\ UNCHANGED did

ReadRegion ==
  /\ lookup = "loop" /\ li < ri
  /\ cur' = Mid(li, ri)
  /\ region_from' = RegionFrom(did, cur')
  /\ region_to' = RegionTo(did, cur')
  /\ UNCHANGED <<did, target, dr>>

(* Fault: the probed document stays in the window.                         *)
GoRightKeepsCur ==
  /\ ReadRegion
  /\ region_to' <= target
  /\ li' = cur'
  /\ UNCHANGED <<lookup, ri>>

GoRight ==
  /\ ReadRegion
  /\ region_to' <= target
  /\ li' = cur' + 1
  /\ UNCHANGED <<lookup, ri>>

(* Fault: the right end is taken for the last document of the window.      *)
GoLeftTooFar ==
  /\ ReadRegion
  /\ target < region_to' /\ target < region_from'
  /\ ri' = IF cur' > 0 THEN cur' - 1 ELSE 0
  /\ UNCHANGED <<lookup, li>>

GoLeft ==
  /\ ReadRegion
  /\ target < region_to' /\ target < region_from'
  /\ ri' = cur'
  /\ UNCHANGED <<lookup, li>>

Hit ==
  /\ ReadRegion
  /\ target < region_to' /\ region_from' <= target
  /\ lookup' = "return"
  /\ UNCHANGED <<li, ri>>

LoopEnd ==
  /\ lookup = "loop" /\ li >= ri
  /\ lookup' = "return"
  /\ UNCHANGED <<did, target, li, ri, cur, region_from, region_to, dr>>

(* Fault: the end of a region counts as in it.                             *)
ReturnFoundAtEnd ==
  /\ lookup = "return"
  /\ region_from <= target /\ target <= region_to
  /\ dr' = [stat |-> "SUCCESS", no |-> cur, start |-> region_from,
            size |-> region_to - region_from]
  /\ lookup' = "idle"
  /\ UNCHANGED <<did, target, li, ri, cur, region_from, region_to>>

ReturnFound ==
  /\ lookup = "return"
  /\ region_from <= target /\ target < region_to
  /\ dr' = [stat |-> "SUCCESS", no |-> cur, start |-> region_from,
            size |-> region_to - region_from]
  /\ lookup' = "idle"
  /\ UNCHANGED <<did, target, li, ri, cur, region_from, region_to>>

(* Fault: the document before the target is named.                         *)
FailNumberOfProbe == IF target < region_from THEN 0 ELSE cur

FailNumber == IF target < region_from THEN 0 ELSE cur + 1

ReturnFail ==
  /\ lookup = "return"
  /\ ~ (region_from <= target /\ target < region_to)
  /\ dr' = [stat |-> "FAIL", no |-> FailNumber, start |-> 0, size |-> 0]
  /\ lookup' = "idle"
  /\ UNCHANGED <<did, target, li, ri, cur, region_from, region_to>>

LookupStep == GoRight \/ GoLeft \/ Hit \/ LoopEnd \/ ReturnFound \/ ReturnFail

LookupNext == (\E t \in Targets : Search(t)) \/ LookupStep

(* Sequential code on the caller's thread.                                 *)
LookupSpec ==
  LookupInit /\ [][LookupNext]_lookup_vars /\ WF_lookup_vars(LookupStep)
-----------------------------------------------------------------------------
(* Type invariant: the variables keep to the C types, the window to the    *)
(* documents there are.                                                    *)
DrType == [stat : {"NONE", "SUCCESS", "FAIL"}, no : Int, start : Nat,
           size : Nat]

TypeOK ==
  /\ did \in Seq(Nat)
  /\ lookup \in {"idle", "loop", "return"}
  /\ target \in Nat
  /\ li \in 0 .. DidSize(did) /\ ri \in 0 .. DidSize(did)
  /\ cur \in Int
  /\ region_from \in Nat /\ region_to \in Nat
  /\ dr \in DrType

(* The two-sided test of sa_didsearch, end of the region first, never      *)
(* drops the document that holds the target from the window.               *)
WindowKeepsDocument ==
  lookup = "loop" => \A i \in Documents(did) :
                   Holds(did, i, target) => li <= i /\ i < ri

(* The answer is right: SUCCESS names the one document that holds the      *)
(* target with its region, FAIL says that none does.  In particular the    *)
(* region the last failing probe has left behind is never taken for a hit, *)
(* nor the garbage in cur for a document when the file holds none.         *)
AnswerCorrect ==
  /\ dr.stat = "SUCCESS" =>
       /\ dr.no \in Documents(did)
       /\ Holds(did, dr.no, target)
       /\ dr.start = RegionFrom(did, dr.no)
       /\ dr.start + dr.size = RegionTo(did, dr.no)
  /\ dr.stat = "FAIL" => \A i \in Documents(did) : ~ Holds(did, i, target)

(* The document that starts first behind the target, as a number: that of  *)
(* how many documents end before it.                                       *)
NextDocument(n) ==
  /\ n \in 0 .. DidSize(did)
  /\ \A i \in Documents(did) : i < n <=> RegionTo(did, i) <= target

(* What a failed search can be trusted for: where its last probe met a     *)
(* document that ends before the target, no is the number of the next one. *)
(* (Where it met one behind the target no is 0, and says nothing.)         *)
FailNumberIsNext ==
  dr.stat = "FAIL" /\ DidSize(did) > 0 /\ region_to <= target =>
    NextDocument(dr.no)
=============================================================================
