---------------------------- MODULE DocumentFile ----------------------------
(***************************************************************************)
(* mkdid and the programs that look positions up in what it writes.  A     *)
(* program opens the file that runs of mkdid, ended or dead, have left on  *)
(* the disk, asks sa_didsearch as often as it likes, and closes it before  *)
(* mkdid runs again.  One that comes while mkdid is writing maps what it   *)
(* would if mkdid had died there.  At first a file of any origin is open.  *)
(***************************************************************************)
EXTENDS DidSearch, MakeDid

system_vars == <<lookup_vars, vars>>

Closed == did = <<>>

SystemInit == Init /\ LookupInit

(* sa_open_did: an empty file cannot be mapped.                            *)
OpenDid ==
  /\ Closed /\ pc = "idle"
  /\ file # <<>>
  /\ did' = file
  /\ UNCHANGED <<lookup, target, li, ri, cur, region_from, region_to, dr>>
  /\ UNCHANGED vars

CloseDid ==
  /\ ~ Closed /\ lookup = "idle"
  /\ did' = <<>>
  /\ target' = 0 /\ li' = 0 /\ ri' = 0 /\ cur' = 0
  /\ region_from' = 0 /\ region_to' = 0
  /\ dr' = NoResult
  /\ UNCHANGED lookup
  /\ UNCHANGED vars

Make == Closed /\ Next /\ UNCHANGED lookup_vars
MakeStep == Closed /\ Internal /\ UNCHANGED lookup_vars

LookUp == ~ Closed /\ LookupNext /\ UNCHANGED vars
LookUpStep == ~ Closed /\ LookupStep /\ UNCHANGED vars

SystemNext == OpenDid \/ CloseDid \/ Make \/ LookUp

(* As of the two parts: what has begun runs on, and nothing must begin.    *)
SystemSpec ==
  /\ SystemInit /\ [][SystemNext]_system_vars
  /\ WF_system_vars(MakeStep) /\ WF_system_vars(LookUpStep)
-----------------------------------------------------------------------------
(* A position is looked up in the documents of the text, by way of the     *)
(* file: where start and end tags take turns, a document that is found is  *)
(* the one of the text that holds the position, even after mkdid has died  *)
(* or run out of disk; and if mkdid has done all of its work, a position   *)
(* in a document is found.                                                 *)
FoundInText ==
  pc = "idle" /\ did = file /\ WellTagged(made) =>
    /\ dr.stat = "SUCCESS" =>
         /\ <<dr.start, dr.start + dr.size>> \in DocumentsOf(made)
         /\ dr.start <= target /\ target < dr.start + dr.size
    /\ dr.stat = "FAIL" /\ stat = "SUCCESS" /\ ~ full =>
         \A d \in DocumentsOf(made) : target < d[1] \/ d[2] <= target

(* Every search returns, whatever the file holds, and every run of mkdid   *)
(* ends, on a full disk too.                                               *)
CallsReturn ==
  /\ lookup # "idle" ~> lookup = "idle"
  /\ pc # "idle" ~> pc = "idle"
=============================================================================
