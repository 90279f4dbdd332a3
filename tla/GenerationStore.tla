-------------------------- MODULE GenerationStore --------------------------
(***************************************************************************)
(* The registry generation store of galerina-framework-app-kernel: several *)
(* publishers of one generation, each a call of persistRegistryGeneration  *)
(* (in one process or in several), share the one file name the             *)
(* generation's identity gives it.  A publisher loads the file that is     *)
(* there and proves the directory durable, or stages its own copy, syncs   *)
(* it, links it under the name and proves that durable.  Any call may die, *)
(* and the machine may lose power, between any two steps.                  *)
(*                                                                         *)
(* A file is named by the publisher that staged it; staging names are      *)
(* random and read by nobody, so they are left out.  Loading takes effect  *)
(* at its last lstat, which compares the name with what was opened; it may *)
(* refuse a file that is there, as one that changed while being read.      *)
(***************************************************************************)
CONSTANTS
  Publishers,   \* calls of persistRegistryGeneration
  NoFile        \* what the name holds before anything is linked

ASSUME PublisherAssumption == NoFile \notin Publishers

VARIABLES
  pc,        \* where each call is
  final,     \* the file under the generation's name, as every process sees it
  maybe,     \* what that name may hold after a power cut
  synced,    \* files every byte of which survives a power cut
  linked,    \* calls with published = true
  seen,      \* the file each call loaded last
  receipt,   \* the file each call's durable receipt vouches for, or NoFile
  dropped    \* history: files taken back by the call that had linked them

storeVars == <<pc, final, maybe, synced, linked, seen, receipt, dropped>>

FirstTry == {"load", "prove"}             \* the generation was there already
AfterLink == {"reload", "reprove"}        \* link succeeded or answered EEXIST
Loads == {"load", "reload"}
Proofs == {"prove", "reprove"}
CallSteps == FirstTry \cup AfterLink
           \cup {"look", "stage", "sync", "link", "clean", "withdraw", "done", "dead"}

StoreTypeOK ==
  /\ pc \in [Publishers -> CallSteps]
  /\ final \in Publishers \cup {NoFile}
  /\ maybe \subseteq Publishers \cup {NoFile}
  /\ synced \subseteq Publishers /\ linked \subseteq Publishers
  /\ dropped \subseteq Publishers
  /\ seen \in [Publishers -> Publishers \cup {NoFile}]
  /\ receipt \in [Publishers -> Publishers \cup {NoFile}]

At(p, steps) == pc[p] \in steps
MoveTo(p, step) == pc' = [pc EXCEPT ![p] = step]

(* The name is changed; until the directory is flushed a power cut may undo it. *)
Put(file) == final' = file /\ maybe' = maybe \cup {file}

-----------------------------------------------------------------------------
(* The file is loaded, then the directory is proved durable. *)

Load(p) ==
  /\ At(p, Loads) /\ final # NoFile
  /\ seen' = [seen EXCEPT ![p] = final]
  /\ MoveTo(p, IF At(p, FirstTry) THEN "prove" ELSE "reprove")
  /\ UNCHANGED <<final, maybe, synced, linked, receipt, dropped>>

(* The load throws, or the adapter throws or does not answer true: the first
   try looks at the name again, the others end in the finally block. *)
Refuse(p) ==
  /\ At(p, Loads \cup Proofs)
  /\ MoveTo(p, IF At(p, FirstTry) THEN "look" ELSE "clean")
  /\ UNCHANGED <<final, maybe, synced, linked, seen, receipt, dropped>>

Mint(p) ==
  /\ receipt' = [receipt EXCEPT ![p] = seen[p]]
  /\ MoveTo(p, IF At(p, FirstTry) THEN "done" ELSE "clean")
  /\ UNCHANGED <<final, synced, linked, seen, dropped>>

(* Mutant: a file that was there already is taken for durable. *)
Prove_TrustsExisting(p) ==
  /\ At(p, Proofs)
  /\ maybe' = IF At(p, FirstTry) THEN maybe ELSE {final}
  /\ Mint(p)

(* proveDirectoryDurability answers true, and the receipt is made. *)
Prove(p) ==
  /\ At(p, Proofs)
  /\ maybe' = {final}
  /\ Mint(p)

(* The first try failed: with the name taken its error stands, with the name
   free the call publishes. *)
Look(p) ==
  /\ At(p, {"look"})
  /\ MoveTo(p, IF final = NoFile THEN "stage" ELSE "done")
  /\ UNCHANGED <<final, maybe, synced, linked, seen, receipt, dropped>>

-----------------------------------------------------------------------------
(* Publishing *)

Stage(p) ==
  /\ At(p, {"stage"})
  /\ MoveTo(p, "sync")
  /\ UNCHANGED <<final, maybe, synced, linked, seen, receipt, dropped>>

SyncStaged(p) ==
  /\ At(p, {"sync"})
  /\ synced' = synced \cup {p}
  /\ MoveTo(p, "link")
  /\ UNCHANGED <<final, maybe, linked, seen, receipt, dropped>>

(* link never replaces: a name that is taken answers EEXIST. *)
Link(p) ==
  /\ At(p, {"link"})
  /\ \/ final = NoFile /\ Put(p) /\ linked' = linked \cup {p}
     \/ final # NoFile /\ UNCHANGED <<final, maybe, linked>>
  /\ MoveTo(p, "reload")
  /\ UNCHANGED <<synced, seen, receipt, dropped>>

(* The open, the write, a sync or the link throws. *)
PublishThrows(p) ==
  /\ At(p, {"stage", "sync", "link"})
  /\ MoveTo(p, "clean")
  /\ UNCHANGED <<final, maybe, synced, linked, seen, receipt, dropped>>

-----------------------------------------------------------------------------
(* finally *)

(* Mutant: a call that lost the race to link takes the name back too. *)
MustWithdraw_Anyones(p) == receipt[p] = NoFile

MustWithdraw(p) == p \in linked /\ receipt[p] = NoFile   \* published && !completed

Clean(p) ==
  /\ At(p, {"clean"})
  /\ MoveTo(p, IF MustWithdraw(p) THEN "withdraw" ELSE "done")
  /\ UNCHANGED <<final, maybe, synced, linked, seen, receipt, dropped>>

(* The name is unlinked, at best effort. *)
Withdraw(p) ==
  /\ At(p, {"withdraw"})
  /\ \/ Put(NoFile) /\ dropped' = dropped \cup {p}
     \/ UNCHANGED <<final, maybe, dropped>>
  /\ MoveTo(p, "done")
  /\ UNCHANGED <<synced, linked, seen, receipt>>

-----------------------------------------------------------------------------
(* Crashes *)

Begun == {p \in Publishers : pc[p] \notin {"load", "done", "dead"}}

CallDies(p) ==
  /\ p \in Begun
  /\ MoveTo(p, "dead")
  /\ UNCHANGED <<final, maybe, synced, linked, seen, receipt, dropped>>

(* Every call in progress dies, and the name holds one of the files it may. *)
PowerLost ==
  /\ pc' = [p \in Publishers |-> IF p \in Begun THEN "dead" ELSE pc[p]]
  /\ final' \in maybe
  /\ maybe' = {final'}
  /\ UNCHANGED <<synced, linked, seen, receipt, dropped>>

StoreInit ==
  /\ pc = [p \in Publishers |-> "load"]
  /\ final = NoFile /\ maybe = {NoFile}
  /\ synced = {} /\ linked = {} /\ dropped = {}
  /\ seen = [p \in Publishers |-> NoFile]
  /\ receipt = [p \in Publishers |-> NoFile]

StoreNext ==
  \/ \E p \in Publishers :
       \/ Load(p) \/ Refuse(p) \/ Prove(p) \/ Look(p)
       \/ Stage(p) \/ SyncStaged(p) \/ Link(p) \/ PublishThrows(p)
       \/ Clean(p) \/ Withdraw(p)
       \/ CallDies(p)
  \/ PowerLost

StoreSpec == StoreInit /\ [][StoreNext]_storeVars

-----------------------------------------------------------------------------
(* Properties *)

(* The file is under the name, whole, and stays so through a power cut. *)
Stands(file) == final = file /\ maybe = {file} /\ file \in synced

(* A durable receipt is good for ever, whatever the other publishers, crashes
   and power cuts do, with one exception: its file was published by a call
   that was then refused, and that call took the name back. *)
ReceiptStands ==
  \A p \in Publishers :
    receipt[p] # NoFile => Stands(receipt[p]) \/ receipt[p] \in dropped

(* The receipt of the call that published the file is good for ever: no call
   that lost the race to link, and no clean-up, disturbs it. *)
PublishersReceiptStands ==
  \A p \in Publishers : receipt[p] = p => Stands(p)
=============================================================================
