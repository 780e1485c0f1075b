---------------------------- MODULE SyncCommand ----------------------------
(***************************************************************************)
(* The commands sync and cp -r --force of src/src/asanypath/cli.py over    *)
(* WorkerPool.  sync lists the source, compares file by file, lists the    *)
(* destination when --delete is given, copies what is new in one pool and  *)
(* deletes what is extra in a second one.  cp copies what its walk of the  *)
(* source yields, while it walks.  sync of a single file ("sync_file")     *)
(* needs no pool.                                                          *)
(*                                                                         *)
(* Others change the source meanwhile; the walk sees each file at another  *)
(* moment: _collect_files lists directory by directory, and takes for      *)
(* empty one that has gone, and also one whose listing an FTP server       *)
(* refuses, because that backend reports that it is no directory.  A file  *)
(* is its version: 0 when there is none, and a newer version has a later   *)
(* modification time.                                                      *)
(***************************************************************************)
EXTENDS WorkerPool

CONSTANTS Commands,    \* the options the command is called with
          Folders,     \* the files below each directory
          MaxVersion,  \* bound: versions of a file
          MaxChanges   \* bound: changes others make to the source

ASSUME CommandAssumption ==
    /\ Commands \subseteq [name : {"sync", "sync_file", "cp"}, delete_extra : BOOLEAN, dry_run : BOOLEAN,
                           size_only : BOOLEAN, exclude : SUBSET Items]
    /\ Folders \subseteq SUBSET Items /\ MaxVersion \in Nat \ {0} /\ MaxChanges \in Nat

VARIABLES options,      \* the command line
          phase,        \* where run() is
          code,         \* the exit code, -1 before there is one
          src, dst,     \* the version of each file on either side
          unseen,       \* the files the walk of the source has not come to
          src_files,    \* the ones it yielded
          unchecked,    \* the ones still to be compared
          to_transfer, to_delete,
          changes,      \* changes others made so far
          absent,       \* history: files that were not in the source at some time
          steady,       \* history: files nobody has changed
          refused,      \* history: files under a directory whose listing was refused
          deleted       \* history: files the command deleted from the destination

plan    == <<unseen, src_files, unchecked, to_transfer, to_delete>>
world   == <<src, changes, absent, steady, refused>>
cmdvars == <<options, phase, code, dst, plan, world, deleted>>
vars    == <<poolvars, cmdvars>>

Broken == -1   \* a destination a copy left half written

SizeOf(version) == version % 2
Has(tree) == {f \in Items : tree[f] # 0}

\* _needs_sync; the size and time of a file that is gone are unknown.
NeedsSync(f) ==
    \/ dst[f] = 0
    \/ src[f] # 0 /\ SizeOf(src[f]) # SizeOf(dst[f])
    \/ ~options.size_only /\ (src[f] = 0 \/ src[f] > dst[f])

\* What --delete removes: files of the destination that src_files does not have.
ExtraUnlessCopied == Has(dst) \ to_transfer
Extra == Has(dst) \ src_files

\* if copy_failures or delete_failures: return 2
ExitCodeOfLast(failed) == IF failures # {} THEN 2 ELSE 0
ExitCode(failed) == IF failed \/ failures # {} THEN 2 ELSE 0

-----------------------------------------------------------------------------
Init ==
    /\ \E w \in AllWorkers : PoolIdle(w)
    /\ options \in Commands
    /\ phase = "start" /\ code = -1
    /\ src \in [Items -> {0, 1}] /\ dst \in [Items -> {0, 1}]
    /\ options.name = "cp" => Has(dst) = {}   \* cp --force does not look at it
    /\ IF options.name = "sync_file" THEN \E f \in Items : unseen = {f} ELSE unseen = Items
    /\ Has(src) \subseteq unseen
    /\ src_files = {} /\ unchecked = {}
    /\ to_transfer = {} /\ to_delete = {}
    /\ changes = 0
    /\ absent = Items \ Has(src) /\ steady = Items
    /\ refused = {} /\ deleted = {}

\* Somebody writes, replaces or removes a file of the source.
Change(f) ==
    /\ phase # "exit" /\ changes < MaxChanges
    /\ changes' = changes + 1
    /\ \E v \in {0, src[f] + 1} : v <= MaxVersion /\ v # src[f] /\ src' = [src EXCEPT ![f] = v]
    /\ absent' = absent \cup (Items \ Has(src'))
    /\ steady' = steady \ {f}
    /\ UNCHANGED <<poolvars, options, phase, code, dst, plan, refused, deleted>>

Exit(c) == phase' = "exit" /\ code' = c

\* _exists_or_virtual_dir(src_obj); then sync scans and cp starts its pool.
Begun ==
    /\ phase = "start" /\ options.name # "sync_file"
    /\ \/ Has(src) = {} /\ Exit(1) /\ UNCHANGED poolvars
       \/ /\ Has(src) # {} /\ options.name = "sync"
          /\ phase' = "scan" /\ UNCHANGED <<poolvars, code>>
       \/ /\ Has(src) # {} /\ options.name = "cp"
          /\ phase' = "copy" /\ Start /\ UNCHANGED code
    /\ UNCHANGED <<options, dst, plan, world, deleted>>

\* The source is a file: it is compared with the destination ...
BeginFile(f) ==
    /\ phase = "start" /\ options.name = "sync_file" /\ f \in unseen
    /\ \/ src[f] = 0 /\ Exit(1) /\ UNCHANGED unchecked
       \/ src[f] # 0 /\ phase' = "file" /\ unchecked' = {f} /\ UNCHANGED code
    /\ UNCHANGED <<poolvars, options, dst, unseen, src_files, to_transfer, to_delete, world, deleted>>

CompareFile(f) ==
    /\ phase = "file" /\ f \in unchecked
    /\ unchecked' = {}
    /\ \/ /\ NeedsSync(f) /\ ~options.dry_run
          /\ to_transfer' = {f} /\ UNCHANGED <<phase, code>>
       \/ /\ ~NeedsSync(f) \/ options.dry_run
          /\ Exit(0) /\ UNCHANGED to_transfer
    /\ UNCHANGED <<poolvars, options, dst, unseen, src_files, to_delete, world, deleted>>

\* ... and copied with force=True, which may fail half way.
CopyFile(f) ==
    /\ phase = "file" /\ f \in to_transfer
    /\ to_transfer' = {}
    /\ \/ src[f] # 0 /\ dst' = [dst EXCEPT ![f] = src[f]] /\ Exit(0)
       \/ /\ \E v \in {dst[f], Broken} : dst' = [dst EXCEPT ![f] = v]
          /\ \E c \in {1, 2} : Exit(c)
    /\ UNCHANGED <<poolvars, options, unseen, src_files, unchecked, to_delete, world, deleted>>

\* _collect_files comes to a file.
Scan(f) ==
    /\ phase = "scan" /\ f \in unseen
    /\ unseen' = unseen \ {f}
    /\ src_files' = IF src[f] # 0 THEN src_files \cup {f} ELSE src_files
    /\ UNCHANGED <<poolvars, options, phase, code, dst, unchecked, to_transfer, to_delete, world,
                   deleted>>

\* A directory is there, but its listing ends in NotADirectoryError: FTP makes
\* one of every refusal.  _collect_files takes it for the end of the directory,
\* for sync as for the walk of cp, and the files below are passed over.
ListingRefused ==
    /\ phase = "scan" \/ (phase = "copy" /\ options.name = "cp" /\ producer = "enumerate")
    /\ \E below \in Folders :
         /\ below \cap unseen \cap Has(src) # {}
         /\ unseen' = unseen \ below
         /\ refused' = refused \cup (below \cap unseen \cap Has(src))
    /\ UNCHANGED <<poolvars, options, phase, code, src, dst, changes, absent, steady, src_files,
                   unchecked, to_transfer, to_delete, deleted>>

\* Apply the exclude patterns.
Exclude ==
    /\ phase = "scan" /\ unseen = {}
    /\ phase' = "compare"
    /\ src_files' = src_files \ options.exclude
    /\ unchecked' = src_files'
    /\ UNCHANGED <<poolvars, options, code, dst, unseen, to_transfer, to_delete, world, deleted>>

Compare(f) ==
    /\ phase = "compare" /\ f \in unchecked
    /\ unchecked' = unchecked \ {f}
    /\ to_transfer' = IF NeedsSync(f) THEN to_transfer \cup {f} ELSE to_transfer
    /\ UNCHANGED <<poolvars, options, phase, code, dst, unseen, src_files, to_delete, world, deleted>>

\* List the destination for --delete, where the listing of a directory may be
\* refused too; stop when there is nothing to do or only
\* a report was asked for; otherwise transfer.
Decide ==
    /\ phase = "compare" /\ unchecked = {}
    /\ to_delete' \in IF options.delete_extra THEN {Extra} \cup {Extra \ below : below \in Folders} ELSE {{}}
    /\ \/ /\ options.dry_run \/ (to_transfer = {} /\ to_delete' = {})
          /\ Exit(0) /\ UNCHANGED poolvars
       \/ /\ ~options.dry_run /\ (to_transfer # {} \/ to_delete' # {})
          /\ phase' = "copy" /\ Start /\ UNCHANGED code
    /\ UNCHANGED <<options, dst, unseen, src_files, unchecked, to_transfer, world, deleted>>

\* The scan, the comparison or a listing raises another error: 1 when the path
\* cannot do it.
ScanFails ==
    /\ phase \in {"scan", "compare"} \/ (phase = "file" /\ unchecked # {})
    /\ \E c \in {1, 2} : Exit(c)
    /\ UNCHANGED <<poolvars, options, dst, plan, world, deleted>>

-----------------------------------------------------------------------------
\* The stream of the pool that runs: a list made before, or the walk of cp,
\* which may raise.
YieldFile(f) ==
    /\ Yield(f)
    /\ \/ /\ phase = "copy" /\ options.name = "sync" /\ f \in to_transfer
          /\ to_transfer' = to_transfer \ {f}
          /\ UNCHANGED <<unseen, src_files, to_delete>>
       \/ /\ phase = "copy" /\ options.name = "cp" /\ f \in unseen /\ src[f] # 0
          /\ unseen' = unseen \ {f} /\ src_files' = src_files \cup {f}
          /\ UNCHANGED <<to_transfer, to_delete>>
       \/ /\ phase = "delete" /\ f \in to_delete
          /\ to_delete' = to_delete \ {f}
          /\ UNCHANGED <<unseen, src_files, to_transfer>>
    /\ UNCHANGED <<options, phase, code, dst, unchecked, world, deleted>>

\* cp's walk passes a place where there is no file.
Skip(f) ==
    /\ producer = "enumerate" /\ phase = "copy" /\ options.name = "cp"
    /\ f \in unseen /\ src[f] = 0
    /\ unseen' = unseen \ {f}
    /\ UNCHANGED <<poolvars, options, phase, code, dst, src_files, unchecked, to_transfer,
                   to_delete, world, deleted>>

StreamEnds ==
    /\ \/ options.name = "sync" /\ phase = "copy" /\ to_transfer = {} /\ StreamOver("done")
       \/ options.name = "sync" /\ phase = "delete" /\ to_delete = {} /\ StreamOver("done")
       \/ options.name = "cp" /\ unseen = {} /\ StreamOver("done")
       \/ options.name = "cp" /\ StreamOver("failed")
    /\ UNCHANGED cmdvars

\* The work of an item: copy(force=True), or unlink(missing_ok=True).
CopyDone(w) ==
    /\ phase = "copy" /\ WorkOver(w, TRUE)
    /\ src[task[w]] # 0
    /\ dst' = [dst EXCEPT ![task[w]] = src[task[w]]]
    /\ UNCHANGED <<options, phase, code, plan, world, deleted>>

DeleteDone(w) ==
    /\ phase = "delete" /\ WorkOver(w, TRUE)
    /\ dst' = [dst EXCEPT ![task[w]] = 0]
    /\ deleted' = deleted \cup {task[w]}
    /\ UNCHANGED <<options, phase, code, plan, world>>

\* It raises; a copy may have written a part of its destination.
WorkFails(w) ==
    /\ WorkOver(w, FALSE)
    /\ \/ UNCHANGED dst
       \/ phase = "copy" /\ dst' = [dst EXCEPT ![task[w]] = Broken]
    /\ UNCHANGED <<options, phase, code, plan, world, deleted>>

\* The rest of the pool's steps change nothing of the command's.
PoolStep ==
    /\ Put \/ PutSentinel \/ Finish \/ \E w \in Workers : Take(w) \/ Begin(w)
    /\ UNCHANGED cmdvars

\* Ctrl-C and what follows.
Interrupted ==
    /\ Interrupt \/ ShutDown
    /\ \E cut \in SUBSET Aborted :
         dst' = IF phase = "copy" THEN [f \in Items |-> IF f \in cut THEN Broken ELSE dst[f]] ELSE dst
    /\ UNCHANGED <<options, phase, code, plan, world, deleted>>

Terminated == ShutDownOver /\ UNCHANGED cmdvars

\* The copies are over: delete, if there is anything to delete; else exit.
\* A code of 2 remembers copy_failures.
CopyPhaseOver ==
    /\ phase = "copy" /\ main \in {"returned", "raised"}
    /\ \/ /\ main = "returned" /\ to_delete # {}
          /\ phase' = "delete" /\ Start
          /\ code' = IF failures # {} THEN 2 ELSE code
       \/ /\ main = "returned" /\ to_delete = {}
          /\ Exit(ExitCode(FALSE)) /\ UNCHANGED poolvars
       \/ /\ main = "raised" /\ (\E c \in {1, 2} : Exit(c)) /\ UNCHANGED poolvars
    /\ UNCHANGED <<options, dst, plan, world, deleted>>

DeletePhaseOver ==
    /\ phase = "delete" /\ main = "returned"
    /\ Exit(ExitCode(code = 2))
    /\ UNCHANGED <<poolvars, options, dst, plan, world, deleted>>

Command ==
    \/ Begun \/ ListingRefused \/ Exclude \/ Decide \/ ScanFails \/ StreamEnds \/ PoolStep
    \/ CopyPhaseOver \/ DeletePhaseOver \/ Terminated
    \/ \E f \in Items : \/ BeginFile(f) \/ CompareFile(f) \/ CopyFile(f)
                         \/ Scan(f) \/ Compare(f) \/ YieldFile(f) \/ Skip(f)
    \/ \E w \in Workers : CopyDone(w) \/ DeleteDone(w) \/ WorkFails(w)

Next == Command \/ Interrupted \/ \E f \in Items : Change(f)

Ended == /\ phase = "exit" \/ main = "interrupted" \/ Hung
         /\ UNCHANGED vars

Spec == Init /\ [][Next \/ Ended]_vars

\* The event loop runs every ready task; requests are answered or fail.
FairSpec == Spec /\ WF_vars(Command)
-----------------------------------------------------------------------------
InFlight == {hand} \cup {task[w] : w \in AllWorkers}
Queued == {queue[i] : i \in DOMAIN queue} \ {Stop}

\* No item is run twice, and none is dropped on its way from the stream through
\* the queue to a worker: a pool that returns without Ctrl-C has run everything
\* its stream yielded, whichever items failed, and its queue stays bounded.
EveryItemRunOnce ==
    /\ Len(queue) <= 2 * concurrency
    /\ succeeded \cap failures = {}
    /\ (succeeded \cup failures) \cap (InFlight \cup Queued) = {}
    /\ InFlight \cap Queued = {}
    /\ Cardinality(Queued) = Cardinality({i \in DOMAIN queue : queue[i] # Stop})
    /\ \A v, w \in Workers : task[v] # Nothing /\ task[v] = task[w] => v = w
    /\ main = "returned" /\ ~asked =>
         /\ queue = <<>> /\ hand = Nothing /\ \A w \in Workers : task[w] = Nothing
         /\ phase = "copy" /\ options.name = "cp" => succeeded \cup failures = src_files

\* Exit code 0 is only given when every file of the source that nobody changed
\* meanwhile, and that is not excluded, is at the destination in its version,
\* although copies and deletions run at once and any of them may fail.
\* (--size-only and --dry-run ask for less, and of the files below a directory
\* whose listing was refused the command knows nothing.)
ExitZeroMeansCopied ==
    code = 0 /\ phase = "exit" /\ ~options.size_only /\ ~options.dry_run =>
        \A f \in steady \ refused : src[f] # 0 /\ f \notin options.exclude => dst[f] >= src[f]

\* --delete removes a file only if it was missing from the source at some time
\* while the command ran, is excluded, or lies below a directory of the source
\* whose listing was refused; never one that is being copied.
DeletedWasAbsent == deleted \subseteq absent \cup options.exclude \cup refused

\* "--delete: Delete files in DST not in SRC" (the option's help).
DeletesOnlyExtra == deleted \subseteq absent

\* The command ends unless Ctrl-C is pressed: the producer never waits for room
\* in a queue nobody reads, and the workers all get their sentinel.
EndsUnlessInterrupted == phase = "start" ~> phase = "exit" \/ asked
=============================================================================
