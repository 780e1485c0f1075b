--------------------------- MODULE MCSyncCommand ---------------------------
(* Bounded instances of SyncCommand for TLC.                               *)
EXTENDS SyncCommand, TLC

Option(name, delete_extra, dry_run, size_only, exclude) ==
    [name |-> name, delete_extra |-> delete_extra, dry_run |-> dry_run,
     size_only |-> size_only, exclude |-> exclude]

AnyFile == CHOOSE f \in Items : TRUE

\* The source has one directory, with all its files but one.
AllFolders == {Items \ {AnyFile}}

AllCommands == {Option("sync_file", FALSE, FALSE, FALSE, {}),
                Option("sync_file", FALSE, TRUE, FALSE, {}),
                Option("cp", FALSE, FALSE, FALSE, {}),
                Option("sync", TRUE, FALSE, FALSE, {AnyFile}),
                Option("sync", FALSE, FALSE, TRUE, {}),
                Option("sync", TRUE, TRUE, FALSE, {})}

\* --delete, and nothing else.
DeleteCommand == {Option("sync", TRUE, FALSE, FALSE, {})}
=============================================================================
