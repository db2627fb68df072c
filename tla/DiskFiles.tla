------------------------------ MODULE DiskFiles ------------------------------
(***************************************************************************)
(* What the redirected disk does to the names of the user's files:         *)
(* disk_file.c and the request handlers of disk_main.c (channels/rdpdr).   *)
(* The requests come one at a time, from the disk's thread (RdpdrDevices). *)
(*   The directory tree maps names to inodes.  An open file (DISK_FILE)    *)
(* holds on to an inode through its descriptor and, apart from that, to a  *)
(* NAME, fullpath, which is what a delete and a rename work on.  What is   *)
(* in a file is left out: reads, writes and attributes go through the      *)
(* descriptor.  open, mkdir, unlink and the rest of POSIX may also fail.   *)
(***************************************************************************)
EXTENDS Naturals, Sequences, FiniteSets, SequencesExt

CONSTANTS
    Names,       \* the names used: distinct sequences of path components
    MaxFiles,    \* bound: how many files are open at once
    Disposition  \* the create dispositions used, of the six of the protocol

Name == {Names[i] : i \in DOMAIN Names}
FileId == 1 .. MaxFiles
Inode == 1 .. (Len(Names) + MaxFiles)

VARIABLES
    dfTree,      \* name -> [ino, dir]
    dfFiles,     \* disk->files: FileId -> DISK_FILE
    dfStale,     \* history: files whose name was given away by another request
    dfMishap     \* history: the names a failing create unlinked in the last step

dfvars == <<dfTree, dfFiles, dfStale, dfMishap>>

Exists(p) == p \in DOMAIN dfTree
IsDir(p) == Exists(p) /\ dfTree[p].dir
Below(p) == {q \in DOMAIN dfTree : IsPrefix(p, q)}     \* p and all in it
HasPlace(p) == Len(p) = 1 \/ IsDir(Front(p))
Inodes(tree) == {tree[p].ino : p \in DOMAIN tree}
FreshInode == CHOOSE i \in Inode \ (Inodes(dfTree) \cup {dfFiles[f].ino : f \in DOMAIN dfFiles}) : TRUE

Minus(tree, gone) == [p \in DOMAIN tree \ gone |-> tree[p]]
Plus(tree, p, node) == [q \in DOMAIN tree \cup {p} |-> IF q = p THEN node ELSE tree[q]]

(* The files, but for own, whose name no longer means their inode.         *)
Misled(tree, own) == {f \in DOMAIN dfFiles \ own :
    LET p == dfFiles[f].path IN p \notin DOMAIN tree \/ tree[p].ino # dfFiles[f].ino}
-----------------------------------------------------------------------------
(* Any tree over the names may be there when the session starts.           *)
DfInit ==
    /\ \E there, dirs \in SUBSET DOMAIN Names :
          /\ dirs \subseteq there
          /\ \A i \in there : Len(Names[i]) = 1 \/ \E j \in dirs : Names[j] = Front(Names[i])
          /\ dfTree = [p \in {Names[i] : i \in there} |->
                LET i == CHOOSE i \in there : Names[i] = p IN [ino |-> i, dir |-> i \in dirs]]
    /\ dfFiles = << >>
    /\ dfStale = {}
    /\ dfMishap = {}

(* What disk_file_remove_dir has removed when it returns: all, or as much  *)
(* as it came to, from the leaves up, before a call failed.                *)
disk_file_remove_dir(p) ==
    IF IsDir(p) THEN {gone \in SUBSET Below(p) : \A q \in gone : Below(q) \subseteq gone} ELSE {{}}

(* Mutant: delete_pending is not looked at.                                *)
disk_file_free_always(f) ==
    IF f.dir THEN disk_file_remove_dir(f.path)
    ELSE IF Exists(f.path) /\ ~IsDir(f.path) THEN {{}, {f.path}} ELSE {{}}

(* What disk_file_free removes.                                            *)
disk_file_free(f) ==
    IF ~f.del THEN {{}}
    ELSE IF f.dir THEN disk_file_remove_dir(f.path)
    ELSE IF Exists(f.path) /\ ~IsDir(f.path) THEN {{}, {f.path}} ELSE {{}}

(* Whether open(2) succeeds with the oflag the disposition is turned into. *)
Opens(p, disp) ==
    IF Exists(p) THEN disp # "create"
    ELSE disp \in {"supersede", "create", "open_if", "overwrite_if"} /\ HasPlace(p)

(* disk_file_init on a directory: one that is not there is made, whatever  *)
(* the disposition says, and stays when opendir then fails.                *)
InitDir(p, wantDir, denied) ==
    /\ IF Exists(p) THEN IsDir(p) ELSE wantDir
    /\ IF Exists(p) THEN dfTree' = dfTree
       ELSE \/ denied /\ dfTree' = dfTree
            \/ HasPlace(p) /\ dfTree' = Plus(dfTree, p, [ino |-> FreshInode, dir |-> TRUE])
    /\ dfMishap' = {}

(* disk_file_init on a file.  delete_pending is set before open is tried,  *)
(* and disk_process_irp_create frees the file of an open that failed.      *)
InitFile(p, disp, wantDir, delOnClose, denied) ==
    /\ IF Exists(p) THEN ~IsDir(p) ELSE ~wantDir
    /\ IF Opens(p, disp) /\ ~denied THEN
          /\ dfTree' = IF Exists(p) THEN dfTree
                       ELSE Plus(dfTree, p, [ino |-> FreshInode, dir |-> FALSE])
          /\ dfMishap' = {}
       ELSE \E gone \in disk_file_free([path |-> p, dir |-> FALSE, del |-> delOnClose]) :
          /\ dfTree' = Minus(dfTree, gone)
          /\ dfMishap' = gone

(* A file that could be opened is put on the list with its id.             *)
disk_process_irp_create(f, p, disp, wantDir, delOnClose, denied) ==
    /\ f \notin DOMAIN dfFiles /\ \A g \in 1 .. f - 1 : g \in DOMAIN dfFiles
    /\ \/ InitDir(p, wantDir, denied)
       \/ InitFile(p, disp, wantDir, delOnClose, denied)
    /\ LET opened == /\ ~denied
                     /\ p \in DOMAIN dfTree'
                     /\ dfTree'[p].dir \/ Opens(p, disp)
       IN  dfFiles' = IF opened
              THEN Plus(dfFiles, f, [path |-> p, ino |-> dfTree'[p].ino, dir |-> dfTree'[p].dir,
                                     del |-> delOnClose /\ ~dfTree'[p].dir])
              ELSE dfFiles
    /\ dfStale' = dfStale \cup Misled(dfTree', {})

(* disk_process_irp_close; disk_free closes what is left open likewise.    *)
disk_process_irp_close(f) ==
    /\ f \in DOMAIN dfFiles
    /\ \E gone \in disk_file_free(dfFiles[f]) : dfTree' = Minus(dfTree, gone)
    /\ dfFiles' = Minus(dfFiles, {f})
    /\ dfStale' = (dfStale \cup Misled(dfTree', {f})) \ {f}
    /\ dfMishap' = {}

(* FileDispositionInformation                                              *)
SetDisposition(f, del) ==
    /\ f \in DOMAIN dfFiles
    /\ dfFiles' = [dfFiles EXCEPT ![f].del = del]
    /\ dfMishap' = {}
    /\ UNCHANGED <<dfTree, dfStale>>

(* rename(2): a file takes the place of a file, a directory that of an     *)
(* empty directory, and no directory moves into itself.                    *)
MayRename(p, q) ==
    /\ Exists(p) /\ HasPlace(q)
    /\ Exists(q) => IsDir(p) = IsDir(q) /\ Below(q) = {q}
    /\ ~IsPrefix(p, q)
Moved(p, q) ==
    LET below(r, s) == SubSeq(s, Len(r) + 1, Len(s))
        into == {q \o below(p, r) : r \in Below(p)}
    IN  [r \in (DOMAIN dfTree \ Below(p)) \cup into |->
            IF r \in into THEN dfTree[p \o below(q, r)] ELSE dfTree[r]]

(* FileRenameInformation.  ReplaceIfExists is skipped, so an existing file *)
(* of the new name is replaced.  The name of the file follows.             *)
Rename(f, q) ==
    /\ f \in DOMAIN dfFiles
    /\ MayRename(dfFiles[f].path, q)
    /\ DOMAIN Moved(dfFiles[f].path, q) \subseteq Name
    /\ dfTree' = Moved(dfFiles[f].path, q)
    /\ dfFiles' = [dfFiles EXCEPT ![f].path = q]
    /\ dfStale' = dfStale \cup Misled(dfTree', {f})
    /\ dfMishap' = {}

DfNext ==
    \/ \E f \in FileId, p \in Name, disp \in Disposition, wantDir, del, denied \in BOOLEAN :
          disk_process_irp_create(f, p, disp, wantDir, del, denied)
    \/ \E f \in FileId : disk_process_irp_close(f)
    \/ \E f \in FileId, del \in BOOLEAN : SetDisposition(f, del)
    \/ \E f \in FileId, q \in Name : Rename(f, q)

DfSpec == DfInit /\ [][DfNext]_dfvars
-----------------------------------------------------------------------------
(* Types of the disk's state.                                              *)
DfTypeOK ==
    /\ DOMAIN dfTree \subseteq Name
    /\ \A p \in DOMAIN dfTree : dfTree[p] \in [ino : Inode, dir : BOOLEAN] /\ HasPlace(p)
    /\ DOMAIN dfFiles \subseteq FileId
    /\ \A f \in DOMAIN dfFiles : dfFiles[f] \in
          [path : Name, ino : Inode, dir : BOOLEAN, del : BOOLEAN]
    /\ dfStale \subseteq DOMAIN dfFiles /\ dfMishap \subseteq Name

(* disk_file_set_fullpath keeps an open file's name in step with its       *)
(* descriptor through any sequence of renames of its own: the name goes    *)
(* astray only when a request for ANOTHER file took it away.               *)
NameFollowsFile == \A f \in DOMAIN dfFiles \ dfStale :
    Exists(dfFiles[f].path) /\ dfTree[dfFiles[f].path].ino = dfFiles[f].ino

(* disk_file_free deletes what was asked for: a file leaves the tree only  *)
(* when a file opened on it, or on a directory above it, is closed with    *)
(* delete_pending, when another one is renamed to its name, through a name *)
(* gone astray, or in the mishap of a create with delete-on-close that     *)
(* fails.                                                                  *)
OnlyAskedIsRemoved ==
    \A p \in DOMAIN dfTree : dfTree[p].ino \in Inodes(dfTree') \/
        \/ p \in dfMishap'
        \/ p \in DOMAIN dfTree' /\ \E f \in DOMAIN dfFiles \cap DOMAIN dfFiles' :
              dfFiles'[f].path = p /\ dfFiles[f].path # p
        \/ \E f \in DOMAIN dfFiles \ DOMAIN dfFiles' :
              /\ dfFiles[f].del
              /\ \/ f \in dfStale
                 \/ dfTree[p].ino = dfFiles[f].ino
                 \/ dfFiles[f].dir /\ IsPrefix(dfFiles[f].path, p)
====
