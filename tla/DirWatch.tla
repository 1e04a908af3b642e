------------------------------ MODULE DirWatch ------------------------------
(***************************************************************************)
(* A directory target of share/fsmon/monitor.go: one container directory  *)
(* Dir armed by addDir, its children Names and, inside a child directory, *)
(* the grandchildren Inner; the classifier of directory entries           *)
(* (handleDirEvents) beside the one of single files (handleFileEvents).   *)
(*                                                                         *)
(* addDir hands the drivers the directory's FileInfoExt as params.  The   *)
(* inotify watch of Dir (AddMonitorDirFile with nil files) and the watch  *)
(* of every subdirectory armed later report their children with that one *)
(* object, and handleDirEvents writes its Path and Hash: the children of  *)
(* a directory share one FileInfoExt.  fanotify marks the children the    *)
(* walker found (Initial) with a FileInfoExt of their own.                *)
(*                                                                         *)
(* The drivers are modelled from their contract (spec.md 4.3, 4.4): each  *)
(* has one reader delivering its kernel queue in order to cbNotify while  *)
(* the watch or mark that produced an event is still in its table; arming *)
(* a path that does not exist fails silently (spec.md 7).                 *)
(***************************************************************************)
EXTENDS FsmonEvents

CONSTANTS
    Dir,        \* the watched directory (the FileInfoExt of addDir)
    Names,      \* names of entries directly under Dir
    Initial,    \* the files under Dir the walker found at StartWatch
    Inner,      \* names of files created inside a child directory
    Mode,       \* the group's mode: Learn requests fanotify FAN_OPEN
    Recursive,  \* filterRegex.recursive of the directory's filter
    MaxVer,     \* bound on the number of writes to a child
    MaxPending, \* bound on the driver events read and not delivered
    MaxOps      \* bound on the file operations of the container

ASSUME Initial \subseteq Names /\ Dir \notin Names
ASSUME Mode \in {"Discover", "Monitor"} /\ Recursive \in BOOLEAN
ASSUME MaxVer \in Nat \ {0} /\ MaxPending \in Nat \ {0} /\ MaxOps \in Nat

Learn == "Discover"
InnerPaths == Names \X Inner
Paths == {Dir} \cup Names \cup InnerPaths
Infos == {Dir} \cup Initial     \* the FileInfoExt objects, by the path they were made for
Kinds == {"none", "file", "dir"}
Versions == 1..MaxVer

VARIABLES
    kind,        \* kernel: what each path is now
    content,     \* kernel: content version of each child, Absent if none
    finfo,       \* the FileInfoExt objects: [path, hash]
    fan,         \* paths marked in fanotify
    fanInfo,     \* the FileInfoExt each fanotify mark was armed with
    ino,         \* paths with an inotify watch
    inoQ,        \* inotify events read from the kernel, in order
    fanQ,        \* fanotify events read from the kernel, in order
    fileEvents,  \* FileWatch.fileEvents: path -> fileMod
    batch,       \* the map HandleWatchedFiles swapped out and is walking
    hashedAt,    \* history: the content of each child when it was last hashed
    ops          \* the number of file operations so far

vars == <<kind, content, finfo, fan, fanInfo, ino, inoQ, fanQ, fileEvents,
          batch, hashedAt, ops>>

FileMod == [mask : SUBSET Bits, pInfo : Seq(ProcInfo), finfo : Infos]
DriverEvent == [watch : Paths, path : Paths, masks : Seq(SUBSET Bits),
                pInfo : ProcInfo \cup {NoProc}, finfo : Infos]
EmptyMap == [x \in {} |-> {}]

TypeOK ==
    /\ kind \in [Paths -> Kinds]
    /\ content \in [Names -> {Absent} \cup Versions]
    /\ finfo \in [Infos -> [path : Paths, hash : {Zero} \cup Versions]]
    /\ fan \subseteq Paths /\ ino \subseteq Paths
    /\ fanInfo \in [Paths -> Infos]
    /\ inoQ \in Seq(DriverEvent) /\ fanQ \in Seq(DriverEvent)
    /\ DOMAIN fileEvents \subseteq Paths
    /\ \A p \in DOMAIN fileEvents : fileEvents[p] \in FileMod
    /\ DOMAIN batch \subseteq Paths
    /\ \A p \in DOMAIN batch : batch[p] \in FileMod
    /\ hashedAt \in [Names -> {Absent} \cup Versions]
    /\ ops \in 0..MaxOps

-----------------------------------------------------------------------------
Exists(p) == kind[p] # "none"
IsDir(p) == kind[p] = "dir"

(* The tables addFile and addDir ask the drivers to add.  addDir marks the *)
(* directory and the files of ff in fanotify and, with bIncInotify, adds  *)
(* the inotify watch of the directory; addFile marks finfo.Path in        *)
(* fanotify, and in inotify only with bIncInotify.  The files a walk of a *)
(* new subdirectory puts in ff are left out: no operation of the model    *)
(* reaches a grandchild through fanotify.                                 *)
addDir(bIncInotify, path, files) ==
    [fan |-> {path} \cup files, ino |-> IF bIncInotify THEN {path} ELSE {}]
addFile(bIncInotify, path) ==
    [fan |-> {path}, ino |-> IF bIncInotify THEN {path} ELSE {}]
NoArm == [fan |-> {}, ino |-> {}]

(* handleDirEvents, a created directory: the shared FileInfoExt now names *)
(* the new subdirectory, and a recursive filter arms it with addDir.       *)
\* the addDir call of a created subdirectory dropped
dirCreatedNoArm(p, fi) ==
    [event |-> "DirCreated", fi |-> [fi EXCEPT !.path = p], arm |-> NoArm,
     release |-> {}]

dirCreated(p, fi) ==
    [event |-> "DirCreated", fi |-> [fi EXCEPT !.path = p],
     arm |-> IF Recursive THEN addDir(TRUE, p, {}) ELSE NoArm,
     release |-> {}]

(* handleDirEvents, access or write: a child file is hashed and compared  *)
(* with the hash of the shared FileInfoExt, which then keeps the new one. *)
dirAccessed(p, fi) ==
    IF IsDir(p) \/ content[p] = fi.hash
    THEN [event |-> "Accessed", fi |-> fi, arm |-> NoArm, release |-> {}]
    ELSE [event |-> IF fi.hash # Zero THEN "Modified" ELSE "Accessed",
          fi |-> [fi EXCEPT !.hash = content[p]], arm |-> NoArm,
          release |-> {}]

(* handleDirEvents, the path is gone: it is taken for the directory itself *)
(* when it equals the FileInfoExt's Path, else for a removed child, which *)
(* removeFile releases.                                                    *)
dirGone(mask, p, fi) ==
    IF p = fi.path
    THEN [event |-> "DirRemoved", fi |-> fi, arm |-> NoArm, release |-> {}]
    ELSE [event |-> CASE mask \cap InodeMovedMask = {} -> "Removed"
                      [] "ISDIR" \in mask -> "DirMovedFrom"
                      [] OTHER -> "MovedFrom",
          fi |-> fi, arm |-> NoArm, release |-> {p}]

(* handleDirEvents: MOVED_TO before CREATE before ATTRIB before access.    *)
(* A created file is armed with addFile(false, fmod.finfo), that is under *)
(* the shared FileInfoExt's Path; a moved-in entry re-arms that Path with *)
(* addDir.  Symbolic links are not modelled.                              *)
handleDirEvents(mask, p, fi) ==
    LET same == [event |-> None, fi |-> fi, arm |-> NoArm, release |-> {}]
    IN IF Exists(p)
       THEN CASE "MOVED_TO" \in mask ->
                   [same EXCEPT !.event = IF IsDir(p) THEN "DirMovedTo"
                                          ELSE "MovedTo",
                                !.arm = addDir(TRUE, fi.path, {})]
              [] "CREATE" \in mask /\ IsDir(p) -> dirCreated(p, fi)
              [] "CREATE" \in mask ->
                   [same EXCEPT !.event = "Created",
                                !.arm = addFile(FALSE, fi.path)]
              [] "ATTRIB" \in mask ->
                   [same EXCEPT !.event = IF IsDir(p) THEN "DirAttr"
                                          ELSE "Attr"]
              [] mask \cap {"ACCESS", "CLOSE_WRITE", "MODIFY"} # {} ->
                   dirAccessed(p, fi)
              [] OTHER -> same
       ELSE dirGone(mask, p, fi)

(* HandleWatchedFiles routes an entry to handleDirEvents when its          *)
(* FileInfoExt is a directory's or lstat finds a directory, else to        *)
(* handleFileEvents, whose re-arm is addFile(true, finfo).                 *)
Classify(p) ==
    LET fm == batch[p]
        fi == finfo[fm.finfo]
    IN IF fm.finfo = Dir \/ IsDir(p)
       THEN handleDirEvents(fm.mask, p, fi)
       ELSE LET r == handleFileEvents(fm.mask, Exists(p), content[p], fi.hash)
            IN [event |-> r.event, fi |-> [fi EXCEPT !.hash = r.hash],
                arm |-> IF r.arm = "add" THEN addFile(TRUE, fi.path)
                        ELSE NoArm,
                release |-> IF r.arm = "remove" THEN {p} ELSE {}]
-----------------------------------------------------------------------------
(* The drivers.  The inotify watch of a directory reports its children;   *)
(* the watch of a subdirectory also reports the subdirectory's own end.   *)
(* fanotify reports an open of a child, under the child's own mark or     *)
(* else the directory's, when the group requested FAN_OPEN (Learn mode).  *)
InoEvent(watch, path, masks) ==
    [watch |-> watch, path |-> path, masks |-> masks, pInfo |-> NoProc,
     finfo |-> Dir]
Parent(p) == IF p \in InnerPaths THEN p[1] ELSE Dir
InoChild(p, mask) ==
    IF Parent(p) \in ino THEN <<InoEvent(Parent(p), p, <<mask>>)>>
    ELSE <<>>
InoSelf(p) ==
    IF p \in ino
    THEN <<InoEvent(p, p, <<{"DELETE_SELF"}, {"IGNORED"}>>)>>
    ELSE <<>>
FanOpen(c, proc) ==
    LET m == IF c \in fan THEN c ELSE Dir
    IN IF Mode = Learn /\ m \in fan
       THEN <<[watch |-> m, path |-> c, masks |-> <<{"ACCESS"}>>,
               pInfo |-> [proc |-> proc, deny |-> FALSE],
               finfo |-> fanInfo[m]]>>
       ELSE <<>>

\* the kernel queues are bounded: a process blocks while they are full;
\* and the container performs at most MaxOps operations
QueueRoom ==
    /\ Len(inoQ) + Len(fanQ) < MaxPending
    /\ ops < MaxOps /\ ops' = ops + 1

(* A process writes a child file (IN_MODIFY|IN_CLOSE_WRITE) or, in Learn  *)
(* mode, only opens it.                                                    *)
WriteFile(c, proc) ==
    /\ QueueRoom
    /\ kind[c] = "file" /\ content[c] < MaxVer
    /\ content' = [content EXCEPT ![c] = @ + 1]
    /\ inoQ' = inoQ \o InoChild(c, {"MODIFY"})
    /\ fanQ' = fanQ \o FanOpen(c, proc)
    /\ UNCHANGED <<kind, finfo, fan, fanInfo, ino, fileEvents, batch, hashedAt>>

ReadFile(c, proc) ==
    /\ QueueRoom
    /\ kind[c] = "file" /\ FanOpen(c, proc) # <<>>
    /\ fanQ' = fanQ \o FanOpen(c, proc)
    /\ UNCHANGED <<kind, content, finfo, fan, fanInfo, ino, inoQ, fileEvents,
                   batch, hashedAt>>

(* A child file or directory, or a file inside a child directory, is      *)
(* created (IN_CREATE, with IN_ISDIR for a directory).                     *)
Create(p, k) ==
    /\ QueueRoom
    /\ kind[p] = "none" /\ kind[Parent(p)] = "dir"
    /\ k = "dir" => p \in Names
    /\ kind' = [kind EXCEPT ![p] = k]
    /\ content' = IF k = "file" /\ p \in Names
                  THEN [content EXCEPT ![p] = 1] ELSE content
    /\ inoQ' = inoQ \o InoChild(p, IF k = "dir" THEN {"CREATE", "ISDIR"}
                                   ELSE {"CREATE"})
    /\ UNCHANGED <<finfo, fan, fanInfo, ino, fanQ, fileEvents, batch, hashedAt>>

(* A child is removed (IN_DELETE in Dir); an empty child directory also   *)
(* ends its own watch (IN_DELETE_SELF, IN_IGNORED).                        *)
RemoveChild(c) ==
    /\ QueueRoom
    /\ kind[c] # "none"
    /\ \A g \in Inner : kind[<<c, g>>] = "none"
    /\ kind' = [kind EXCEPT ![c] = "none"]
    /\ content' = [content EXCEPT ![c] = Absent]
    /\ inoQ' = inoQ \o InoChild(c, IF IsDir(c) THEN {"DELETE", "ISDIR"}
                                   ELSE {"DELETE"})
                    \o (IF IsDir(c) THEN InoSelf(c) ELSE <<>>)
    /\ UNCHANGED <<finfo, fan, fanInfo, ino, fanQ, fileEvents, batch, hashedAt>>

(* A child's attributes change (IN_ATTRIB).                                *)
ChangeAttr(c) ==
    /\ QueueRoom
    /\ kind[c] # "none" /\ InoChild(c, {"ATTRIB"}) # <<>>
    /\ inoQ' = inoQ \o InoChild(c, {"ATTRIB"})
    /\ UNCHANGED <<kind, content, finfo, fan, fanInfo, ino, fanQ, fileEvents,
                   batch, hashedAt>>

(* The emptied directory itself is removed.                                *)
RemoveDir ==
    /\ QueueRoom
    /\ kind[Dir] = "dir" /\ \A c \in Names : kind[c] = "none"
    /\ kind' = [kind EXCEPT ![Dir] = "none"]
    /\ inoQ' = inoQ \o InoSelf(Dir)
    /\ UNCHANGED <<content, finfo, fan, fanInfo, ino, fanQ, fileEvents, batch,
                   hashedAt>>

(* A driver reader delivers the oldest event of its queue to cbNotify, or *)
(* drops it when the watch or mark that produced it has left its table.   *)
Deliver(table, e) ==
    LET st == NotifyAll([fan |-> fan, ino |-> ino, fileEvents |-> fileEvents],
                        e.path, e.masks, e.pInfo, e.finfo)
    IN IF e.watch \in table
       THEN /\ fan' = st.fan /\ ino' = st.ino
            /\ fileEvents' = st.fileEvents
       ELSE UNCHANGED <<fan, ino, fileEvents>>

DeliverIno ==
    /\ inoQ # <<>>
    /\ Deliver(ino, Head(inoQ))
    /\ inoQ' = Tail(inoQ)
    /\ UNCHANGED <<ops, kind, content, finfo, fanInfo, fanQ, batch, hashedAt>>

DeliverFan ==
    /\ fanQ # <<>>
    /\ Deliver(fan, Head(fanQ))
    /\ fanQ' = Tail(fanQ)
    /\ UNCHANGED <<ops, kind, content, finfo, fanInfo, inoQ, batch, hashedAt>>

-----------------------------------------------------------------------------
(* HandleWatchedFiles, under the lock: swap fileEvents for an empty map.   *)
HandleWatchedFiles ==
    /\ DOMAIN batch = {}
    /\ DOMAIN fileEvents # {}
    /\ batch' = fileEvents
    /\ fileEvents' = EmptyMap
    /\ UNCHANGED <<ops, kind, content, finfo, fan, fanInfo, ino, inoQ, fanQ,
                   hashedAt>>

(* One entry of the swapped map: classify it, write the FileInfoExt back, *)
(* arm what the classifier adds (a path that is gone cannot be armed; a   *)
(* fanotify mark keeps the FileInfoExt it was first armed with) and        *)
(* release what it removes.                                                *)
HandleWatchedFile(p) ==
    LET r == Classify(p)
        i == batch[p].finfo
        newFan == {q \in r.arm.fan \ fan : Exists(q)}
    IN /\ p \in DOMAIN batch
       /\ batch' = Drop(batch, p)
       /\ finfo' = [finfo EXCEPT ![i] = r.fi]
       /\ fan' = (fan \cup newFan) \ r.release
       /\ fanInfo' = [q \in Paths |-> IF q \in newFan THEN i ELSE fanInfo[q]]
       /\ ino' = (ino \cup {q \in r.arm.ino : Exists(q)}) \ r.release
       /\ hashedAt' = IF r.event \in {"Modified", "Accessed"} /\ kind[p] = "file"
                      THEN [hashedAt EXCEPT ![p] = content[p]] ELSE hashedAt
       /\ UNCHANGED <<ops, kind, content, inoQ, fanQ, fileEvents>>
-----------------------------------------------------------------------------
(* StartWatch has walked the directory and called addDir(true, dir, ff):  *)
(* fanotify marks Dir and every file found, each file with its own        *)
(* FileInfoExt, and inotify watches Dir.  No hash has been taken.         *)
Init ==
    /\ kind = [p \in Paths |-> CASE p = Dir -> "dir"
                                 [] p \in Initial -> "file"
                                 [] OTHER -> "none"]
    /\ content = [c \in Names |-> IF c \in Initial THEN 1 ELSE Absent]
    /\ finfo = [i \in Infos |-> [path |-> i, hash |-> Zero]]
    /\ fan = addDir(TRUE, Dir, Initial).fan
    /\ ino = addDir(TRUE, Dir, Initial).ino
    /\ fanInfo = [q \in Paths |-> IF q \in Initial THEN q ELSE Dir]
    /\ inoQ = <<>> /\ fanQ = <<>>
    /\ fileEvents = EmptyMap /\ batch = EmptyMap
    /\ hashedAt = [c \in Names |-> Absent]
    /\ ops = 0

Next ==
    \/ \E c \in Names, proc \in Procs : WriteFile(c, proc) \/ ReadFile(c, proc)
    \/ \E p \in Paths \ {Dir}, k \in {"file", "dir"} : Create(p, k)
    \/ \E c \in Names : RemoveChild(c) \/ ChangeAttr(c)
    \/ RemoveDir
    \/ DeliverIno
    \/ DeliverFan
    \/ HandleWatchedFiles
    \/ \E p \in DOMAIN batch : HandleWatchedFile(p)

(* The driver readers block on their descriptors and the 4 s ticker keeps *)
(* firing: each of these steps is taken while it stays enabled.  The      *)
(* container's processes are not obliged to do anything.                  *)
Fairness ==
    /\ WF_vars(DeliverIno)
    /\ WF_vars(DeliverFan)
    /\ WF_vars(HandleWatchedFiles)
    /\ WF_vars(\E p \in DOMAIN batch : HandleWatchedFile(p))

Spec == Init /\ [][Next]_vars /\ Fairness

-----------------------------------------------------------------------------
(***************************************************************************)
(* Properties.                                                             *)
(***************************************************************************)
\* the entries a step of the loop classifies
Processed == DOMAIN batch \ DOMAIN batch'

(* E5, first half: a subdirectory created under a recursive directory     *)
(* target is eventually watched, through the IN_CREATE entry that         *)
(* handleDirEvents turns into DirCreated and addDir, unless it is gone    *)
(* first.                                                                  *)
CreatedDirWatched ==
    \A c \in Names : IsDir(c) ~> (c \in ino \/ ~IsDir(c))

(* E5, second half: the creation of a file inside a new subdirectory      *)
(* reaches the aggregator (to be reported as FileCreated), which needs    *)
(* the subdirectory to be armed before the file's IN_CREATE.              *)
SubdirFileReported ==
    \A q \in InnerPaths : Exists(q) ~> q \in DOMAIN fileEvents

(* spec.md 4.6: a write to a child file that was never hashed            *)
(* (IN_MODIFY/IN_CLOSE_WRITE without a prior hash, and no create, move or *)
(* attribute change in the window) is FileModified, whichever classifier  *)
(* the entry reaches.                                                      *)
DirModifyReported ==
    [][\A p \in Processed :
         /\ kind[p] = "file" /\ p \in Names /\ hashedAt[p] = Absent
         /\ "MODIFY" \in batch[p].mask
         /\ batch[p].mask \cap {"MOVED_TO", "CREATE", "ATTRIB"} = {}
         => Classify(p).event = "Modified"]_vars

(* spec.md 4.6: FileAccessed is an open without modification; a child is  *)
(* reported Modified only when its content differs from the content it    *)
(* had when the classifier last hashed it, whatever hash the shared       *)
(* FileInfoExt holds.                                                      *)
ModifiedOnlyIfChanged ==
    [][\A p \in Processed :
         Classify(p).event = "Modified" =>
             p \in Names /\ content[p] # hashedAt[p]]_vars

(* spec.md 5: the inotify watch of a removed directory is not leaked: the *)
(* IN_IGNORED that ends it reaches cbNotify, which releases it, or the    *)
(* classifier's removeFile does.                                           *)
WatchReleased ==
    \A q \in Paths : (q \in ino /\ ~Exists(q)) ~> (q \notin ino \/ Exists(q))
=============================================================================
