---------------------------- MODULE FsmonEvents -----------------------------
(***************************************************************************)
(* The data and the pure steps of share/fsmon/monitor.go that every part  *)
(* of the file monitor uses: the inotify bits, the fileEvent kinds, the   *)
(* fileMod an event is merged into (cbNotify), the classification of a    *)
(* single-file target (handleFileEvents) and the messages of one entry    *)
(* (sendMsg).  FileWatch and DirWatch extend it.                          *)
(*                                                                         *)
(* A fileMod is [mask, pInfo, finfo]: finfo names the FileInfoExt the      *)
(* driver passed as params with the event that created the entry.  Later  *)
(* events of the window merge mask and processes and keep that finfo.     *)
(***************************************************************************)
EXTENDS Integers, Sequences, FiniteSets, TLC

CONSTANT Procs     \* processes, identified by their executable path

Absent == 0                   \* content of a removed file
Zero == 0                     \* osutil.HashZero

\* syscall.IN_* bits the model distinguishes
Bits == {"ACCESS", "MODIFY", "CLOSE_WRITE", "ATTRIB", "DELETE_SELF",
         "IGNORED", "MOVE", "MOVED_TO", "CREATE", "DELETE", "ISDIR"}
\* IN_MODIFY and IN_CLOSE_WRITE reach cbNotify together for every write;
\* both classifiers treat them alike, so one bit stands for both.
WriteMask == {"MODIFY"}
InodeMovedMask == {"MOVE", "MOVED_TO"}

\* fileEvent* kinds; None is the zero event of the classifiers
None == "none"
Events == {"Attr", "DirAttr", "Modified", "Removed", "DirRemoved",
           "Accessed", "MovedFrom", "DirMovedFrom", "MovedTo", "DirMovedTo",
           "Created", "DirCreated", "Denied"}

NoProc == [proc |-> "none", deny |-> FALSE]
ProcInfo == [proc : Procs, deny : BOOLEAN]

-----------------------------------------------------------------------------
(* Helpers on Go maps, modelled as functions with a variable domain.       *)
Put(m, k, v) == [x \in DOMAIN m \cup {k} |-> IF x = k THEN v ELSE m[x]]
Drop(m, k) == [x \in DOMAIN m \ {k} |-> m[x]]
ProcsOf(pInfo) == {pInfo[i].proc : i \in DOMAIN pInfo}

(* removeFile: fanotifier.RemoveMonitorFile and inotifier.RemoveMonitorFile *)
(* on the two driver tables, st.fan (marks) and st.ino (watches).          *)
removeFile(st, path) == [st EXCEPT !.fan = @ \ {path}, !.ino = @ \ {path}]

-----------------------------------------------------------------------------
Merge(fm, mask, pi) ==
    [fm EXCEPT !.mask = @ \cup mask,
               !.pInfo = IF pi = NoProc \/ pi.proc \in ProcsOf(@)
                         THEN @ ELSE Append(@, pi)]

\* a new entry that keeps a nil pInfo (the "if pInfo != nil" test dropped)
NewModKeepNil(mask, pi, fi) == [mask |-> mask, pInfo |-> <<pi>>, finfo |-> fi]

NewMod(mask, pi, fi) ==
    [mask |-> mask, pInfo |-> IF pi = NoProc THEN <<>> ELSE <<pi>>,
     finfo |-> fi]

\* IN_IGNORED merged like any other event instead of releasing the path
cbNotifyKeepIgnored(st, path, mask, pi, fi) ==
    [st EXCEPT !.fileEvents =
        IF path \in DOMAIN @
        THEN [@ EXCEPT ![path] = Merge(@, mask, pi)]
        ELSE Put(@, path, NewMod(mask, pi, fi))]

cbNotify(st, path, mask, pi, fi) ==
    IF "IGNORED" \in mask
    THEN removeFile(st, path)
    ELSE [st EXCEPT !.fileEvents =
            IF path \in DOMAIN @
            THEN [@ EXCEPT ![path] = Merge(@, mask, pi)]
            ELSE Put(@, path, NewMod(mask, pi, fi))]

(* The driver reader hands the masks it read for one path, in kernel      *)
(* order, to cbNotify.                                                     *)
RECURSIVE NotifyAll(_, _, _, _, _)
NotifyAll(st, path, masks, pi, fi) ==
    IF masks = <<>> THEN st
    ELSE NotifyAll(cbNotify(st, path, Head(masks), pi, fi),
                   path, Tail(masks), pi, fi)

-----------------------------------------------------------------------------
(* handleFileEvents: the event of a single-file target, decided from the   *)
(* merged mask, the post-event lstat and the content hash, with the        *)
(* FileInfoExt hash it leaves and the re-arm/release it performs.          *)
handleFileEvents(mask, exists, h, stored) ==
    IF exists
    THEN CASE mask \cap InodeMovedMask # {} ->
                [event |-> "MovedTo", hash |-> stored, arm |-> "add"]
           [] "ATTRIB" \in mask ->
                [event |-> "Attr", hash |-> stored, arm |-> "keep"]
           [] mask \cap {"ACCESS", "CLOSE_WRITE", "MODIFY"} # {} ->
                IF h # stored /\ stored # Zero
                THEN [event |-> "Modified", hash |-> h, arm |-> "keep"]
                ELSE IF h = stored
                THEN [event |-> "Accessed", hash |-> stored, arm |-> "keep"]
                ELSE [event |-> IF mask \cap {"CLOSE_WRITE", "MODIFY"} # {}
                                THEN "Modified" ELSE "Accessed",
                      hash |-> h, arm |-> "keep"]
           [] OTHER -> [event |-> None, hash |-> stored, arm |-> "keep"]
    ELSE IF mask \cap InodeMovedMask # {}
         THEN [event |-> "MovedFrom", hash |-> stored, arm |-> "keep"]
         ELSE [event |-> "Removed", hash |-> stored, arm |-> "remove"]

(* sendMsg: one message without process when pInfo is nil, else one per   *)
(* process that differs from its predecessor; a denied process turns the  *)
(* message into "File access was denied." with action Deny.               *)
sendMsg(pid, f, event, pInfo) ==
    LET msg(i) == [pid |-> pid, file |-> f,
                   event |-> IF pInfo[i].deny THEN "Denied" ELSE event,
                   proc |-> pInfo[i].proc,
                   action |-> IF pInfo[i].deny THEN "Deny" ELSE "Violate"]
        kept == SelectSeq([i \in 1..Len(pInfo) |-> i],
                          LAMBDA i : i = 1 \/ pInfo[i - 1] # pInfo[i])
    IN IF pInfo = <<>>
       THEN <<[pid |-> pid, file |-> f, event |-> event, proc |-> "none",
               action |-> "Violate"]>>
       ELSE [j \in 1..Len(kept) |-> msg(kept[j])]
=============================================================================
