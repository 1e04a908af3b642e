----------------------------- MODULE FileWatch -----------------------------
(***************************************************************************)
(* The file monitor of share/fsmon/monitor.go (type FileWatch): the group  *)
(* registry (StartWatch, UpdateAccessRules, ContainerCleanup), the event   *)
(* aggregator (cbNotify, HandleWatchedFiles), the classifier of single-    *)
(* file targets (handleFileEvents, sendMsg) and the learning engine        *)
(* (learnFromEvents, addLearnedRules, reportLearningRules).                *)
(*                                                                         *)
(* The fanotify and inotify drivers are not part of this source; they are  *)
(* modelled from their contract: a kernel operation on a marked path       *)
(* queues a driver event, the driver's reader delivers it to cbNotify      *)
(* while the path is still in its table, and the fanotify permission path  *)
(* decides allow/deny from the driver's own copy of the access rules.      *)
(*                                                                         *)
(* A full host path /proc/<pid>/root/<file> is the pair <<pid, file>>.     *)
(* Content is a version number and a content hash is that number; Zero is  *)
(* the hash of a FileInfoExt that was never hashed.                        *)
(***************************************************************************)
EXTENDS FsmonEvents

CONSTANTS
    Pids,          \* container root pids
    NVPids,        \* root pids of the agent's own containers (bNeuvectorSvc)
    Files,         \* container paths of the monitored files
    RuntimeFiles,  \* /etc/hosts, /etc/hostname, /etc/resolv.conf
    FKeys,         \* filter keys "<path>/<regex>" of the profile
    CustomerKeys,  \* the keys of CustomerAdd filters
    Match,         \* Match[k]: the files filterPathMatch accepts for key k
    Confs,         \* access-rule configurations: [keys -> SUBSET Procs]
    NoRule,        \* conf.Rule == nil
    StartModes,    \* the profile modes StartWatch is called with
    KernelOps,     \* the file operations container processes perform
    CleanupModes,  \* the bLeave arguments the agent calls ContainerCleanup with
    CapBlock,      \* the enforcer may issue FAN_DENY
    Aufs,          \* the host filesystem is AUFS
    Grace,         \* the 60 s grace of runtime-added files, in clock ticks
    MaxClock,      \* bound on the clock
    MaxVer,        \* bound on the number of writes to a file
    MaxPending     \* bound on the driver events read and not delivered

ASSUME NVPids \subseteq Pids /\ RuntimeFiles \subseteq Files
ASSUME CustomerKeys \subseteq FKeys /\ Match \in [FKeys -> SUBSET Files]
ASSUME \A c \in Confs : DOMAIN c \subseteq CustomerKeys
ASSUME StartModes \subseteq {"Discover", "Monitor", "Protect", ""}
ASSUME KernelOps \subseteq {"read", "write", "chmod", "unlink"}
ASSUME CleanupModes \subseteq BOOLEAN
ASSUME CapBlock \in BOOLEAN /\ Aufs \in BOOLEAN
ASSUME Grace \in Nat /\ MaxClock \in Nat /\ MaxVer \in Nat \ {0}
ASSUME MaxPending \in Nat \ {0}

Learn == "Discover"
Evaluate == "Monitor"
Enforce == "Protect"
Modes == {Learn, Evaluate, Enforce}
Unset == ""

Paths == Pids \X Files
Versions == 1..MaxVer

VARIABLES
    life,        \* container state behind osutil.IsPidValid
    content,     \* kernel: content version of each path, Absent if removed
    armed,       \* paths marked in the drivers (fanotify mark/inotify wd)
    hash,        \* FileInfoExt.Hash of each armed path
    fanMode,     \* fanotify SetMode bundle per root pid
    fanRules,    \* the fanotify driver's copy of the access rules
    pendingEv,   \* driver events read from the kernel, not yet delivered
    fileEvents,  \* FileWatch.fileEvents: path -> fileMod
    batch,       \* the map HandleWatchedFiles swapped out and is walking
    groups,      \* FileWatch.groups: root pid -> groupInfo
    swPending,   \* a StartWatch call between its steps, per root pid
    updPending,  \* UpdateAccessRules calls between unlock and the driver
    clock,       \* time, in ticks
    shipped,     \* rules handed to sendRule: <<pid, key, proc>>
    wrote,       \* history: <<pid, file, proc>> of completed writes
    opened,      \* history: <<pid, file, proc>> of every open
    bornAt,      \* history: the time each container started
    left,        \* history: containers ContainerCleanup(pid, TRUE) removed
    unreported   \* history: paths with a monitored write not yet reported Modified

vars == <<life, content, armed, hash, fanMode, fanRules, pendingEv,
          fileEvents, batch, groups, swPending, updPending, clock,
          shipped, wrote, opened, bornAt, left, unreported>>

Group == [nv : BOOLEAN, mode : Modes, startAt : 0..MaxClock,
          apply : UNION {[D -> SUBSET Procs] : D \in SUBSET FKeys},
          learn : UNION {[D -> SUBSET Procs] : D \in SUBSET FKeys}]
FileMod == [mask : SUBSET Bits, pInfo : Seq(ProcInfo), finfo : Paths]
DriverEvent == [drv : {"fan", "ino"}, path : Paths, masks : Seq(SUBSET Bits),
                pInfo : ProcInfo \cup {NoProc}]
Message == [pid : Pids, file : Files, event : Events,
            proc : Procs \cup {"none"}, action : {"Violate", "Deny"}]

EmptyMap == [x \in {} |-> {}]
SwIdle == [phase |-> "idle"]

TypeOK ==
    /\ life \in [Pids -> {"new", "running", "exited"}]
    /\ content \in [Paths -> {Absent} \cup Versions]
    /\ armed \subseteq Paths
    /\ hash \in [Paths -> {Zero} \cup Versions]
    /\ fanMode \in [Pids -> [access : BOOLEAN, perm : BOOLEAN]]
    /\ fanRules \in [Pids -> Confs \cup {NoRule}]
    /\ pendingEv \subseteq DriverEvent
    /\ DOMAIN fileEvents \subseteq Paths
    /\ \A p \in DOMAIN fileEvents : fileEvents[p] \in FileMod
    /\ DOMAIN batch \subseteq Paths
    /\ \A p \in DOMAIN batch : batch[p] \in FileMod
    /\ DOMAIN groups \subseteq Pids
    /\ \A g \in DOMAIN groups : groups[g] \in Group
    /\ swPending \in [Pids -> {SwIdle} \cup
            [phase : {"arm"}, mode : Modes, rule : Confs \cup {NoRule}] \cup
            [phase : {"rules"}, rule : Confs]]
    /\ updPending \subseteq Pids \X Confs
    /\ clock \in 0..MaxClock
    /\ shipped \subseteq Pids \X FKeys \X Procs
    /\ wrote \subseteq Pids \X Files \X Procs
    /\ opened \subseteq Pids \X Files \X Procs
    /\ bornAt \in [Pids -> 0..MaxClock]
    /\ left \subseteq Pids
    /\ unreported \subseteq Paths

-----------------------------------------------------------------------------
(* filterPathMatch: the filter's path, or its regex anchored under the     *)
(* path's own directory.  The regex is abstracted to the set it accepts.   *)
filterPathMatch(f, k) == f \in Match[k]

(* isRunTimeAddedFile on the container path joined under /root.            *)
isRunTimeAddedFile(f) == f \in RuntimeFiles

(* addLearnedRules: only a key the applied rules already hold learns, and  *)
(* only processes that are in neither set.                                 *)
addLearnedRules(g, k, procs) ==
    IF k \in DOMAIN g.apply
    THEN LET old == IF k \in DOMAIN g.learn THEN g.learn[k] ELSE {}
             lr == old \cup (procs \ g.apply[k])
         IN IF lr # {} THEN Put(g.learn, k, lr) ELSE g.learn
    ELSE g.learn

LearnFrom(g, f, pInfo) ==
    LET hits == {k \in CustomerKeys : filterPathMatch(f, k)}
        upd(k) == addLearnedRules(g, k, ProcsOf(pInfo))
        learned == {k \in hits : k \in DOMAIN upd(k)}
    IN [k \in DOMAIN g.learn \cup learned |->
            IF k \in learned THEN upd(k)[k] ELSE g.learn[k]]

\* the two skip conditions joined by "and" instead of "or"
ReportedAndGrace(g, f, event) ==
    /\ ~(isRunTimeAddedFile(f) /\ event = "Accessed" /\ clock - g.startAt < Grace)
    /\ (event # "Accessed" \/ g.mode \in {Enforce, Evaluate})

(* learnFromEvents, the unlocked part: runtime-added files are skipped     *)
(* when accessed or during the grace after the group started; an Accessed  *)
(* event is reported only in Evaluate or Enforce mode.                     *)
Reported(g, f, event) ==
    /\ ~(isRunTimeAddedFile(f) /\
         (event = "Accessed" \/ clock - g.startAt < Grace))
    /\ (event # "Accessed" \/ g.mode \in {Enforce, Evaluate})

learnFromEvents(pid, fm, f, event) ==
    groups' = IF pid \in DOMAIN groups /\ groups[pid].mode = Learn
                 /\ fm.pInfo # <<>>
              THEN [groups EXCEPT ![pid].learn =
                      LearnFrom(groups[pid], f, fm.pInfo)]
              ELSE groups

(* The messages learnFromEvents hands to sendrpt.                          *)
learnFromEventsMsgs(pid, fm, f, event) ==
    IF pid \in DOMAIN groups /\ Reported(groups[pid], f, event)
    THEN sendMsg(pid, f, event, fm.pInfo) ELSE <<>>

-----------------------------------------------------------------------------
(* The aggregate loop (FileWatch.loop) is one goroutine: HandleWatchedFiles *)
(* on the 4 s ticker and reportLearningRules on the 10 s ticker.  It is    *)
(* idle when it is not walking a swapped batch.                            *)
LoopIdle == DOMAIN batch = {}

(* HandleWatchedFiles, under the lock: swap fileEvents for an empty map.   *)
HandleWatchedFiles ==
    /\ LoopIdle
    /\ DOMAIN fileEvents # {}
    /\ batch' = fileEvents
    /\ fileEvents' = EmptyMap
    /\ UNCHANGED <<life, content, armed, hash, fanMode, fanRules, pendingEv,
                   groups, swPending, updPending, clock, shipped, wrote, opened, bornAt, left, unreported>>

(* HandleWatchedFiles, one entry of the swapped map, in Go's map order: a  *)
(* live container's path is lstat-ed and classified, the classifier's      *)
(* re-arm or release is done, and a non-zero event goes to learnFromEvents.*)
Classify(path) ==
    handleFileEvents(batch[path].mask, content[path] # Absent,
                     content[path], hash[path])

(* The MonitorMessages the step HandleWatchedFile(path) sends.             *)
SentBy(path) ==
    LET r == Classify(path)
    IN IF life[path[1]] = "running" /\ r.event # None
       THEN learnFromEventsMsgs(path[1], batch[path], path[2], r.event)
       ELSE <<>>

HandleWatchedFile(path) ==
    LET pid == path[1]
        r == Classify(path)
    IN /\ path \in DOMAIN batch
       /\ batch' = Drop(batch, path)
       /\ IF life[pid] = "running"
          THEN /\ hash' = [hash EXCEPT ![path] = r.hash]
               /\ armed' = CASE r.arm = "add" -> armed \cup {path}
                             [] r.arm = "remove" -> armed \ {path}
                             [] OTHER -> armed
               /\ IF r.event # None
                  THEN learnFromEvents(pid, batch[path], path[2], r.event)
                  ELSE UNCHANGED groups
          ELSE UNCHANGED <<armed, hash, groups>>
       /\ unreported' = IF \E i \in DOMAIN SentBy(path) :
                               SentBy(path)[i].event = "Modified"
                        THEN unreported \ {path} ELSE unreported
       /\ UNCHANGED <<life, content, fanMode, fanRules, pendingEv, fileEvents,
                      swPending, updPending, clock, shipped, wrote, opened, bornAt, left>>

(* reportLearningRules: under the lock, collect every group's learned     *)
(* rules and reset them; then hand the batch to sendRule.  A failed send  *)
(* is only logged, so handing over is all the model records.              *)
LearnedTriples ==
    {<<pid, k, p>> \in Pids \X FKeys \X Procs :
        /\ pid \in DOMAIN groups
        /\ k \in DOMAIN groups[pid].learn
        /\ p \in groups[pid].learn[k]}

\* the learned rules shipped without resetting them
reportLearningRulesNoReset ==
    /\ LoopIdle
    /\ LearnedTriples # {}
    /\ shipped' = shipped \cup LearnedTriples
    /\ UNCHANGED <<life, content, armed, hash, fanMode, fanRules, pendingEv,
                   fileEvents, batch, groups, swPending, updPending, clock,
                   wrote, opened, bornAt, left, unreported>>

reportLearningRules ==
    /\ LoopIdle
    /\ LearnedTriples # {}
    /\ groups' = [pid \in DOMAIN groups |->
                    [groups[pid] EXCEPT !.learn = EmptyMap]]
    /\ shipped' = shipped \cup LearnedTriples
    /\ UNCHANGED <<life, content, armed, hash, fanMode, fanRules, pendingEv,
                   fileEvents, batch, swPending, updPending, clock, wrote, opened, bornAt, left, unreported>>

(* getCoreFile and addCoreFile: the walker lists the container's files    *)
(* that exist and that some filter matches, and each is armed in both     *)
(* drivers.  A walk that times out or fails lists nothing.                *)
CoreTargets(pid) ==
    {<<pid, f>> : f \in {f \in Files : /\ content[<<pid, f>>] # Absent
                                     /\ \E k \in FKeys : filterPathMatch(f, k)}}

-----------------------------------------------------------------------------
(* StartWatch, first part: the pid check, the mode defaults, the walk of  *)
(* the container's filesystem (getCoreFile; the walker may time out and   *)
(* yield nothing), fanotifier.SetMode, addCoreFile and StartMonitor.  A   *)
(* path already in the drivers keeps its FileInfoExt; a new one starts    *)
(* with a zero hash.                                                       *)
StartWatchArm(pid, mode0, rule) ==
    LET mode == IF mode0 = Unset THEN Learn ELSE mode0
        perm == mode = Enforce /\ ~Aufs /\ CapBlock
        access == ~perm /\ pid \notin NVPids /\ mode = Learn
    IN /\ life[pid] = "running"
       /\ swPending[pid] = SwIdle
       /\ \E walked \in BOOLEAN :
            LET targets == IF walked THEN CoreTargets(pid) ELSE {}
            IN /\ armed' = armed \cup targets
               /\ hash' = [p \in Paths |->
                             IF p \in targets \ armed THEN Zero ELSE hash[p]]
       /\ fanMode' = [fanMode EXCEPT ![pid] = [access |-> access, perm |-> perm]]
       /\ swPending' = [swPending EXCEPT ![pid] =
                          [phase |-> "arm", mode |-> mode, rule |-> rule]]
       /\ UNCHANGED <<life, content, fanRules, pendingEv, fileEvents, batch,
                      groups, updPending, clock, shipped, wrote, opened, bornAt, left, unreported>>

(* StartWatch, under the lock: create the group on first sight (startAt = *)
(* now) and set its mode.  Host and agent containers get no access rules.  *)
StartWatchRegister(pid) ==
    LET sw == swPending[pid]
        g0 == [nv |-> pid \in NVPids, mode |-> sw.mode, startAt |-> clock,
               apply |-> EmptyMap, learn |-> EmptyMap]
    IN /\ sw.phase = "arm"
       /\ groups' = IF pid \in DOMAIN groups
                    THEN [groups EXCEPT ![pid].mode = sw.mode]
                    ELSE Put(groups, pid, g0)
       /\ swPending' = [swPending EXCEPT ![pid] =
                          IF pid \notin NVPids /\ sw.rule # NoRule
                          THEN [phase |-> "rules", rule |-> sw.rule]
                          ELSE SwIdle]
       /\ UNCHANGED <<life, content, armed, hash, fanMode, fanRules, pendingEv,
                      fileEvents, batch, updPending, clock, shipped, wrote, opened, bornAt, left, unreported>>

(* UpdateAccessRules, under the lock: the group's applyRules become the   *)
(* CustomerAdd entries of the conf; the driver is told after the unlock.  *)
UpdateAccessRulesLocked(pid, conf) ==
    /\ pid \in DOMAIN groups
    /\ groups' = [groups EXCEPT ![pid].apply = conf]
    /\ updPending' = updPending \cup {<<pid, conf>>}

UpdateAccessRules(pid, conf) ==
    /\ UpdateAccessRulesLocked(pid, conf)
    /\ UNCHANGED <<life, content, armed, hash, fanMode, fanRules, pendingEv,
                   fileEvents, batch, swPending, clock, shipped, wrote, opened, bornAt, left, unreported>>

(* StartWatch, last part: UpdateAccessRules with conf.Rule.  The group may *)
(* have left in between, and then UpdateAccessRules returns early.         *)
StartWatchRules(pid) ==
    /\ swPending[pid].phase = "rules"
    /\ swPending' = [swPending EXCEPT ![pid] = SwIdle]
    /\ IF pid \in DOMAIN groups
       THEN UpdateAccessRulesLocked(pid, swPending[pid].rule)
       ELSE UNCHANGED <<groups, updPending>>
    /\ UNCHANGED <<life, content, armed, hash, fanMode, fanRules, pendingEv,
                   fileEvents, batch, clock, shipped, wrote, opened, bornAt, left, unreported>>

(* UpdateAccessRules, after the unlock: fanotifier.UpdateAccessRule.       *)
FanUpdateAccessRule(pid, conf) ==
    /\ <<pid, conf>> \in updPending
    /\ updPending' = updPending \ {<<pid, conf>>}
    /\ fanRules' = [fanRules EXCEPT ![pid] = conf]
    /\ UNCHANGED <<life, content, armed, hash, fanMode, pendingEv, fileEvents,
                   batch, groups, swPending, clock, shipped, wrote, opened, bornAt, left, unreported>>

(* ContainerCleanup: both drivers drop the container's marks and rules,   *)
(* its pending events are deleted, and the group is deleted (bLeave) or   *)
(* has its learned and applied rules reset (profile reload).              *)
ContainerCleanup(pid, bLeave) ==
    /\ IF bLeave THEN life[pid] = "exited" ELSE life[pid] = "running"
    /\ armed' = {p \in armed : p[1] # pid}
    /\ fanRules' = [fanRules EXCEPT ![pid] = NoRule]
    /\ fanMode' = [fanMode EXCEPT ![pid] = [access |-> FALSE, perm |-> FALSE]]
    /\ fileEvents' = [p \in {q \in DOMAIN fileEvents : q[1] # pid} |->
                        fileEvents[p]]
    /\ groups' = IF pid \notin DOMAIN groups THEN groups
                 ELSE IF bLeave THEN Drop(groups, pid)
                 ELSE [groups EXCEPT ![pid].learn = EmptyMap,
                                     ![pid].apply = EmptyMap]
    /\ left' = IF bLeave THEN left \cup {pid} ELSE left
    /\ UNCHANGED <<life, content, hash, pendingEv, batch, swPending,
                   updPending, clock, shipped, wrote, opened, bornAt, unreported>>

-----------------------------------------------------------------------------
(* The kernel and the drivers (not in this source; from their contract).  *)
(* Permission path: with perm set, an open of a path that a filter of the *)
(* driver's rules matches is denied unless the process is in that rule;   *)
(* without rules it fails open.                                           *)
Denies(pid, f, p) ==
    /\ fanMode[pid].perm
    /\ fanRules[pid] # NoRule
    /\ \E k \in DOMAIN fanRules[pid] :
          filterPathMatch(f, k) /\ p \notin fanRules[pid][k]

FanEvent(path, p, deny) ==
    [drv |-> "fan", path |-> path, masks |-> <<{"ACCESS"}>>,
     pInfo |-> [proc |-> p, deny |-> deny]]
InoEvent(path, masks) ==
    [drv |-> "ino", path |-> path, masks |-> masks, pInfo |-> NoProc]

\* the kernel queues are bounded: a process blocks while they are full
QueueRoom == Cardinality(pendingEv) < MaxPending

(* A process of the container opens a file to read or to write.  fanotify *)
(* reports the open (FAN_OPEN, as IN_ACCESS) with the process when the    *)
(* group has access set, and a denied open with Deny; inotify reports a   *)
(* completed write (IN_MODIFY|IN_CLOSE_WRITE) without a process.           *)
OpenFile(pid, f, p, write) ==
    LET path == <<pid, f>>
        marked == path \in armed
        denied == marked /\ Denies(pid, f, p)
        done == write /\ ~denied
        fan == IF marked /\ (denied \/ fanMode[pid].access)
               THEN {FanEvent(path, p, denied)} ELSE {}
        ino == IF marked /\ done /\ pid \notin NVPids
               THEN {InoEvent(path, <<WriteMask>>)} ELSE {}
    IN /\ life[pid] = "running"
       /\ QueueRoom
       /\ content[path] # Absent
       /\ write => content[path] < MaxVer
       /\ fan \cup ino # {} \/ done
       /\ content' = IF done THEN [content EXCEPT ![path] = @ + 1]
                     ELSE content
       /\ pendingEv' = pendingEv \cup fan \cup ino
       /\ wrote' = IF done THEN wrote \cup {<<pid, f, p>>} ELSE wrote
       /\ unreported' = IF ino # {} THEN unreported \cup {path} ELSE unreported
       /\ opened' = opened \cup {<<pid, f, p>>}
       /\ UNCHANGED <<life, armed, hash, fanMode, fanRules, fileEvents, batch,
                      groups, swPending, updPending, clock, shipped, bornAt, left>>

(* chmod: IN_ATTRIB.  unlink: IN_DELETE_SELF, then IN_IGNORED.            *)
ChangeAttr(pid, f) ==
    LET path == <<pid, f>>
    IN /\ life[pid] = "running"
       /\ QueueRoom
       /\ content[path] # Absent
       /\ path \in armed /\ pid \notin NVPids
       /\ pendingEv' = pendingEv \cup {InoEvent(path, <<{"ATTRIB"}>>)}
       /\ UNCHANGED <<life, content, armed, hash, fanMode, fanRules,
                      fileEvents, batch, groups, swPending, updPending, clock,
                      shipped, wrote, opened, bornAt, left, unreported>>

RemoveFile(pid, f) ==
    LET path == <<pid, f>>
    IN /\ life[pid] = "running"
       /\ QueueRoom
       /\ content[path] # Absent
       /\ content' = [content EXCEPT ![path] = Absent]
       /\ pendingEv' = pendingEv \cup
            IF path \in armed /\ pid \notin NVPids
            THEN {InoEvent(path, <<{"DELETE_SELF"}, {"IGNORED"}>>)}
            ELSE {}
       /\ UNCHANGED <<life, armed, hash, fanMode, fanRules, fileEvents, batch,
                      groups, swPending, updPending, clock, shipped, wrote, opened, bornAt, left, unreported>>

(* A driver reader delivers an event to cbNotify, or drops it when the    *)
(* path has left its table.  Between the two drivers there is no order.   *)
DeliverEvent(e) ==
    LET st == NotifyAll([fan |-> armed, ino |-> armed,
                         fileEvents |-> fileEvents],
                        e.path, e.masks, e.pInfo, e.path)
    IN /\ e \in pendingEv
       /\ pendingEv' = pendingEv \ {e}
       /\ IF e.path \in armed
          THEN /\ armed' = st.ino
               /\ fileEvents' = st.fileEvents
          ELSE UNCHANGED <<armed, fileEvents>>
       /\ UNCHANGED <<life, content, hash, fanMode, fanRules, batch, groups,
                      swPending, updPending, clock, shipped, wrote, opened, bornAt, left, unreported>>

(* Container lifecycle and time. *)
ContainerStart(pid) ==
    /\ life[pid] = "new"
    /\ life' = [life EXCEPT ![pid] = "running"]
    /\ bornAt' = [bornAt EXCEPT ![pid] = clock]
    /\ UNCHANGED <<content, armed, hash, fanMode, fanRules, pendingEv,
                   fileEvents, batch, groups, swPending, updPending, clock,
                   shipped, wrote, opened, left, unreported>>

ContainerExit(pid) ==
    /\ life[pid] = "running"
    /\ life' = [life EXCEPT ![pid] = "exited"]
    /\ UNCHANGED <<content, armed, hash, fanMode, fanRules, pendingEv,
                   fileEvents, batch, groups, swPending, updPending, clock,
                   shipped, wrote, opened, bornAt, left, unreported>>

Tick ==
    /\ clock < MaxClock
    /\ clock' = clock + 1
    /\ UNCHANGED <<life, content, armed, hash, fanMode, fanRules, pendingEv,
                   fileEvents, batch, groups, swPending, updPending, shipped, wrote, opened, bornAt, left, unreported>>

-----------------------------------------------------------------------------
Init ==
    /\ life = [pid \in Pids |-> "new"]
    /\ content = [p \in Paths |-> 1]
    /\ armed = {}
    /\ hash = [p \in Paths |-> Zero]
    /\ fanMode = [pid \in Pids |-> [access |-> FALSE, perm |-> FALSE]]
    /\ fanRules = [pid \in Pids |-> NoRule]
    /\ pendingEv = {}
    /\ fileEvents = EmptyMap
    /\ batch = EmptyMap
    /\ groups = EmptyMap
    /\ swPending = [pid \in Pids |-> SwIdle]
    /\ updPending = {}
    /\ clock = 0
    /\ shipped = {}
    /\ wrote = {}
    /\ opened = {}
    /\ bornAt = [pid \in Pids |-> 0]
    /\ left = {}
    /\ unreported = {}

Next ==
    \/ HandleWatchedFiles
    \/ \E path \in DOMAIN batch : HandleWatchedFile(path)
    \/ reportLearningRules
    \/ \E pid \in Pids, mode \in StartModes, rule \in Confs \cup {NoRule} :
          StartWatchArm(pid, mode, rule)
    \/ \E pid \in Pids : StartWatchRegister(pid) \/ StartWatchRules(pid)
    \/ \E pid \in Pids, conf \in Confs : UpdateAccessRules(pid, conf)
    \/ \E pid \in Pids, conf \in Confs : FanUpdateAccessRule(pid, conf)
    \/ \E pid \in Pids, bLeave \in CleanupModes : ContainerCleanup(pid, bLeave)
    \/ \E pid \in Pids, f \in Files, p \in Procs, write \in BOOLEAN :
          /\ (IF write THEN "write" ELSE "read") \in KernelOps
          /\ OpenFile(pid, f, p, write)
    \/ \E pid \in Pids, f \in Files :
          \/ "chmod" \in KernelOps /\ ChangeAttr(pid, f)
          \/ "unlink" \in KernelOps /\ RemoveFile(pid, f)
    \/ \E e \in pendingEv : DeliverEvent(e)
    \/ \E pid \in Pids : ContainerStart(pid) \/ ContainerExit(pid)
    \/ Tick

(* Both tickers of the loop keep firing; the drivers' readers and the     *)
(* callers of StartWatch and UpdateAccessRules run to completion.  The    *)
(* learn ticker competes with the message ticker in one select, so it     *)
(* needs strong fairness.                                                  *)
Fairness ==
    /\ WF_vars(HandleWatchedFiles)
    /\ WF_vars(\E path \in DOMAIN batch : HandleWatchedFile(path))
    /\ SF_vars(reportLearningRules)
    /\ WF_vars(\E e \in pendingEv : DeliverEvent(e))
    /\ \A pid \in Pids : WF_vars(StartWatchRegister(pid) \/ StartWatchRules(pid))
    /\ \A pid \in Pids, conf \in Confs : WF_vars(FanUpdateAccessRule(pid, conf))

Spec == Init /\ [][Next]_vars /\ Fairness

-----------------------------------------------------------------------------
(***************************************************************************)
(* Properties.                                                             *)
(***************************************************************************)

\* the entries a step of the loop takes out of the swapped map
Processed == DOMAIN batch \ DOMAIN batch'

\* the messages a step sends, one set per processed entry
SentNow == UNION {{SentBy(path)[i] : i \in DOMAIN SentBy(path)} : path \in Processed}

RuntimeFileGrace ==
    [][\A m \in SentNow :
          isRunTimeAddedFile(m.file) => clock - bornAt[m.pid] >= Grace]_vars

LearnApplyDisjoint ==
    \A pid \in DOMAIN groups :
        \A k \in DOMAIN groups[pid].learn \cap DOMAIN groups[pid].apply :
            groups[pid].learn[k] \cap groups[pid].apply[k] = {}

(* Section 8.3 of the specification: after ContainerCleanup(rootPid,    *)
(* TRUE), no entry for the container remains in groups, in fileEvents or  *)
(* in a driver's table.  UpdateAccessRules hands its rules to fanotify    *)
(* after the unlock, and StartWatch registers its group after arming, so  *)
(* a call in flight when the container leaves puts the entry back.        *)
CleanupLeavesNoTrace ==
    \A pid \in left :
        /\ pid \notin DOMAIN groups
        /\ fanRules[pid] = NoRule
        /\ \A path \in armed \cup DOMAIN fileEvents : path[1] # pid

(* Scenario E1 of the specification: a "File was modified" report names   *)
(* the process that wrote the file.  The code reports every process of   *)
(* the window's merged pInfo, readers included, with the window's merged *)
(* mask.                                                                 *)
ModifiedNamesWriter ==
    [][\A m \in SentNow :
          m.event = "Modified" /\ m.proc # "none"
            => <<m.pid, m.file, m.proc>> \in wrote]_vars

(* Scenario E1 of the specification: a completed write to a monitored     *)
(* file is reported as "File was modified." within the next windows, as  *)
(* long as the container runs and the file exists.  The write's          *)
(* IN_MODIFY must survive the merge into the window, the swap, the       *)
(* classification against the stored hash, and the group lookup of       *)
(* learnFromEvents.                                                       *)
WriteReported ==
    \A path \in Paths :
        path \in unreported ~>
            \/ path \notin unreported
            \/ life[path[1]] # "running"
            \/ content[path] = Absent

(* Refinement of the learning engine (spec.md 4.7, module LearnedRules):  *)
(* an access observed the triples of every customer filter that matches  *)
(* the opened file; learnRules of all groups are the learned triples.     *)
(* Every step of FileWatch is a step of LearnedRules or leaves its state  *)
(* alone: learnFromEvents learns only observed triples, reportLearningRules *)
(* ships all of them and resets, ContainerCleanup forgets one container's, *)
(* and what is learned is shipped unless forgotten first.                 *)
Seen ==
    {<<pid, k, p>> \in Pids \X CustomerKeys \X Procs :
        \E f \in Match[k] : <<pid, f, p>> \in opened}

LR == INSTANCE LearnedRules
        WITH Keys <- CustomerKeys, seen <- Seen, learned <- LearnedTriples

LearnedRulesRefined == LR!Spec
=============================================================================
