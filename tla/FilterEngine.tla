---------------------------- MODULE FilterEngine ----------------------------
(***************************************************************************)
(* The filter engine of fsmon (monitor.go): how a profile's filters become *)
(* the targets StartWatch hands to the drivers.  getRootFs asks the walker *)
(* for the base prefix of every filter, getCoreFile runs getDirAndFileList *)
(* over Filters and then FiltersCRD, and addCoreFile moves single files    *)
(* whose directory is a target into it and arms the rest.  filterPathMatch *)
(* is the predicate learnFromEvents uses to learn under a customer filter. *)
(*                                                                         *)
(* Paths and patterns are strings, modelled as sequences of one-character  *)
(* strings; the operators below do on them what the Go string, filepath   *)
(* and regexp calls do.  A pattern is Go regexp syntax restricted to what  *)
(* fsmon's filters use: literal characters, ".", "\" escapes and "*".      *)
(***************************************************************************)
EXTENDS Integers, Sequences, SequencesExt, FiniteSets

CONSTANTS
    TreeDirs,       \* the container's directories, in the walker's order
    TreeFiles,      \* the container's files, in the walker's order
    RunTimeFiles,   \* the files isRunTimeAddedFile names (hosts, resolv.conf)
    Profiles,       \* the profiles StartWatch may be given
    Cids,           \* containers whose StartWatch calls share the walker
    Me,             \* the container whose targets the model follows
    WalkerMaxCount  \* walkerMaxCount, the weight of walkerLimiter

ASSUME Me \in Cids /\ WalkerMaxCount \in Nat \ {0}

Slash == "/"

-----------------------------------------------------------------------------
(* String helpers: the Go library calls the filter code makes.             *)

\* strings.Replace(s, "\\.", ".", -1): left to right, non-overlapping.
RECURSIVE Unescape(_)
Unescape(s) ==
    IF s = <<>> THEN <<>>
    ELSE IF Len(s) >= 2 /\ s[1] = "\\" /\ s[2] = "."
         THEN <<".">> \o Unescape(SubSeq(s, 3, Len(s)))
         ELSE <<s[1]>> \o Unescape(Tail(s))

\* strings.Index(s, t): the 0-based position of the first t in s, or -1.
IndexOf(s, t) ==
    LET at == {i \in 0 .. Len(s) - Len(t) : SubSeq(s, i + 1, i + Len(t)) = t}
    IN  IF at = {} THEN -1 ELSE Min(at)

LastSlash(p) == Max({i \in DOMAIN p : p[i] = Slash})

\* filepath.Dir and filepath.Base of a clean absolute path.
Dir(p) == IF LastSlash(p) = 1 THEN <<Slash>> ELSE SubSeq(p, 1, LastSlash(p) - 1)
Base(p) == SubSeq(p, LastSlash(p) + 1, Len(p))

\* d is p or one of p's ancestors (strings.HasPrefix(p, d + "/")).
Under(p, d) == p = d \/ IsPrefix(d \o <<Slash>>, p)

\* regexp.MatchString of "^re$" on s, for literal, ".", "\c" and "x*".
AtomMatches(atom, c) == atom = <<".">> \/ atom[Len(atom)] = c

RECURSIVE ReMatch(_, _)
ReMatch(re, s) ==
    IF re = <<>> THEN s = <<>>
    ELSE LET n    == IF re[1] = "\\" THEN 2 ELSE 1
             atom == SubSeq(re, 1, n)
             rest == SubSeq(re, n + 1, Len(re))
         IN  IF rest # <<>> /\ rest[1] = "*"
             THEN \E k \in 0 .. Len(s) :
                     /\ \A j \in 1 .. k : AtomMatches(atom, s[j])
                     /\ ReMatch(Tail(rest), SubSeq(s, k + 1, Len(s)))
             ELSE /\ s # <<>>
                  /\ AtomMatches(atom, s[1])
                  /\ ReMatch(rest, Tail(s))

-----------------------------------------------------------------------------
(* Filters.  A filter is [path, regex, recursive, block, customer]: block  *)
(* is Behavior = FileAccessBehaviorBlock, customer is CustomerAdd.         *)

\* filterIndexKey: the key "<path>/<regex>" rules are filed under.
filterIndexKey(f) == f.path \o <<Slash>> \o f.regex

\* filterPathMatch: the match learnFromEvents applies to a customer filter.
filterPathMatch(path, f) ==
    IF f.regex = <<>> THEN f.path = path
    ELSE ReMatch(Dir(path) \o <<Slash>> \o f.regex, path)

\* Mutant: the cut keeps the character before ".*" (dir[:index]).
getBaseDirPrefixAtIndex(f) ==
    LET dir   == Unescape(f.path)
        index == IndexOf(dir, <<".", "*">>)
        cut   == IF index > 0 THEN SubSeq(dir, 1, index) ELSE dir
    IN  IF f.regex = <<>> THEN Dir(cut) ELSE cut

\* getBaseDirPrefix: the directory getRootFs asks the walker for.
getBaseDirPrefix(f) ==
    LET dir   == Unescape(f.path)
        index == IndexOf(dir, <<".", "*">>)
        cut   == IF index > 0 THEN SubSeq(dir, 1, index - 1) ELSE dir
    IN  IF f.regex = <<>> THEN Dir(cut) ELSE cut

\* The FileInfoExt getDirFileList builds for path p under filter f.
Entry(p, f) ==
    [path |-> p, key |-> filterIndexKey(f), protect |-> f.block, user |-> f.customer]

EntriesOf(ps, f) == [i \in 1 .. Len(ps) |-> Entry(ps[i], f)]

\* getDirFileList: the directories and files of the walk f picks.  base is
\* the unescaped path, not the base prefix.
DirKept(f, d) ==
    LET base == Unescape(f.path)
    IN  /\ Under(d, base)
        /\ f.recursive \/ Len(d) <= Len(base)

FileKept(f, fl) ==
    LET base == Unescape(f.path)
    IN  \/ fl = base
        \/ /\ IsPrefix(base \o <<Slash>>, fl)
           /\ ReMatch(Dir(fl) \o <<Slash>> \o f.regex, fl)
           /\ f.recursive \/ Dir(fl) = base

getDirFileList(res, f) ==
    LET dirs  == {d \in ToSet(res.dirs) : DirKept(f, d)}
        files == SelectSeq(res.files, LAMBDA fl : FileKept(f, fl))
    IN  [dirs    |-> [d \in dirs |->
                        [entry    |-> Entry(d, f),
                         children |-> EntriesOf(SelectSeq(files, LAMBDA fl : Dir(fl) = d), f)]],
         singles |-> EntriesOf(SelectSeq(files, LAMBDA fl : Dir(fl) \notin dirs), f)]

\* getDirAndFileList: a directory already listed by an earlier filter keeps
\* its FileInfoExt and gets this filter's children appended.
getDirAndFileList(res, f, acc) ==
    LET r    == getDirFileList(res, f)
        more(d) == IF d \in DOMAIN r.dirs THEN r.dirs[d].children ELSE <<>>
    IN  [dirList |-> [d \in DOMAIN acc.dirList \cup DOMAIN r.dirs |->
                        IF d \in DOMAIN acc.dirList
                        THEN [acc.dirList[d] EXCEPT !.children = @ \o more(d)]
                        ELSE r.dirs[d]],
         singles |-> acc.singles \o r.singles]

\* The filters of a profile in the order getRootFs and getCoreFile visit them.
ProfileFilters(prof) == prof.filters \o prof.crd

\* getRootFs: the set of base prefixes the walker is asked to enumerate.
RootFsDirs(prof) == {getBaseDirPrefix(ProfileFilters(prof)[i]) : i \in 1 .. Len(ProfileFilters(prof))}

\* The walker task (workerlet, not in this source): the directories and
\* files of the container under one of the requested directories.
Walk(dirs) ==
    [dirs  |-> SelectSeq(TreeDirs, LAMBDA d : \E b \in dirs : Under(d, b)),
     files |-> SelectSeq(TreeFiles, LAMBDA fl : \E b \in dirs : Under(fl, b))]

NoTargets == [dirList |-> [d \in {} |-> {}], singles |-> <<>>]

\* getCoreFile with a walk result: Filters, then FiltersCRD.
CoreFiles(res, prof) ==
    FoldLeft(LAMBDA acc, f : getDirAndFileList(res, f, acc), NoTargets, ProfileFilters(prof))

\* addCoreFile, first loop: a single file whose directory is a target, and
\* which is not a runtime file, joins that directory under its filter.
MovesToDir(dl, e) == Dir(e.path) \in DOMAIN dl /\ e.path \notin RunTimeFiles

\* The children of d once the singles have been moved in, in order.
ChildrenAfterMove(dl, singles, d) ==
    LET moved == SelectSeq(singles, LAMBDA e : MovesToDir(dl, e) /\ Dir(e.path) = d)
    IN  dl[d].children \o [i \in 1 .. Len(moved) |-> [moved[i] EXCEPT !.key = dl[d].entry.key]]

\* addDir's files map: keyed by base name, so the last child of a name wins.
FilesMap(ch) == {ch[i] : i \in {j \in 1 .. Len(ch) :
                    ~\E k \in j + 1 .. Len(ch) : ch[k].path = ch[j].path}}

-----------------------------------------------------------------------------
(* StartWatch's arming of one container: getCoreFile, then addCoreFile.    *)

VARIABLES
    profile,      \* conf.Profile of Me
    pc,           \* Me: "walk" (in getRootFs), "add" (getCoreFile returned) or "done"
    walked,       \* Me's getRootFs returned a result, not nil
    dirList,      \* Me's getCoreFile's dirList: path -> [entry, children]
    singleFiles,  \* Me's getCoreFile's singleFiles
    fileMarks,    \* the FileInfoExts addFile hands to the drivers
    dirMarks,     \* [entry, files] for every addDir call
    walker,       \* per container: "idle", "queued", "walking" or "done"
    held,         \* the weight walkerLimiter has handed out
    waiters       \* walkerLimiter's waiters, oldest first

vars == <<profile, pc, walked, dirList, singleFiles, fileMarks, dirMarks,
          walker, held, waiters>>

Init ==
    /\ profile \in Profiles
    /\ pc = "walk"
    /\ walked = FALSE
    /\ dirList = NoTargets.dirList
    /\ singleFiles = <<>>
    /\ fileMarks = {}
    /\ dirMarks = {}
    /\ walker = [c \in Cids |-> "idle"]
    /\ held = 0
    /\ waiters = <<>>

\* getRootFs, walkerLimiter.Acquire(context.Background(), 1): a free unit
\* is taken when nobody waits, else the caller queues.  The context never
\* ends, so Acquire does not fail.  Another container calls StartWatch
\* again, for a new profile, after its previous walk.
Acquire(c) ==
    /\ walker[c] \in IF c = Me THEN {"idle"} ELSE {"idle", "done"}
    /\ IF held < WalkerMaxCount /\ waiters = <<>>
       THEN /\ held' = held + 1
            /\ walker' = [walker EXCEPT ![c] = "walking"]
            /\ UNCHANGED waiters
       ELSE /\ waiters' = Append(waiters, c)
            /\ walker' = [walker EXCEPT ![c] = "queued"]
            /\ UNCHANGED held
    /\ UNCHANGED <<profile, pc, walked, dirList, singleFiles, fileMarks, dirMarks>>

\* The deferred walkerLimiter.Release(1): the unit goes to the oldest
\* waiter if there is one.
Release(c) ==
    IF waiters # <<>>
    THEN /\ walker' = [walker EXCEPT ![c] = "done", ![Head(waiters)] = "walking"]
         /\ waiters' = Tail(waiters)
         /\ UNCHANGED held
    ELSE /\ walker' = [walker EXCEPT ![c] = "done"]
         /\ held' = held - 1
         /\ UNCHANGED waiters

\* Mutant: Release only on the path that returns the walk.
ReleaseOnSuccess(c, ok) ==
    IF ok THEN Release(c)
    ELSE UNCHANGED <<held, waiters>> /\ walker' = [walker EXCEPT ![c] = "done"]

\* The walk ends: RunWithTimeout returns within its 16 s timeout, with the
\* result or an error (timeout, walker failure, bad JSON).
WalkEnds(c, ok) == Release(c)

\* getCoreFile: getRootFs returns the walk, or nil after an error, and
\* then there are no targets.  For Me, the targets are computed.
getCoreFile(c) ==
    /\ walker[c] = "walking"
    /\ \E ok \in BOOLEAN :
          /\ WalkEnds(c, ok)
          /\ IF c = Me
             THEN /\ walked' = ok
                  /\ IF ok
                     THEN LET core == CoreFiles(Walk(RootFsDirs(profile)), profile)
                          IN  /\ dirList' = core.dirList
                              /\ singleFiles' = core.singles
                     ELSE UNCHANGED <<dirList, singleFiles>>
                  /\ pc' = "add"
             ELSE UNCHANGED <<walked, dirList, singleFiles, pc>>
    /\ UNCHANGED <<profile, fileMarks, dirMarks>>

\* addCoreFile: singles are moved into their directory or armed with
\* addFile; then every directory is armed with addDir and its files map.
addCoreFile ==
    /\ pc = "add"
    /\ fileMarks' = {singleFiles[i] : i \in {j \in 1 .. Len(singleFiles) :
                                             ~MovesToDir(dirList, singleFiles[j])}}
    /\ dirMarks' = {[entry |-> dirList[d].entry,
                     files |-> FilesMap(ChildrenAfterMove(dirList, singleFiles, d))] :
                    d \in DOMAIN dirList}
    /\ pc' = "done"
    /\ UNCHANGED <<profile, walked, dirList, singleFiles, walker, held, waiters>>

Next == (\E c \in Cids : Acquire(c) \/ getCoreFile(c)) \/ addCoreFile

\* Me's StartWatch has begun, so its steps are taken; every walk ends
\* within RunWithTimeout's timeout.  Other containers need not call again.
Fairness ==
    /\ WF_vars(Acquire(Me))
    /\ \A c \in Cids : WF_vars(getCoreFile(c))
    /\ WF_vars(addCoreFile)

Spec == Init /\ [][Next]_vars /\ Fairness

-----------------------------------------------------------------------------
(* Reference.  What a filter denotes (spec section 2 and 4.2): its key      *)
(* "<path>/<regex>" read as an anchored pattern, the path part matching    *)
(* the file's directory, or for a recursive filter one of its ancestors,   *)
(* and the regex its base name.  An empty regex names the path itself.     *)

DirsAbove(p) == {SubSeq(p, 1, i - 1) : i \in {j \in 2 .. Len(p) : p[j] = Slash}}

Covers(f, p) ==
    IF f.regex = <<>> THEN ReMatch(f.path, p)
    ELSE /\ ReMatch(f.regex, Base(p))
         /\ \E d \in IF f.recursive THEN DirsAbove(p) ELSE {Dir(p)} : ReMatch(f.path, d)

PF == ProfileFilters(profile)

Marks == fileMarks \cup UNION {m.files : m \in dirMarks}

MarkedPaths == {e.path : e \in Marks}

-----------------------------------------------------------------------------
(* Properties.                                                             *)

\* getRootFs asks the walker for enough: every file of the container that a
\* filter of the profile denotes is under one of the base prefixes
\* getBaseDirPrefix derives, so a successful walk returns it.
WalkReachesCovered ==
    \A i \in 1 .. Len(PF), fl \in ToSet(TreeFiles) :
        Covers(PF[i], fl) => fl \in ToSet(Walk(RootFsDirs(profile)).files)

CoveredArmed ==
    (pc = "done" /\ walked) =>
        \A i \in 1 .. Len(PF), fl \in ToSet(TreeFiles) :
            Covers(PF[i], fl) => fl \in MarkedPaths

\* A file a Block filter denotes is handed to the drivers with Protect set
\* at least once, whatever other filters also list it (spec 2: protect
\* mirrors behavior = Block).
BlockedFileProtected ==
    pc = "done" =>
        \A e \in Marks :
            (\E i \in 1 .. Len(PF) : PF[i].block /\ Covers(PF[i], e.path))
                => \E m \in Marks : m.path = e.path /\ m.protect

\* StartWatch of Me gets past getCoreFile and arms its targets, however
\* often other containers walk and whether their walks time out: the
\* deferred Release hands the walker's unit back on every path out of
\* getRootFs, and walkerLimiter serves its waiters in order.
StartWatchArms == pc = "walk" ~> pc = "done"

\* learnFromEvents learns a process under a customer filter only for a path
\* that filter denotes (spec 4.7: filters whose match predicate accepts the
\* path), for every armed path an event can carry.
LearnMatchWithinFilter ==
    pc = "done" =>
        \A i \in 1 .. Len(PF), p \in MarkedPaths :
            (PF[i].customer /\ filterPathMatch(p, PF[i])) => Covers(PF[i], p)

=============================================================================
