------------------------------- MODULE Updater -------------------------------
(***************************************************************************)
(* `fly update` (cmd_update of src/main.rs and src/update.rs).  A process  *)
(* asks for the latest release, decides, downloads the archive, verifies   *)
(* its signature and replaces the installed binaries one after another:    *)
(* fs::write of .<name>.new, chmod, rename to <name>.  Several processes   *)
(* may run at the same time, and each may be killed between two system     *)
(* calls.  A file has one link only, so an open file is known by the place *)
(* it is at: rename moves it, and detaches what was at the target.         *)
(***************************************************************************)
EXTENDS Integers, Sequences

CONSTANTS
    Procs,          \* concurrent `fly update` processes
    Archive,        \* the binaries of an archive, in the order of its entries
    MaxRelease,     \* bound: releases published after the installed one (0)
    MaxRuns,        \* bound: runs of `fly update`
    MaxFaults,      \* bound: kills and failures of system calls
    UserWritable,   \* the user may write to the installation directory
    AllowInsecure   \* runs may be given --insecure

ASSUME ArchiveAssumption ==
    /\ Archive # <<>> /\ Archive \in Seq(STRING)
    /\ \A i, j \in DOMAIN Archive : Archive[i] = Archive[j] => i = j

ASSUME UpdaterBounds ==
    /\ MaxRelease \in Nat /\ MaxRuns \in Nat /\ MaxFaults \in Nat
    /\ UserWritable \in BOOLEAN /\ AllowInsecure \in BOOLEAN

VARIABLES
    latest,   \* the release the API names
    disk,     \* what is at each place of the installation directory
    pc,       \* where each process is
    flags,    \* its command line
    root,     \* it runs under sudo
    current,  \* the version compiled into it
    rel,      \* the release it was told
    genuine,  \* the archive it downloaded has a valid signature
    got,      \* the number of entries extract_binaries finds in it
    k,        \* the entry of the archive it is installing
    fd,       \* the place of the file it has open for writing
    outcome,  \* what its last run reported
    concurrent, \* history: two runs were under way at the same time
    runs, faults

procVars == <<pc, flags, root, current, rel, genuine, got, k, fd, outcome>>
vars     == <<latest, disk, procVars, concurrent, runs, faults>>

Fly       == Archive[1]                       \* the archive starts with fly itself
Binaries  == {Archive[i] : i \in DOMAIN Archive}
Versions  == 0..MaxRelease
Places    == {"bin", "new"} \X Binaries      \* <name> and .<name>.new
Closed    == <<"closed", Fly>>                \* no open file
Detached  == <<"detached", Fly>>              \* an open file without a name
\* A file: its release, whether it is, to its last byte, what the key signed,
\* whether it was written by a run with --insecure, whether it is complete.
Content   == [ver : Versions, genuine : BOOLEAN, insecure : BOOLEAN, whole : BOOLEAN]
Absent    == [ver |-> -1, genuine |-> FALSE, insecure |-> FALSE, whole |-> FALSE]   \* no file
Flags     == {f \in [force : BOOLEAN, check : BOOLEAN, insecure : BOOLEAN] : f.insecure => AllowInsecure}
New(p)    == <<"new", Archive[k[p]]>>
Target(p) == <<"bin", Archive[k[p]]>>
Data(p)   == [ver |-> rel[p], genuine |-> genuine[p], insecure |-> flags[p].insecure, whole |-> TRUE]
Torn(c)   == [c EXCEPT !.whole = FALSE, !.genuine = FALSE]   \* cut short, or mixed with something else

\* The shapes of the state; the installed binaries are never missing.
TypeOK ==
    /\ latest \in Versions
    /\ disk \in [Places -> Content \cup {Absent}]
    /\ \A b \in Binaries : disk[<<"bin", b>>] # Absent
    /\ pc \in [Procs -> {"idle", "latest", "asset", "writable", "confirm", "download",
                         "verify", "open", "write", "chmod", "rename"}]
    /\ flags \in [Procs -> Flags] /\ root \in [Procs -> BOOLEAN]
    /\ current \in [Procs -> Versions] /\ rel \in [Procs -> Versions]
    /\ genuine \in [Procs -> BOOLEAN]
    /\ got \in [Procs -> DOMAIN Archive] /\ k \in [Procs -> DOMAIN Archive]
    /\ fd \in [Procs -> Places \cup {Closed, Detached}]
    /\ outcome \in [Procs -> {"none", "uptodate", "available", "declined", "updated", "failed", "killed"}]
    /\ concurrent \in BOOLEAN
    /\ runs \in 0..MaxRuns /\ faults \in 0..MaxFaults

\* Release 0 is installed.
Init ==
    /\ latest = 0
    /\ disk = [pl \in Places |->
                 IF pl[1] = "bin" THEN [ver |-> 0, genuine |-> TRUE, insecure |-> FALSE, whole |-> TRUE] ELSE Absent]
    /\ pc = [p \in Procs |-> "idle"]
    /\ flags = [p \in Procs |-> [force |-> FALSE, check |-> FALSE, insecure |-> FALSE]]
    /\ root = [p \in Procs |-> FALSE]
    /\ current = [p \in Procs |-> 0] /\ rel = [p \in Procs |-> 0]
    /\ genuine = [p \in Procs |-> FALSE]
    /\ got = [p \in Procs |-> Len(Archive)] /\ k = [p \in Procs |-> 1]
    /\ fd = [p \in Procs |-> Closed]
    /\ outcome = [p \in Procs |-> "none"]
    /\ concurrent = FALSE
    /\ runs = 0 /\ faults = 0

\* A release is published.
PublishRelease ==
    /\ latest < MaxRelease /\ latest' = latest + 1
    /\ UNCHANGED <<disk, procVars, runs, concurrent, faults>>

Goto(p, l) == pc' = [pc EXCEPT ![p] = l]

\* A run returns with outcome o.
Finish(p, o) == Goto(p, "idle") /\ outcome' = [outcome EXCEPT ![p] = o]

\* A user runs `fly update` with a command line.
Start(p, f) ==
    /\ pc[p] = "idle" /\ runs < MaxRuns /\ runs' = runs + 1
    /\ disk[<<"bin", Fly>>].whole
    /\ concurrent' = (concurrent \/ \E q \in Procs : pc[q] # "idle")
    /\ current' = [current EXCEPT ![p] = disk[<<"bin", Fly>>].ver]
    /\ flags' = [flags EXCEPT ![p] = f]
    /\ root' = [root EXCEPT ![p] = FALSE]
    /\ genuine' = [genuine EXCEPT ![p] = FALSE]
    /\ got' = [got EXCEPT ![p] = Len(Archive)] /\ k' = [k EXCEPT ![p] = 1]
    /\ outcome' = [outcome EXCEPT ![p] = "none"]
    /\ Goto(p, "latest")
    /\ UNCHANGED <<latest, disk, rel, fd, faults>>

\* version::string(), as a sequence of words: a release build calls itself
\* "<version> (release)".  The tag of a release is the version alone, once
\* trim_tag has taken the "v".
VersionString(v) == <<v, "(release)">>
TrimmedTag(v)    == <<v>>
is_outdated(p)   == VersionString(current[p]) # TrimmedTag(latest)

\* latest(), is_outdated and --check.
Latest(p) ==
    /\ pc[p] = "latest"
    /\ rel' = [rel EXCEPT ![p] = latest]
    /\ IF ~is_outdated(p) /\ ~flags[p].force THEN Finish(p, "uptodate")
       ELSE \/ flags[p].check /\ Finish(p, "available")
            \/ ~flags[p].check /\ Goto(p, "asset") /\ UNCHANGED outcome
    /\ UNCHANGED <<latest, disk, flags, root, current, genuine, got, k, fd, runs, concurrent, faults>>

\* asset_for: the release has an archive for this platform.
AssetFor(p) ==
    /\ pc[p] = "asset" /\ Goto(p, "writable")
    /\ UNCHANGED <<latest, disk, flags, root, current, rel, genuine, got, k, fd, outcome, runs, concurrent, faults>>

\* check_writable; if the directory is not writable, a terminal and a user
\* who is not root, the same command runs again under sudo, from the start.
CheckWritable(p) ==
    /\ pc[p] = "writable"
    /\ \/ /\ UserWritable \/ root[p]
          /\ Goto(p, "confirm") /\ UNCHANGED <<root, current>>
       \/ /\ ~UserWritable /\ ~root[p] /\ disk[<<"bin", Fly>>].whole
          /\ root' = [root EXCEPT ![p] = TRUE]
          /\ current' = [current EXCEPT ![p] = disk[<<"bin", Fly>>].ver]
          /\ Goto(p, "latest")
    /\ UNCHANGED <<latest, disk, flags, rel, genuine, got, k, fd, outcome, runs, concurrent, faults>>

\* confirm(): only "y" and "yes" go on; anything else ends the run.
Confirm(p) ==
    /\ pc[p] = "confirm"
    /\ (Goto(p, "download") /\ UNCHANGED outcome) \/ Finish(p, "declined")
    /\ UNCHANGED <<latest, disk, flags, root, current, rel, genuine, got, k, fd, runs, concurrent, faults>>

\* install(): the archive arrives, as it was signed or not, and n of its
\* entries are found in it: read_tar_header takes a tar.gz that ends early for
\* a shorter one.  One that was signed is whole.
Download(p, g, n) ==
    /\ pc[p] = "download"
    /\ g \/ ~flags[p].insecure => n = Len(Archive)
    /\ genuine' = [genuine EXCEPT ![p] = g]
    /\ got' = [got EXCEPT ![p] = n]
    /\ Goto(p, IF flags[p].insecure THEN "open" ELSE "verify")
    /\ UNCHANGED <<latest, disk, flags, root, current, rel, k, fd, outcome, runs, concurrent, faults>>

\* Faulty variant of VerifyAsset: a bad signature is reported and ignored.
VerifyAssetWarns(p) ==
    /\ pc[p] = "verify" /\ Goto(p, "open")
    /\ UNCHANGED <<latest, disk, flags, root, current, rel, genuine, got, k, fd, outcome, runs, concurrent, faults>>

\* verify_asset and extract_binaries: nothing is written before both succeed.
VerifyAsset(p) ==
    /\ pc[p] = "verify"
    /\ IF genuine[p] THEN Goto(p, "open") /\ UNCHANGED outcome ELSE Finish(p, "failed")
    /\ UNCHANGED <<latest, disk, flags, root, current, rel, genuine, got, k, fd, runs, concurrent, faults>>

\* An error of the network or of the archive (HTTP status, no such asset, no
\* signature file, a damaged archive), or no way to the directory.
GiveUp(p) ==
    /\ pc[p] \in {"latest", "asset", "download", "verify"} \/ (pc[p] = "writable" /\ ~UserWritable /\ ~root[p])
    /\ faults < MaxFaults /\ faults' = faults + 1
    /\ Finish(p, "failed")
    /\ UNCHANGED <<latest, disk, flags, root, current, rel, genuine, got, k, fd, concurrent, runs>>

\* Faulty variant of OpenNew: the target itself is written.
OpenTarget(p) ==
    /\ pc[p] = "open"
    /\ disk' = [disk EXCEPT ![Target(p)] = Torn(Data(p))]
    /\ fd' = [fd EXCEPT ![p] = Target(p)]
    /\ Goto(p, "write")
    /\ UNCHANGED <<latest, flags, root, current, rel, genuine, got, k, outcome, runs, concurrent, faults>>

\* fs::write, first half: .<name>.new is created, or truncated.
OpenNew(p) ==
    /\ pc[p] = "open"
    /\ disk' = [disk EXCEPT ![New(p)] = Torn(Data(p))]
    /\ fd' = [fd EXCEPT ![p] = New(p)]
    /\ Goto(p, "write")
    /\ UNCHANGED <<latest, flags, root, current, rel, genuine, got, k, outcome, runs, concurrent, faults>>

\* What is in a file after the data of p was written over old: the data, or
\* (over a longer file of something else) the data and a rest.
Overwrite(p, old) ==
    {Data(p)} \cup {c \in {Torn(Data(p))} : old \notin {Data(p), Torn(Data(p))}}

\* fs::write, second half: the data goes to the open file, wherever it is.
WriteNew(p) ==
    /\ pc[p] = "write"
    /\ \/ fd[p] = Detached /\ UNCHANGED disk
       \/ fd[p] # Detached /\ \E c \in Overwrite(p, disk[fd[p]]) : disk' = [disk EXCEPT ![fd[p]] = c]
    /\ fd' = [fd EXCEPT ![p] = Closed]
    /\ Goto(p, "chmod")
    /\ UNCHANGED <<latest, flags, root, current, rel, genuine, got, k, outcome, runs, concurrent, faults>>

\* The write fails part way: install() returns, .<name>.new stays.
WriteFails(p) ==
    /\ pc[p] = "write"
    /\ faults < MaxFaults /\ faults' = faults + 1
    /\ disk' = IF fd[p] = Detached THEN disk ELSE [disk EXCEPT ![fd[p]] = Torn(@)]
    /\ fd' = [fd EXCEPT ![p] = Closed]
    /\ Finish(p, "failed")
    /\ UNCHANGED <<latest, flags, root, current, rel, genuine, got, k, concurrent, runs>>

\* set_permissions fails when the file has been renamed by someone else.
Chmod(p) ==
    /\ pc[p] = "chmod"
    /\ IF disk[New(p)] = Absent THEN Finish(p, "failed") ELSE Goto(p, "rename") /\ UNCHANGED outcome
    /\ UNCHANGED <<latest, disk, flags, root, current, rel, genuine, got, k, fd, runs, concurrent, faults>>

\* Open files follow a rename of src to dst, and lose their name at dst.
FdsAfterRename(src, dst) ==
    [q \in Procs |-> IF fd[q] = src THEN dst ELSE IF fd[q] = dst THEN Detached ELSE fd[q]]

\* Faulty variant of Rename: the loop returns after the first entry.
RenameFirst(p) ==
    /\ pc[p] = "rename" /\ disk[New(p)] # Absent
    /\ disk' = [disk EXCEPT ![Target(p)] = disk[New(p)], ![New(p)] = Absent]
    /\ fd' = FdsAfterRename(New(p), Target(p))
    /\ Finish(p, "updated")
    /\ UNCHANGED <<latest, flags, root, current, rel, genuine, got, k, runs, concurrent, faults>>

\* rename to the target; then the next entry, or the end of install().
Rename(p) ==
    /\ pc[p] = "rename"
    /\ \/ /\ disk[New(p)] = Absent
          /\ Finish(p, "failed") /\ UNCHANGED <<disk, fd, k>>
       \/ /\ disk[New(p)] # Absent
          /\ disk' = [disk EXCEPT ![Target(p)] = disk[New(p)], ![New(p)] = Absent]
          /\ fd' = FdsAfterRename(New(p), Target(p))
          /\ IF k[p] = got[p]
                THEN Finish(p, "updated") /\ UNCHANGED k
                ELSE k' = [k EXCEPT ![p] = @ + 1] /\ Goto(p, "open") /\ UNCHANGED outcome
    /\ UNCHANGED <<latest, flags, root, current, rel, genuine, got, runs, concurrent, faults>>

\* Faulty variant of RenameFails: the loop goes on with the next entry.
RenameFailsGoesOn(p) ==
    /\ pc[p] = "rename" /\ k[p] < got[p]
    /\ faults < MaxFaults /\ faults' = faults + 1
    /\ disk' = [disk EXCEPT ![New(p)] = Absent]
    /\ fd' = [q \in Procs |-> IF fd[q] = New(p) THEN Detached ELSE fd[q]]
    /\ k' = [k EXCEPT ![p] = @ + 1] /\ Goto(p, "open")
    /\ UNCHANGED <<latest, flags, root, current, rel, genuine, got, outcome, concurrent, runs>>

\* rename fails: .<name>.new is removed and install() returns.
RenameFails(p) ==
    /\ pc[p] = "rename"
    /\ faults < MaxFaults /\ faults' = faults + 1
    /\ disk' = [disk EXCEPT ![New(p)] = Absent]
    /\ fd' = [q \in Procs |-> IF fd[q] = New(p) THEN Detached ELSE fd[q]]
    /\ Finish(p, "failed")
    /\ UNCHANGED <<latest, flags, root, current, rel, genuine, got, k, concurrent, runs>>

\* The process is killed between two system calls.
Kill(p) ==
    /\ pc[p] # "idle"
    /\ faults < MaxFaults /\ faults' = faults + 1
    /\ fd' = [fd EXCEPT ![p] = Closed]
    /\ Finish(p, "killed")
    /\ UNCHANGED <<latest, disk, flags, root, current, rel, genuine, got, k, concurrent, runs>>

Step(p) ==
    \/ \E f \in Flags : Start(p, f)
    \/ Latest(p) \/ AssetFor(p) \/ CheckWritable(p) \/ Confirm(p)
    \/ \E g \in BOOLEAN, n \in DOMAIN Archive : Download(p, g, n)
    \/ VerifyAsset(p) \/ GiveUp(p)
    \/ OpenNew(p) \/ WriteNew(p) \/ WriteFails(p) \/ Chmod(p)
    \/ Rename(p) \/ RenameFails(p) \/ Kill(p)

Next == PublishRelease \/ \E p \in Procs : Step(p)

Spec == Init /\ [][Next]_vars

----------------------------------------------------------------------------
(* Properties.                                                              *)

\* Whatever is killed or fails, every installed binary is a complete file:
\* install() writes beside the target and renames ("atomic replacement").
\* Two runs at the same time share the name .<name>.new and are excluded.
NeverTorn == ~concurrent => \A b \in Binaries : disk[<<"bin", b>>].whole

\* "Updated to <tag>" is said only when every binary of the archive is the
\* one of that release, after any number of earlier interrupted runs.  With
\* --insecure an archive that was cut short counts for what is left of it.
UpdatedMeansAll ==
    [][\A p \in Procs :
         ~concurrent /\ outcome[p] # "updated" /\ outcome'[p] = "updated" =>
            \A i \in DOMAIN Archive :
                i <= got[p] \/ ~flags[p].insecure => disk'[<<"bin", Archive[i]>>] = Data(p)]_vars

\* fly update --check ends with "found a new version" (and 2) only when the
\* latest release is not the one that runs, as README.md says of it.
NewVersionIsNew == \A p \in Procs : outcome[p] = "available" => rel[p] # current[p]

\* The order of the archive decides what an interrupted update leaves: no
\* binary is newer than one that comes before it, so that fly itself is
\* never older than its helpers (one run after another).
NewestFirst ==
    ~concurrent => \A i, j \in DOMAIN Archive :
        i < j => disk[<<"bin", Archive[i]>>].ver >= disk[<<"bin", Archive[j]>>].ver

\* What is installed is to its last byte what the key signed, or was written
\* by a run with --insecure: no bad signature, no file cut short by a kill and
\* none left in .<name>.new by an earlier run gets into place.  Two runs at
\* the same time are excluded, as in NeverTorn: one may put in place what the
\* other has truncated.
OnlySigned ==
    ~concurrent => \A b \in Binaries : disk[<<"bin", b>>].genuine \/ disk[<<"bin", b>>].insecure
=============================================================================
