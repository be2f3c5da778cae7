---------------------------- MODULE UpdaterProofs ----------------------------
(***************************************************************************)
(* Theorems about `fly update`, for every archive, any number of processes,*)
(* releases, runs and failures.                                            *)
(***************************************************************************)
EXTENDS Updater, TLAPS

Installing(p) == pc[p] \in {"open", "write", "chmod", "rename"}
Decided(p)    == pc[p] \in {"asset", "writable", "confirm", "download", "verify"} \/ Installing(p)
Bin(i)        == <<"bin", Archive[i]>>

\* A file is open exactly between the two halves of fs::write.
OpenFiles == \A p \in Procs : pc[p] = "write" <=> fd[p] # Closed

\* What an installing process writes was signed and is the whole archive, or it
\* runs with --insecure; what is being verified has arrived in full.
Signed ==
    \A p \in Procs :
       /\ Installing(p) => flags[p].insecure \/ (genuine[p] /\ got[p] = Len(Archive))
       /\ pc[p] = "verify" => got[p] = Len(Archive)

\* The entry that is installed is one of those that arrived, the first at first.
Entries ==
    \A p \in Procs :
       /\ k[p] <= got[p]
       /\ pc[p] # "idle" /\ ~Installing(p) => k[p] = 1

\* A complete file, signed or written on demand.
Sound(c) == c.whole /\ (c.genuine \/ c.insecure)

\* Nothing comes from a release that is not published yet.
Published ==
    /\ \A p \in Procs : rel[p] <= latest
    /\ \A pl \in Places : disk[pl].ver <= latest

\* One run at a time.
Alone == \A p, q \in Procs : pc[p] # "idle" /\ pc[q] # "idle" => p = q

\* A run alone: it will not go back to an older release, it has replaced the
\* binaries before the one it is at, and its .<name>.new is the file it writes.
Progress(p) ==
    /\ Decided(p) => \A b \in Binaries : disk[<<"bin", b>>].ver <= rel[p]
    /\ Installing(p) => \A i \in 1..Len(Archive) : i < k[p] => disk[Bin(i)] = Data(p)
    /\ pc[p] = "write" => fd[p] = New(p) /\ disk[New(p)] = Torn(Data(p))
    /\ pc[p] \in {"chmod", "rename"} => disk[New(p)] = Data(p)

Sequential ==
    ~concurrent => /\ Alone
                   /\ \A b \in Binaries : Sound(disk[<<"bin", b>>])
                   /\ \A i, j \in 1..Len(Archive) : i < j => disk[Bin(i)].ver >= disk[Bin(j)].ver
                   /\ \A p \in Procs : Progress(p)

UpdaterInv == TypeOK /\ OpenFiles /\ Signed /\ Entries /\ Published /\ Sequential

----------------------------------------------------------------------------
\* The archive is a sequence of distinct names.
LEMMA ArchiveFacts ==
    /\ Len(Archive) \in Nat /\ Len(Archive) > 0 /\ DOMAIN Archive = 1..Len(Archive)
    /\ \A i \in 1..Len(Archive) : Archive[i] \in Binaries
    /\ \A i, j \in 1..Len(Archive) : Archive[i] = Archive[j] => i = j
    /\ \A b \in Binaries : \E i \in 1..Len(Archive) : b = Archive[i]
<1>1. Archive \in Seq(STRING) /\ Archive # <<>>
  BY ArchiveAssumption
<1>2. Len(Archive) \in Nat /\ Len(Archive) > 0 /\ DOMAIN Archive = 1..Len(Archive)
  BY <1>1
<1> QED BY <1>2, ArchiveAssumption DEF Binaries

\* The places of a binary and of its .<name>.new, and no open file, differ.
LEMMA PlaceFacts ==
    /\ \A b \in Binaries : <<"bin", b>> \in Places /\ <<"new", b>> \in Places
    /\ \A b, c \in Binaries : <<"bin", b>> # <<"new", c>>
    /\ \A i \in 1..Len(Archive) : Bin(i) \in Places
    /\ \A i, j \in 1..Len(Archive) : Bin(i) = Bin(j) => i = j
    /\ Closed \notin Places /\ Detached \notin Places /\ Closed # Detached
    /\ \A pl \in Places : \E b \in Binaries : pl = <<"bin", b>> \/ pl = <<"new", b>>
BY ArchiveFacts DEF Places, Bin, Closed, Detached

\* A content is a file, also when it is torn.
LEMMA ContentFacts ==
    ASSUME NEW c \in Content
    PROVE  /\ c # Absent /\ c.ver \in 0..MaxRelease /\ c.whole \in BOOLEAN
           /\ c.genuine \in BOOLEAN /\ c.insecure \in BOOLEAN
           /\ Torn(c) \in Content /\ Torn(c).ver = c.ver
<1>1. /\ c.ver \in 0..MaxRelease /\ c.whole \in BOOLEAN
      /\ c.genuine \in BOOLEAN /\ c.insecure \in BOOLEAN
  BY DEF Content, Versions
<1>2. c # Absent
  <2>1. c.ver # -1
    BY <1>1, UpdaterBounds
  <2> QED BY <2>1 DEF Absent
<1>3. Torn(c) \in Content /\ Torn(c).ver = c.ver
  BY DEF Content, Torn
<1> QED BY <1>1, <1>2, <1>3

\* The fields of "no file".
LEMMA AbsentFacts == Absent.ver = -1 /\ Torn(Absent) = Absent
<1>1. Absent.ver = -1 /\ Absent.whole = FALSE /\ Absent.genuine = FALSE
  BY DEF Absent
<1>2. Torn(Absent) = Absent
  <2>1. Absent \in [ver : Int, genuine : BOOLEAN, insecure : BOOLEAN, whole : BOOLEAN]
    BY DEF Absent
  <2> QED BY <1>1, <2>1 DEF Torn
<1> QED BY <1>1, <1>2

\* The places and the data of a process.
LEMMA ProcFacts ==
    ASSUME TypeOK, NEW p \in Procs
    PROVE  /\ k[p] \in 1..Len(Archive) /\ Archive[k[p]] \in Binaries
           /\ New(p) \in Places /\ Target(p) \in Places /\ Target(p) = Bin(k[p])
           /\ \A b \in Binaries : <<"bin", b>> # New(p)
           /\ New(p) # Closed /\ New(p) # Detached
           /\ Data(p) \in Content /\ Data(p).ver = rel[p] /\ Data(p).whole
           /\ Data(p).genuine = genuine[p] /\ Data(p).insecure = flags[p].insecure
<1>1. k[p] \in 1..Len(Archive) /\ Archive[k[p]] \in Binaries
  BY ArchiveFacts DEF TypeOK
<1>2. rel[p] \in Versions /\ genuine[p] \in BOOLEAN /\ flags[p].insecure \in BOOLEAN
  BY DEF TypeOK, Flags
<1>3. Data(p) \in Content
  BY <1>2 DEF Data, Content
<1> QED BY <1>1, <1>3, PlaceFacts DEF New, Target, Bin, Data

\* An installed binary is a file.
LEMMA BinFacts ==
    ASSUME TypeOK, NEW b \in Binaries
    PROVE  disk[<<"bin", b>>] \in Content
BY PlaceFacts DEF TypeOK

\* The initial state has the right shapes.
LEMMA InitType == Init => TypeOK
<1> SUFFICES ASSUME Init PROVE TypeOK
    OBVIOUS
<1>1. 0 \in Versions /\ latest \in Versions /\ runs \in 0..MaxRuns /\ faults \in 0..MaxFaults
  BY UpdaterBounds DEF Init, Versions
<1>2. [ver |-> 0, genuine |-> TRUE, insecure |-> FALSE, whole |-> TRUE] \in Content
  BY <1>1 DEF Content
<1>3. disk \in [Places -> Content \cup {Absent}]
  BY <1>2 DEF Init
<1>4. \A b \in Binaries : disk[<<"bin", b>>] # Absent
  BY <1>2, PlaceFacts, ContentFacts DEF Init
<1>5. flags \in [Procs -> Flags]
  BY DEF Init, Flags
<1>6. k \in [Procs -> DOMAIN Archive] /\ got \in [Procs -> DOMAIN Archive]
  BY ArchiveFacts DEF Init
<1>7. current \in [Procs -> Versions] /\ rel \in [Procs -> Versions]
  BY <1>1 DEF Init
<1>8. /\ root \in [Procs -> BOOLEAN] /\ genuine \in [Procs -> BOOLEAN]
      /\ concurrent \in BOOLEAN /\ fd \in [Procs -> Places \cup {Closed, Detached}]
  BY DEF Init
<1>9. /\ pc \in [Procs -> {"idle", "latest", "asset", "writable", "confirm", "download",
                           "verify", "open", "write", "chmod", "rename"}]
      /\ outcome \in [Procs -> {"none", "uptodate", "available", "declined", "updated", "failed", "killed"}]
  BY DEF Init
<1> QED BY <1>1, <1>3, <1>4, <1>5, <1>6, <1>7, <1>8, <1>9 DEF TypeOK

\* What a write, a failed write or a rename leaves at a place is a file, and
\* the installed binaries are never missing.
LEMMA DiskType ==
    ASSUME TypeOK, NEW pl \in Places, NEW c \in Content, disk' = [disk EXCEPT ![pl] = c]
    PROVE  /\ disk' \in [Places -> Content \cup {Absent}]
           /\ \A b \in Binaries : disk'[<<"bin", b>>] # Absent
<1>1. disk \in [Places -> Content \cup {Absent}] /\ \A b \in Binaries : disk[<<"bin", b>>] # Absent
  BY DEF TypeOK
<1> QED BY <1>1, PlaceFacts, ContentFacts

\* Removing a .<name>.new touches no binary.
LEMMA RemoveType ==
    ASSUME TypeOK, NEW p \in Procs, disk' = [disk EXCEPT ![New(p)] = Absent]
    PROVE  /\ disk' \in [Places -> Content \cup {Absent}]
           /\ \A b \in Binaries : disk'[<<"bin", b>>] = disk[<<"bin", b>>] /\ disk[<<"bin", b>>] # Absent
<1>1. disk \in [Places -> Content \cup {Absent}] /\ \A b \in Binaries : disk[<<"bin", b>>] # Absent
  BY DEF TypeOK
<1> QED BY <1>1, PlaceFacts, ProcFacts

\* Writing the data of p leaves a file of p, a complete one if p has just
\* created or truncated it.
LEMMA OverwriteFacts ==
    ASSUME TypeOK, NEW p \in Procs, NEW old, NEW c \in Overwrite(p, old)
    PROVE  /\ c \in Content /\ c.ver = rel[p]
           /\ old = Torn(Data(p)) => c = Data(p)
<1>1. Data(p) \in Content /\ Data(p).ver = rel[p]
  BY ProcFacts
<1>2. c = Data(p) \/ (c = Torn(Data(p)) /\ old # Torn(Data(p)))
  BY DEF Overwrite
<1> QED BY <1>1, <1>2, ContentFacts

\* A rename moves the file from .<name>.new to the target.
LEMMA RenameDisk ==
    ASSUME TypeOK, NEW p \in Procs,
           disk' = [disk EXCEPT ![Target(p)] = disk[New(p)], ![New(p)] = Absent]
    PROVE  /\ \A pl \in Places : disk'[pl] = IF pl = New(p) THEN Absent
                                             ELSE IF pl = Target(p) THEN disk[New(p)] ELSE disk[pl]
           /\ \A i \in 1..Len(Archive) : disk'[Bin(i)] = IF i = k[p] THEN disk[New(p)] ELSE disk[Bin(i)]
<1>1. \A pl \in Places : disk'[pl] = IF pl = New(p) THEN Absent
                                     ELSE IF pl = Target(p) THEN disk[New(p)] ELSE disk[pl]
  BY ProcFacts DEF TypeOK
<1>2. ASSUME NEW i \in 1..Len(Archive)
      PROVE  disk'[Bin(i)] = IF i = k[p] THEN disk[New(p)] ELSE disk[Bin(i)]
  <2>1. Bin(i) \in Places /\ Bin(i) # New(p) /\ (Bin(i) = Target(p) <=> i = k[p])
    BY PlaceFacts, ProcFacts, ArchiveFacts DEF Bin
  <2> QED BY <1>1, <2>1
<1> QED BY <1>1, <1>2

\* Every step of a process keeps the shapes.
LEMMA StepType ==
    ASSUME TypeOK, Entries, NEW p \in Procs, Step(p)
    PROVE  TypeOK'
<1> USE UpdaterBounds
<1>1. ASSUME NEW f \in Flags, Start(p, f) PROVE TypeOK'
  <2>1. disk[<<"bin", Fly>>].ver \in Versions
    <3>1. Fly \in Binaries
      BY ArchiveFacts DEF Fly
    <3> QED BY <3>1, BinFacts DEF Content
  <2>2. 1 \in DOMAIN Archive /\ Len(Archive) \in DOMAIN Archive
    BY ArchiveFacts
  <2>3. runs' \in 0..MaxRuns
    BY <1>1 DEF TypeOK, Start
  <2>4. concurrent' \in BOOLEAN
    BY <1>1 DEF Start
  <2> QED BY <1>1, <2>1, <2>2, <2>3, <2>4 DEF TypeOK, Start, Goto
<1>2. CASE Latest(p)
  BY <1>2 DEF TypeOK, Latest, Goto, Finish
<1>3. CASE AssetFor(p)
  BY <1>3 DEF TypeOK, AssetFor, Goto
<1>4. CASE CheckWritable(p)
  <2>1. disk[<<"bin", Fly>>].ver \in Versions
    <3>1. Fly \in Binaries
      BY ArchiveFacts DEF Fly
    <3> QED BY <3>1, BinFacts DEF Content
  <2> QED BY <1>4, <2>1 DEF TypeOK, CheckWritable, Goto
<1>5. CASE Confirm(p)
  BY <1>5 DEF TypeOK, Confirm, Goto, Finish
<1>6. ASSUME NEW g \in BOOLEAN, NEW n \in DOMAIN Archive, Download(p, g, n) PROVE TypeOK'
  BY <1>6 DEF TypeOK, Download, Goto
<1>7. CASE VerifyAsset(p)
  BY <1>7 DEF TypeOK, VerifyAsset, Goto, Finish
<1>8. CASE GiveUp(p)
  BY <1>8 DEF TypeOK, GiveUp, Goto, Finish
<1>9. CASE OpenNew(p)
  <2>1. Torn(Data(p)) \in Content /\ New(p) \in Places
    BY ProcFacts, ContentFacts
  <2>2. /\ disk' \in [Places -> Content \cup {Absent}]
        /\ \A b \in Binaries : disk'[<<"bin", b>>] # Absent
    BY <1>9, <2>1, DiskType DEF OpenNew
  <2> QED BY <1>9, <2>1, <2>2 DEF TypeOK, OpenNew, Goto
<1>10. CASE WriteNew(p)
  <2>1. \A c \in Overwrite(p, disk[fd[p]]) : c \in Content
    BY OverwriteFacts
  <2>2. /\ disk' \in [Places -> Content \cup {Absent}]
        /\ \A b \in Binaries : disk'[<<"bin", b>>] # Absent
    <3>1. CASE fd[p] \in Places /\ disk' # disk
      BY <1>10, <3>1, <2>1, DiskType DEF WriteNew
    <3>2. CASE fd[p] \notin Places \/ disk' = disk
      <4>1. disk' = disk
        BY <1>10, <3>2 DEF WriteNew, TypeOK
      <4> QED BY <4>1 DEF TypeOK
    <3> QED BY <3>1, <3>2
  <2> QED BY <1>10, <2>2 DEF TypeOK, WriteNew, Goto
<1>11. CASE WriteFails(p)
  <2>1. /\ disk' \in [Places -> Content \cup {Absent}]
        /\ \A b \in Binaries : disk'[<<"bin", b>>] # Absent
    <3>1. CASE fd[p] \in Places /\ disk[fd[p]] \in Content
      <4>1. disk' = [disk EXCEPT ![fd[p]] = Torn(disk[fd[p]])]
        BY <1>11, <3>1, PlaceFacts DEF WriteFails
      <4>2. Torn(disk[fd[p]]) \in Content
        BY <3>1, ContentFacts
      <4> QED BY <3>1, <4>1, <4>2, DiskType
    <3>2. CASE fd[p] \in Places /\ disk[fd[p]] = Absent
      <4>1. disk' = disk
        BY <1>11, <3>2, PlaceFacts, AbsentFacts DEF WriteFails, TypeOK
      <4> QED BY <4>1 DEF TypeOK
    <3>3. CASE fd[p] \notin Places
      <4>1. disk' = disk
        BY <1>11, <3>3 DEF WriteFails, TypeOK
      <4> QED BY <4>1 DEF TypeOK
    <3> QED BY <3>1, <3>2, <3>3 DEF TypeOK
  <2> QED BY <1>11, <2>1 DEF TypeOK, WriteFails, Goto, Finish
<1>12. CASE Chmod(p)
  BY <1>12 DEF TypeOK, Chmod, Goto, Finish
<1>13. CASE Rename(p)
  <2>1. CASE disk[New(p)] = Absent
    BY <1>13, <2>1 DEF TypeOK, Rename, Goto, Finish
  <2>2. CASE disk[New(p)] # Absent
    <3>1. disk[New(p)] \in Content /\ Target(p) \in Places
      BY <2>2, ProcFacts DEF TypeOK
    <3>2. disk' = [disk EXCEPT ![Target(p)] = disk[New(p)], ![New(p)] = Absent]
      BY <1>13, <2>2 DEF Rename
    <3>3. disk' \in [Places -> Content \cup {Absent}]
      BY <3>1, <3>2 DEF TypeOK
    <3>4. \A b \in Binaries : disk'[<<"bin", b>>] # Absent
      <4>0. \A pl \in Places : disk'[pl] = IF pl = New(p) THEN Absent
                                           ELSE IF pl = Target(p) THEN disk[New(p)] ELSE disk[pl]
        BY <3>2, RenameDisk
      <4>1. ASSUME NEW b \in Binaries PROVE disk'[<<"bin", b>>] # Absent
        <5>1. <<"bin", b>> \in Places /\ <<"bin", b>> # New(p) /\ disk[<<"bin", b>>] # Absent
          BY PlaceFacts, ProcFacts DEF TypeOK
        <5> QED BY <5>1, <2>2, <4>0
      <4> QED BY <4>1
    <3>5. fd' \in [Procs -> Places \cup {Closed, Detached}]
      <4>1. fd' = [q \in Procs |-> IF fd[q] = New(p) THEN Target(p)
                                   ELSE IF fd[q] = Target(p) THEN Detached ELSE fd[q]]
        BY <1>13, <2>2 DEF Rename, FdsAfterRename
      <4> QED BY <3>1, <4>1 DEF TypeOK
    <3>6. k' \in [Procs -> DOMAIN Archive]
      <4>1. k[p] <= got[p] /\ k[p] \in 1..Len(Archive) /\ got[p] \in 1..Len(Archive)
        BY ArchiveFacts DEF Entries, TypeOK
      <4>2. k' = k \/ (k[p] # got[p] /\ k' = [k EXCEPT ![p] = k[p] + 1])
        BY <1>13, <2>2 DEF Rename
      <4>3. k[p] # got[p] => k[p] + 1 \in 1..Len(Archive)
        BY <4>1
      <4> QED BY <4>2, <4>3, ArchiveFacts DEF TypeOK
    <3> QED BY <1>13, <2>2, <3>3, <3>4, <3>5, <3>6 DEF TypeOK, Rename, Goto, Finish
  <2> QED BY <2>1, <2>2
<1>14. CASE RenameFails(p)
  <2>1. /\ disk' \in [Places -> Content \cup {Absent}]
        /\ \A b \in Binaries : disk'[<<"bin", b>>] # Absent
    BY <1>14, RemoveType DEF RenameFails
  <2>2. fd' \in [Procs -> Places \cup {Closed, Detached}]
    BY <1>14 DEF RenameFails, TypeOK
  <2> QED BY <1>14, <2>1, <2>2 DEF TypeOK, RenameFails, Goto, Finish
<1>15. CASE Kill(p)
  BY <1>15 DEF TypeOK, Kill, Goto, Finish
<1> QED BY <1>1, <1>2, <1>3, <1>4, <1>5, <1>6, <1>7, <1>8, <1>9, <1>10, <1>11, <1>12, <1>13, <1>14, <1>15
        DEF Step

\* A step of p moves no other process, and two runs at a time stay on record.
LEMMA OnlyOneMoves ==
    ASSUME TypeOK, NEW p \in Procs, Step(p)
    PROVE  /\ \A q \in Procs : q # p => pc'[q] = pc[q] /\ rel'[q] = rel[q] /\ k'[q] = k[q]
                                        /\ genuine'[q] = genuine[q] /\ flags'[q] = flags[q]
                                        /\ got'[q] = got[q]
           /\ ~concurrent' => ~concurrent /\ (pc[p] = "idle" => \A q \in Procs : pc[q] = "idle")
           /\ latest' = latest
<1>1. ASSUME NEW f \in Flags, Start(p, f)
      PROVE  /\ \A q \in Procs : q # p => pc'[q] = pc[q] /\ rel'[q] = rel[q] /\ k'[q] = k[q]
                                          /\ genuine'[q] = genuine[q] /\ flags'[q] = flags[q]
                                          /\ got'[q] = got[q]
             /\ ~concurrent' => ~concurrent /\ \A q \in Procs : pc[q] = "idle"
             /\ latest' = latest
  BY <1>1 DEF TypeOK, Start, Goto
<1>2. CASE \/ Latest(p) \/ AssetFor(p) \/ CheckWritable(p) \/ Confirm(p)
           \/ (\E g \in BOOLEAN, n \in DOMAIN Archive : Download(p, g, n)) \/ VerifyAsset(p) \/ GiveUp(p)
  <2>1. PICK l : pc' = [pc EXCEPT ![p] = l]
    BY <1>2 DEF Latest, AssetFor, CheckWritable, Confirm, Download, VerifyAsset, GiveUp, Goto, Finish
  <2>2. pc[p] # "idle" /\ UNCHANGED <<latest, concurrent, flags, k>>
    BY <1>2 DEF Latest, AssetFor, CheckWritable, Confirm, Download, VerifyAsset, GiveUp
  <2>3. \A q \in Procs : q # p => rel'[q] = rel[q] /\ genuine'[q] = genuine[q] /\ got'[q] = got[q]
    BY <1>2 DEF TypeOK, Latest, AssetFor, CheckWritable, Confirm, Download, VerifyAsset, GiveUp
  <2> QED BY <2>1, <2>2, <2>3 DEF TypeOK
<1>3. CASE \/ OpenNew(p) \/ WriteNew(p) \/ WriteFails(p) \/ Chmod(p)
           \/ Rename(p) \/ RenameFails(p) \/ Kill(p)
  <2>1. PICK l : pc' = [pc EXCEPT ![p] = l]
    BY <1>3 DEF OpenNew, WriteNew, WriteFails, Chmod, Rename, RenameFails, Kill, Goto, Finish
  <2>2. pc[p] # "idle" /\ UNCHANGED <<latest, concurrent, flags, rel, genuine, got>>
    BY <1>3 DEF OpenNew, WriteNew, WriteFails, Chmod, Rename, RenameFails, Kill
  <2>3. \A q \in Procs : q # p => k'[q] = k[q]
    BY <1>3 DEF TypeOK, OpenNew, WriteNew, WriteFails, Chmod, Rename, RenameFails, Kill
  <2> QED BY <2>1, <2>2, <2>3 DEF TypeOK
<1> QED BY <1>1, <1>2, <1>3 DEF Step

\* fs::write closes its file before the process goes on.
LEMMA StepOpenFiles ==
    ASSUME UpdaterInv, NEW p \in Procs, Step(p)
    PROVE  OpenFiles'
<1> USE DEF UpdaterInv
<1> SUFFICES ASSUME NEW q \in Procs PROVE pc'[q] = "write" <=> fd'[q] # Closed
    BY DEF OpenFiles
<1>q. pc[q] = "write" <=> fd[q] # Closed
  BY DEF OpenFiles
<1>1. ASSUME NEW f \in Flags, Start(p, f) PROVE pc'[q] = "write" <=> fd'[q] # Closed
  BY <1>1, <1>q DEF TypeOK, Start, Goto
<1>2. CASE \/ Latest(p) \/ AssetFor(p) \/ CheckWritable(p) \/ Confirm(p)
           \/ (\E g \in BOOLEAN, n \in DOMAIN Archive : Download(p, g, n)) \/ VerifyAsset(p) \/ GiveUp(p) \/ Chmod(p)
  <2>1. PICK l \in {"idle", "asset", "confirm", "latest", "writable", "download", "open", "verify", "rename"} :
            pc' = [pc EXCEPT ![p] = l]
    BY <1>2 DEF Latest, AssetFor, CheckWritable, Confirm, Download, VerifyAsset, GiveUp, Chmod, Goto, Finish
  <2>2. pc[p] # "write" /\ fd' = fd
    BY <1>2 DEF Latest, AssetFor, CheckWritable, Confirm, Download, VerifyAsset, GiveUp, Chmod
  <2> QED BY <2>1, <2>2, <1>q DEF TypeOK
<1>3. CASE OpenNew(p)
  BY <1>3, <1>q, ProcFacts DEF TypeOK, OpenNew, Goto
<1>4. CASE WriteNew(p) \/ WriteFails(p) \/ Kill(p)
  <2>1. fd' = [fd EXCEPT ![p] = Closed] /\ (pc' = [pc EXCEPT ![p] = "idle"] \/ pc' = [pc EXCEPT ![p] = "chmod"])
    BY <1>4 DEF WriteNew, WriteFails, Kill, Goto, Finish
  <2> QED BY <2>1, <1>q DEF TypeOK
<1>5. CASE Rename(p) \/ RenameFails(p)
  <2>1. pc[p] = "rename" /\ (pc' = [pc EXCEPT ![p] = "idle"] \/ pc' = [pc EXCEPT ![p] = "open"])
    BY <1>5 DEF Rename, RenameFails, Goto, Finish
  <2>2. fd'[q] = Closed <=> fd[q] = Closed
    <3>1. CASE fd' = fd
      BY <3>1
    <3>2. CASE fd' = FdsAfterRename(New(p), Target(p))
      BY <3>2, PlaceFacts, ProcFacts DEF FdsAfterRename
    <3>3. CASE fd' = [r \in Procs |-> IF fd[r] = New(p) THEN Detached ELSE fd[r]]
      BY <3>3, PlaceFacts, ProcFacts
    <3> QED BY <1>5, <3>1, <3>2, <3>3 DEF Rename, RenameFails
  <2> QED BY <2>1, <2>2, <1>q DEF TypeOK
<1> QED BY <1>1, <1>2, <1>3, <1>4, <1>5 DEF Step

\* What a step does to the files: nothing, or one place gets the data of p (or
\* loses its tail), or .<name>.new is moved or removed.
LEMMA StepDisk ==
    ASSUME UpdaterInv, NEW p \in Procs, Step(p)
    PROVE  \/ disk' = disk
           \/ /\ pc[p] \in {"open", "write"}
              /\ \E pl \in Places, c \in Content :
                    /\ disk' = [disk EXCEPT ![pl] = c]
                    /\ c.ver = rel[p] \/ (disk[pl] \in Content /\ c = Torn(disk[pl]))
           \/ /\ pc[p] = "rename" /\ disk[New(p)] # Absent
              /\ disk' = [disk EXCEPT ![Target(p)] = disk[New(p)], ![New(p)] = Absent]
           \/ disk' = [disk EXCEPT ![New(p)] = Absent]
<1> USE DEF UpdaterInv
<1>1. CASE OpenNew(p)
  <2> DEFINE c == Torn(Data(p))
  <2>1. c \in Content /\ c.ver = rel[p] /\ New(p) \in Places
    BY ProcFacts, ContentFacts
  <2>2. disk' = [disk EXCEPT ![New(p)] = c] /\ pc[p] = "open"
    BY <1>1 DEF OpenNew
  <2> HIDE DEF c
  <2> QED BY <2>1, <2>2
<1>2. CASE WriteNew(p)
  <2>1. CASE fd[p] = Detached
    BY <1>2, <2>1 DEF WriteNew
  <2>2. CASE fd[p] # Detached
    <3>1. pc[p] = "write" /\ fd[p] \in Places
      BY <1>2, <2>2 DEF WriteNew, OpenFiles, TypeOK
    <3>2. PICK c \in Overwrite(p, disk[fd[p]]) : disk' = [disk EXCEPT ![fd[p]] = c]
      BY <1>2, <2>2 DEF WriteNew
    <3>3. c \in Content /\ c.ver = rel[p]
      BY OverwriteFacts
    <3> QED BY <3>1, <3>2, <3>3
  <2> QED BY <2>1, <2>2
<1>3. CASE WriteFails(p)
  <2>1. CASE fd[p] = Detached
    BY <1>3, <2>1 DEF WriteFails
  <2>2. CASE fd[p] # Detached
    <3>1. pc[p] = "write" /\ fd[p] \in Places
      BY <1>3, <2>2 DEF WriteFails, OpenFiles, TypeOK
    <3>2. disk' = [disk EXCEPT ![fd[p]] = Torn(disk[fd[p]])]
      BY <1>3, <2>2 DEF WriteFails
    <3>3. CASE disk[fd[p]] \in Content
      <4>1. Torn(disk[fd[p]]) \in Content
        BY <3>3, ContentFacts
      <4> QED BY <3>1, <3>2, <3>3, <4>1
    <3>4. CASE disk[fd[p]] = Absent
      <4>1. disk' = disk
        BY <3>1, <3>2, <3>4, AbsentFacts DEF TypeOK
      <4> QED BY <4>1
    <3> QED BY <3>1, <3>3, <3>4 DEF TypeOK
  <2> QED BY <2>1, <2>2
<1>4. CASE Rename(p) \/ RenameFails(p)
  BY <1>4 DEF Rename, RenameFails
<1>5. CASE \/ (\E f \in Flags : Start(p, f)) \/ Latest(p) \/ AssetFor(p) \/ CheckWritable(p) \/ Confirm(p)
           \/ (\E g \in BOOLEAN, n \in DOMAIN Archive : Download(p, g, n)) \/ VerifyAsset(p) \/ GiveUp(p) \/ Chmod(p) \/ Kill(p)
  BY <1>5 DEF Start, Latest, AssetFor, CheckWritable, Confirm, Download, VerifyAsset, GiveUp, Chmod, Kill
<1> QED BY <1>1, <1>2, <1>3, <1>4, <1>5 DEF Step

\* A process reaches the installation only with --insecure or with an archive
\* that is signed, and then whole.
LEMMA StepSigned ==
    ASSUME UpdaterInv, NEW p \in Procs, Step(p)
    PROVE  Signed'
<1> USE DEF UpdaterInv
<1>1. /\ Installing(p)' => flags'[p].insecure \/ (genuine'[p] /\ got'[p] = Len(Archive))
      /\ pc'[p] = "verify" => got'[p] = Len(Archive)
  <2>1. ASSUME NEW g \in BOOLEAN, NEW n \in DOMAIN Archive, Download(p, g, n)
        PROVE  /\ Installing(p)' => flags'[p].insecure \/ (genuine'[p] /\ got'[p] = Len(Archive))
               /\ pc'[p] = "verify" => got'[p] = Len(Archive)
    BY <2>1 DEF TypeOK, Download, Goto, Installing
  <2>2. CASE VerifyAsset(p)
    BY <2>2 DEF TypeOK, VerifyAsset, Goto, Finish, Installing, Signed
  <2>3. CASE \/ (\E f \in Flags : Start(p, f)) \/ Latest(p) \/ AssetFor(p) \/ CheckWritable(p)
             \/ Confirm(p) \/ GiveUp(p) \/ Kill(p) \/ WriteFails(p) \/ RenameFails(p)
    <3>1. PICK l \in {"idle", "latest", "asset", "writable", "confirm", "download"} : pc' = [pc EXCEPT ![p] = l]
      BY <2>3 DEF Start, Latest, AssetFor, CheckWritable, Confirm, GiveUp, Kill, WriteFails, RenameFails,
                  Goto, Finish
    <3> QED BY <3>1 DEF TypeOK, Installing
  <2>4. CASE OpenNew(p) \/ WriteNew(p) \/ Chmod(p) \/ Rename(p)
    <3>1. Installing(p) /\ UNCHANGED <<genuine, got, flags>>
      BY <2>4 DEF OpenNew, WriteNew, Chmod, Rename, Installing
    <3>2. PICK l \in {"idle", "open", "write", "chmod", "rename"} : pc' = [pc EXCEPT ![p] = l]
      BY <2>4 DEF OpenNew, WriteNew, Chmod, Rename, Goto, Finish
    <3> QED BY <3>1, <3>2 DEF Signed, TypeOK
  <2> QED BY <2>1, <2>2, <2>3, <2>4 DEF Step
<1>2. ASSUME NEW q \in Procs, q # p
      PROVE  /\ Installing(q)' => flags'[q].insecure \/ (genuine'[q] /\ got'[q] = Len(Archive))
             /\ pc'[q] = "verify" => got'[q] = Len(Archive)
  BY <1>2, OnlyOneMoves DEF Signed, Installing
<1> QED BY <1>1, <1>2 DEF Signed, Installing

\* The loop of install() goes over the entries that arrived, from the first.
LEMMA StepEntries ==
    ASSUME UpdaterInv, NEW p \in Procs, Step(p)
    PROVE  Entries'
<1> USE DEF UpdaterInv
<1>t. /\ k[p] \in 1..Len(Archive) /\ got[p] \in 1..Len(Archive) /\ Len(Archive) \in Nat /\ Len(Archive) > 0
      /\ k[p] <= got[p] /\ (pc[p] # "idle" /\ ~Installing(p) => k[p] = 1)
  BY ArchiveFacts DEF TypeOK, Entries
<1>1. k'[p] <= got'[p] /\ (pc'[p] # "idle" /\ ~Installing(p)' => k'[p] = 1)
  <2>1. ASSUME NEW f \in Flags, Start(p, f)
        PROVE  k'[p] <= got'[p] /\ k'[p] = 1
    BY <2>1, <1>t DEF TypeOK, Start
  <2>2. ASSUME NEW g \in BOOLEAN, NEW n \in DOMAIN Archive, Download(p, g, n)
        PROVE  k'[p] <= got'[p] /\ k'[p] = 1
    <3>1. k' = k /\ got'[p] = n /\ n >= 1 /\ k[p] = 1
      BY <2>2, <1>t, ArchiveFacts DEF TypeOK, Download, Installing
    <3> QED BY <3>1
  <2>3. CASE \/ Latest(p) \/ AssetFor(p) \/ CheckWritable(p) \/ Confirm(p) \/ VerifyAsset(p) \/ GiveUp(p)
    <3>1. UNCHANGED <<k, got>> /\ pc[p] # "idle" /\ ~Installing(p)
      BY <2>3 DEF Latest, AssetFor, CheckWritable, Confirm, VerifyAsset, GiveUp, Installing
    <3> QED BY <3>1, <1>t
  <2>4. CASE \/ OpenNew(p) \/ WriteNew(p) \/ WriteFails(p) \/ Chmod(p) \/ RenameFails(p) \/ Kill(p)
    <3>1. UNCHANGED <<k, got>>
      BY <2>4 DEF OpenNew, WriteNew, WriteFails, Chmod, RenameFails, Kill
    <3>2. PICK l \in {"idle", "write", "chmod", "rename"} : pc' = [pc EXCEPT ![p] = l]
      BY <2>4 DEF OpenNew, WriteNew, WriteFails, Chmod, RenameFails, Kill, Goto, Finish
    <3> QED BY <3>1, <3>2, <1>t DEF TypeOK, Installing
  <2>5. CASE Rename(p)
    <3>1. got' = got /\ (k' = k \/ (k[p] # got[p] /\ k' = [k EXCEPT ![p] = k[p] + 1]))
      BY <2>5 DEF Rename
    <3>2. PICK l \in {"idle", "open"} : pc' = [pc EXCEPT ![p] = l]
      BY <2>5 DEF Rename, Goto, Finish
    <3>3. k'[p] <= got'[p]
      <4>1. k'[p] = k[p] \/ (k[p] # got[p] /\ k'[p] = k[p] + 1)
        BY <3>1 DEF TypeOK
      <4> QED BY <3>1, <4>1, <1>t
    <3> QED BY <3>2, <3>3 DEF TypeOK, Installing
  <2> QED BY <2>1, <2>2, <2>3, <2>4, <2>5 DEF Step
<1>2. ASSUME NEW q \in Procs, q # p
      PROVE  k'[q] <= got'[q] /\ (pc'[q] # "idle" /\ ~Installing(q)' => k'[q] = 1)
  BY <1>2, OnlyOneMoves DEF Entries, Installing
<1> QED BY <1>1, <1>2 DEF Entries, Installing

\* A run is told the latest release and installs no other.
LEMMA StepPublished ==
    ASSUME UpdaterInv, NEW p \in Procs, Step(p)
    PROVE  Published'
<1> USE DEF UpdaterInv
<1>v. latest \in Int /\ \A q \in Procs : rel[q] \in Int
  BY UpdaterBounds DEF TypeOK, Versions
<1>1. latest' = latest
  BY OnlyOneMoves
<1>2. rel'[p] = rel[p] \/ rel'[p] = latest
  BY DEF Step, Start, Latest, AssetFor, CheckWritable, Confirm, Download, VerifyAsset, GiveUp, OpenNew,
         WriteNew, WriteFails, Chmod, Rename, RenameFails, Kill, TypeOK
<1>3. \A q \in Procs : rel'[q] <= latest
  BY <1>v, <1>2, OnlyOneMoves DEF Published
<1>4. ASSUME NEW pl \in Places PROVE disk'[pl].ver <= latest
  <2>1. CASE disk' = disk
    BY <2>1 DEF Published
  <2>2. ASSUME NEW x \in Places, NEW c \in Content,
               disk' = [disk EXCEPT ![x] = c],
               \/ c.ver = rel[p]
               \/ disk[x] \in Content /\ c = Torn(disk[x])
        PROVE  disk'[pl].ver <= latest
    <3>1. c.ver <= latest
      <4>1. CASE c.ver = rel[p]
        BY <4>1 DEF Published
      <4>2. CASE disk[x] \in Content /\ c = Torn(disk[x])
        BY <4>2, ContentFacts DEF Published
      <4> QED BY <2>2, <4>1, <4>2
    <3>2. disk'[pl] = IF pl = x THEN c ELSE disk[pl]
      BY <2>2 DEF TypeOK
    <3> QED BY <3>1, <3>2 DEF Published
  <2>3. CASE disk' = [disk EXCEPT ![Target(p)] = disk[New(p)], ![New(p)] = Absent]
    <3>1. disk'[pl] = IF pl = New(p) THEN Absent ELSE IF pl = Target(p) THEN disk[New(p)] ELSE disk[pl]
      BY <2>3, RenameDisk
    <3>2. New(p) \in Places
      BY ProcFacts
    <3>3. Absent.ver <= latest
      BY AbsentFacts, UpdaterBounds DEF TypeOK, Versions
    <3> QED BY <3>1, <3>2, <3>3 DEF Published
  <2>4. CASE disk' = [disk EXCEPT ![New(p)] = Absent]
    <3>1. Absent.ver <= latest
      BY AbsentFacts, UpdaterBounds DEF TypeOK, Versions
    <3>2. disk'[pl] = IF pl = New(p) THEN Absent ELSE disk[pl]
      BY <2>4 DEF TypeOK
    <3> QED BY <3>1, <3>2 DEF Published
  <2> QED BY <2>1, <2>2, <2>3, <2>4, StepDisk
<1> QED BY <1>1, <1>3, <1>4 DEF Published

\* A step of a run alone keeps its progress and the order of the binaries.
LEMMA StepProgress ==
    ASSUME UpdaterInv, NEW p \in Procs, Step(p), ~concurrent, Alone, Progress(p),
           \A b \in Binaries : Sound(disk[<<"bin", b>>]),
           \A i, j \in 1..Len(Archive) : i < j => disk[Bin(i)].ver >= disk[Bin(j)].ver
    PROVE  /\ Progress(p)'
           /\ \A b \in Binaries : Sound(disk'[<<"bin", b>>])
           /\ \A i, j \in 1..Len(Archive) : i < j => disk'[Bin(i)].ver >= disk'[Bin(j)].ver
<1> USE DEF UpdaterInv
<1>a. ASSUME \A b \in Binaries : disk'[<<"bin", b>>] = disk[<<"bin", b>>]
      PROVE  /\ \A b \in Binaries : Sound(disk'[<<"bin", b>>])
             /\ \A i, j \in 1..Len(Archive) : i < j => disk'[Bin(i)].ver >= disk'[Bin(j)].ver
  BY <1>a, ArchiveFacts DEF Bin
<1>b. ASSUME NEW c, disk' = [disk EXCEPT ![New(p)] = c]
      PROVE  \A b \in Binaries : disk'[<<"bin", b>>] = disk[<<"bin", b>>]
  <2>1. \A b \in Binaries : <<"bin", b>> \in Places /\ <<"bin", b>> # New(p)
    BY PlaceFacts, ProcFacts
  <2>2. \A pl \in Places : pl # New(p) => disk'[pl] = disk[pl]
    BY <1>b DEF TypeOK
  <2> QED BY <2>1, <2>2
<1>c. ASSUME pc' = [pc EXCEPT ![p] = "idle"] PROVE Progress(p)'
  BY <1>c DEF TypeOK, Progress, Installing, Decided
<1>1. ASSUME NEW f \in Flags, Start(p, f)
      PROVE  /\ Progress(p)' /\ disk' = disk
  BY <1>1 DEF TypeOK, Start, Goto, Progress, Installing, Decided
<1>2. CASE Latest(p)
  <2>1. disk' = disk /\ k' = k /\ rel'[p] = latest /\ pc[p] = "latest"
    BY <1>2 DEF Latest, TypeOK
  <2>2. pc' = [pc EXCEPT ![p] = "idle"] \/ pc' = [pc EXCEPT ![p] = "asset"]
    BY <1>2 DEF Latest, Goto, Finish
  <2>3. \A b \in Binaries : disk[<<"bin", b>>].ver <= latest
    BY PlaceFacts DEF Published
  <2>4. Progress(p)'
    BY <2>1, <2>2, <2>3 DEF TypeOK, Progress, Installing, Decided
  <2> QED BY <2>1, <2>4, <1>a
<1>3. CASE AssetFor(p) \/ CheckWritable(p) \/ Confirm(p)
  <2>1. UNCHANGED <<disk, k, rel>> /\ pc[p] \in {"asset", "writable", "confirm"}
    BY <1>3 DEF AssetFor, CheckWritable, Confirm
  <2>2. PICK l \in {"writable", "confirm", "latest", "download", "idle"} : pc' = [pc EXCEPT ![p] = l]
    BY <1>3 DEF AssetFor, CheckWritable, Confirm, Goto, Finish
  <2>3. Progress(p)'
    BY <2>1, <2>2 DEF TypeOK, Progress, Installing, Decided
  <2> QED BY <2>1, <2>3, <1>a
<1>4. CASE (\E g \in BOOLEAN, n \in DOMAIN Archive : Download(p, g, n)) \/ VerifyAsset(p)
  <2>1. UNCHANGED <<disk, k, rel>> /\ pc[p] \in {"download", "verify"}
    BY <1>4 DEF Download, VerifyAsset
  <2>2. PICK l \in {"open", "verify", "idle"} : pc' = [pc EXCEPT ![p] = l]
    BY <1>4 DEF Download, VerifyAsset, Goto, Finish
  <2>3. k[p] = 1 /\ \A b \in Binaries : disk[<<"bin", b>>].ver <= rel[p]
    BY <2>1 DEF Progress, Installing, Decided, Entries
  <2>4. Progress(p)'
    BY <2>1, <2>2, <2>3, ArchiveFacts DEF TypeOK, Progress, Installing, Decided
  <2> QED BY <2>1, <2>4, <1>a
<1>5. CASE GiveUp(p) \/ Kill(p)
  BY <1>5, <1>a, <1>c DEF GiveUp, Kill, Finish, Goto
<1>6. CASE Chmod(p)
  <2>1. UNCHANGED <<disk, k, rel, genuine, flags>> /\ pc[p] = "chmod"
    BY <1>6 DEF Chmod
  <2>2. pc' = [pc EXCEPT ![p] = "idle"] \/ pc' = [pc EXCEPT ![p] = "rename"]
    BY <1>6 DEF Chmod, Goto, Finish
  <2>3. Data(p)' = Data(p) /\ New(p)' = New(p)
    BY <2>1 DEF Data, New
  <2>4. Progress(p)'
    BY <2>1, <2>2, <2>3 DEF TypeOK, Progress, Installing, Decided
  <2> QED BY <2>1, <2>4, <1>a
<1>7. CASE OpenNew(p)
  <2> DEFINE c == Torn(Data(p))
  <2>1. /\ UNCHANGED <<k, rel, genuine, flags>> /\ pc[p] = "open" /\ pc' = [pc EXCEPT ![p] = "write"]
        /\ disk' = [disk EXCEPT ![New(p)] = c] /\ fd' = [fd EXCEPT ![p] = New(p)]
    BY <1>7 DEF OpenNew, Goto
  <2>2. Data(p)' = Data(p) /\ New(p)' = New(p)
    BY <2>1 DEF Data, New
  <2>3. \A b \in Binaries : disk'[<<"bin", b>>] = disk[<<"bin", b>>]
    BY <2>1, <1>b
  <2>4. disk'[New(p)] = c /\ fd'[p] = New(p) /\ pc'[p] = "write"
    BY <2>1, ProcFacts DEF TypeOK
  <2>5. \A b \in Binaries : disk'[<<"bin", b>>].ver <= rel'[p]
    BY <2>1, <2>3 DEF Progress, Decided, Installing
  <2>6. \A i \in 1..Len(Archive) : i < k'[p] => disk'[Bin(i)] = Data(p)'
    BY <2>1, <2>2, <2>3, ArchiveFacts DEF Progress, Installing, Bin
  <2>7. Progress(p)'
    BY <2>2, <2>4, <2>5, <2>6 DEF Progress, Installing, Decided
  <2> QED BY <2>3, <2>7, <1>a
<1>8. CASE WriteNew(p)
  <2>1. /\ UNCHANGED <<k, rel, genuine, flags>> /\ pc[p] = "write" /\ pc' = [pc EXCEPT ![p] = "chmod"]
    BY <1>8 DEF WriteNew, Goto
  <2>2. fd[p] = New(p) /\ disk[New(p)] = Torn(Data(p)) /\ New(p) # Detached
    BY <2>1, ProcFacts DEF Progress
  <2>3. PICK c \in Overwrite(p, disk[New(p)]) : disk' = [disk EXCEPT ![New(p)] = c]
    BY <1>8, <2>2 DEF WriteNew
  <2>4. c = Data(p)
    BY <2>2, OverwriteFacts
  <2>5. Data(p)' = Data(p) /\ New(p)' = New(p)
    BY <2>1 DEF Data, New
  <2>6. \A b \in Binaries : disk'[<<"bin", b>>] = disk[<<"bin", b>>]
    BY <2>3, <1>b
  <2>7. disk'[New(p)] = Data(p) /\ pc'[p] = "chmod"
    BY <2>1, <2>3, <2>4, ProcFacts DEF TypeOK
  <2>8. \A b \in Binaries : disk'[<<"bin", b>>].ver <= rel'[p]
    BY <2>1, <2>6 DEF Progress, Decided, Installing
  <2>9. \A i \in 1..Len(Archive) : i < k'[p] => disk'[Bin(i)] = Data(p)'
    BY <2>1, <2>5, <2>6, ArchiveFacts DEF Progress, Installing, Bin
  <2>10. Progress(p)'
    BY <2>5, <2>7, <2>8, <2>9 DEF Progress, Installing, Decided
  <2> QED BY <2>6, <2>10, <1>a
<1>9. CASE WriteFails(p)
  <2>1. pc[p] = "write" /\ pc' = [pc EXCEPT ![p] = "idle"]
    BY <1>9 DEF WriteFails, Goto, Finish
  <2>2. fd[p] = New(p) /\ New(p) # Detached
    BY <2>1, ProcFacts DEF Progress
  <2>3. disk' = [disk EXCEPT ![New(p)] = Torn(disk[New(p)])]
    BY <1>9, <2>2 DEF WriteFails
  <2>4. \A b \in Binaries : disk'[<<"bin", b>>] = disk[<<"bin", b>>]
    BY <2>3, <1>b
  <2> QED BY <2>1, <2>4, <1>a, <1>c
<1>10. CASE RenameFails(p)
  <2>1. pc' = [pc EXCEPT ![p] = "idle"] /\ disk' = [disk EXCEPT ![New(p)] = Absent]
    BY <1>10 DEF RenameFails, Goto, Finish
  <2> QED BY <2>1, <1>a, <1>b, <1>c
<1>11. CASE Rename(p)
  <2>1. pc[p] = "rename" /\ UNCHANGED <<rel, genuine, flags>>
    BY <1>11 DEF Rename
  <2>2. disk[New(p)] = Data(p) /\ disk[New(p)] # Absent /\ Data(p) \in Content
    BY <2>1, ProcFacts, ContentFacts DEF Progress
  <2>3. disk' = [disk EXCEPT ![Target(p)] = disk[New(p)], ![New(p)] = Absent]
    BY <1>11, <2>2 DEF Rename
  <2>4. \A i \in 1..Len(Archive) : disk'[Bin(i)] = IF i = k[p] THEN Data(p) ELSE disk[Bin(i)]
    <3>1. \A i \in 1..Len(Archive) : disk'[Bin(i)] = IF i = k[p] THEN disk[New(p)] ELSE disk[Bin(i)]
      BY <2>3, RenameDisk
    <3> QED BY <2>2, <3>1
  <2>5. /\ \A i \in 1..Len(Archive) : disk[Bin(i)].ver <= rel[p] /\ Sound(disk[Bin(i)])
        /\ \A i \in 1..Len(Archive) : i < k[p] => disk[Bin(i)] = Data(p)
    BY <2>1, ArchiveFacts DEF Progress, Decided, Installing, Bin
  <2>6. /\ Data(p).ver = rel[p] /\ k[p] \in 1..Len(Archive) /\ rel[p] \in Int
        /\ \A i \in 1..Len(Archive) : disk[Bin(i)].ver \in Int
    <3>1. \A i \in 1..Len(Archive) : disk[Bin(i)] \in Content
      BY BinFacts, ArchiveFacts DEF Bin
    <3> QED BY <3>1, ProcFacts, ContentFacts, UpdaterBounds DEF TypeOK, Versions
  <2>s. Sound(Data(p))
    BY <2>1, ProcFacts DEF Sound, Signed, Installing
  <2>7. \A b \in Binaries : Sound(disk'[<<"bin", b>>]) /\ disk'[<<"bin", b>>].ver <= rel[p]
    <3>1. \A i \in 1..Len(Archive) : Sound(disk'[Bin(i)]) /\ disk'[Bin(i)].ver <= rel[p]
      BY <2>4, <2>5, <2>6, <2>s
    <3> QED BY <3>1, ArchiveFacts DEF Bin
  <2>8. ASSUME NEW i \in 1..Len(Archive), NEW j \in 1..Len(Archive), i < j
        PROVE  disk'[Bin(i)].ver >= disk'[Bin(j)].ver
    <3>1. CASE i <= k[p]
      <4>1. disk'[Bin(i)].ver = rel[p]
        BY <3>1, <2>4, <2>5, <2>6
      <4>2. disk'[Bin(j)].ver <= rel[p]
        BY <2>4, <2>5, <2>6
      <4> QED BY <4>1, <4>2, <2>4, <2>6
    <3>2. CASE i > k[p]
      BY <2>8, <3>2, <2>4, <2>6
    <3> QED BY <3>1, <3>2, <2>6
  <2>9. Progress(p)'
    <3>1. CASE k[p] = got[p]
      BY <1>11, <2>2, <3>1, <1>c DEF Rename, Finish, Goto
    <3>2. CASE k[p] # got[p]
      <4>1. pc'[p] = "open" /\ k'[p] = k[p] + 1
        BY <1>11, <2>2, <3>2 DEF Rename, Goto, TypeOK
      <4>2. Data(p)' = Data(p)
        BY <2>1 DEF Data
      <4>3. \A i \in 1..Len(Archive) : i < k'[p] => disk'[Bin(i)] = Data(p)'
        BY <4>1, <4>2, <2>4, <2>5, <2>6
      <4>4. \A b \in Binaries : disk'[<<"bin", b>>].ver <= rel'[p]
        BY <2>1, <2>7
      <4> QED BY <4>1, <4>3, <4>4 DEF Progress, Installing, Decided
    <3> QED BY <3>1, <3>2
  <2> QED BY <2>7, <2>8, <2>9
<1> QED BY <1>1, <1>2, <1>3, <1>4, <1>5, <1>6, <1>7, <1>8, <1>9, <1>10, <1>11, <1>a DEF Step

\* While one run follows another, each finds the binaries complete and in order.
LEMMA StepSequential ==
    ASSUME UpdaterInv, NEW p \in Procs, Step(p)
    PROVE  Sequential'
<1> SUFFICES ASSUME ~concurrent'
             PROVE  /\ Alone'
                    /\ \A b \in Binaries : Sound(disk'[<<"bin", b>>])
                    /\ \A i, j \in 1..Len(Archive) : i < j => disk'[Bin(i)].ver >= disk'[Bin(j)].ver
                    /\ \A q \in Procs : Progress(q)'
    BY DEF Sequential, Bin
<1>1. /\ ~concurrent /\ (pc[p] = "idle" => \A q \in Procs : pc[q] = "idle")
      /\ \A q \in Procs : q # p => pc'[q] = pc[q]
  BY OnlyOneMoves DEF UpdaterInv
<1>2. /\ Alone /\ Progress(p)
      /\ \A b \in Binaries : Sound(disk[<<"bin", b>>])
      /\ \A i, j \in 1..Len(Archive) : i < j => disk[Bin(i)].ver >= disk[Bin(j)].ver
  BY <1>1 DEF UpdaterInv, Sequential
<1>3. \A q \in Procs : q # p => pc'[q] = "idle"
  BY <1>1, <1>2 DEF Alone
<1>4. Alone'
  BY <1>3 DEF Alone
<1>5. \A q \in Procs : q # p => Progress(q)'
  BY <1>3 DEF Progress, Installing, Decided
<1>6. /\ Progress(p)'
      /\ \A b \in Binaries : Sound(disk'[<<"bin", b>>])
      /\ \A i, j \in 1..Len(Archive) : i < j => disk'[Bin(i)].ver >= disk'[Bin(j)].ver
  BY <1>1, <1>2, StepProgress
<1> QED BY <1>4, <1>5, <1>6

\* A release that is published changes nothing else.
LEMMA PublishInv == UpdaterInv /\ PublishRelease => UpdaterInv'
<1> SUFFICES ASSUME UpdaterInv, PublishRelease PROVE UpdaterInv'
    OBVIOUS
<1>1. /\ latest' \in Versions /\ latest' = latest + 1 /\ latest \in Int
      /\ UNCHANGED <<disk, pc, flags, root, current, rel, genuine, got, k, fd, outcome, runs, concurrent, faults>>
  BY UpdaterBounds DEF PublishRelease, UpdaterInv, TypeOK, Versions, procVars
<1>2. TypeOK'
  BY <1>1 DEF UpdaterInv, TypeOK
<1>3. Published'
  <2>1. \A q \in Procs : rel[q] \in Int
    BY UpdaterBounds DEF UpdaterInv, TypeOK, Versions
  <2>2. \A pl \in Places : disk[pl].ver \in Int
    <3>1. ASSUME NEW pl \in Places PROVE disk[pl].ver \in Int
      <4>1. CASE disk[pl] \in Content
        BY <4>1, ContentFacts, UpdaterBounds
      <4>2. CASE disk[pl] = Absent
        BY <4>2, AbsentFacts
      <4> QED BY <4>1, <4>2 DEF UpdaterInv, TypeOK
    <3> QED BY <3>1
  <2> QED BY <1>1, <2>1, <2>2 DEF UpdaterInv, Published
<1>4. OpenFiles' /\ Signed' /\ Entries' /\ Sequential'
  BY <1>1 DEF UpdaterInv, OpenFiles, Signed, Entries, Sequential, Alone, Progress, Installing, Decided, Data, New
<1> QED BY <1>2, <1>3, <1>4 DEF UpdaterInv

\* Release 0, complete and signed, is installed and nothing runs.
LEMMA InitInv == Init => UpdaterInv
<1> SUFFICES ASSUME Init PROVE UpdaterInv
    OBVIOUS
<1> DEFINE zero == [ver |-> 0, genuine |-> TRUE, insecure |-> FALSE, whole |-> TRUE]
<1>1. TypeOK
  BY InitType
<1>2. zero.ver = 0 /\ Sound(zero)
  BY DEF Sound
<1>3. disk = [pl \in Places |-> IF pl[1] = "bin" THEN zero ELSE Absent]
  BY DEF Init
<1> HIDE DEF zero
<1>4. \A b \in Binaries : disk[<<"bin", b>>] = zero
  BY <1>3, PlaceFacts
<1>5. \A pl \in Places : disk[pl] = zero \/ disk[pl] = Absent
  BY <1>3
<1>6. \A p \in Procs : pc[p] = "idle" /\ fd[p] = Closed /\ rel[p] = 0
  BY DEF Init
<1>7. OpenFiles
  BY <1>6 DEF OpenFiles
<1>8. Signed
  BY <1>6 DEF Signed, Installing
<1>e. Entries
  <2>1. 1 <= Len(Archive)
    BY ArchiveFacts
  <2> QED BY <2>1 DEF Init, Entries
<1>9. Published
  <2>1. latest = 0 /\ Absent.ver = -1
    BY AbsentFacts DEF Init
  <2> QED BY <1>2, <1>5, <1>6, <2>1 DEF Published
<1>10. Sequential
  <2>1. \A i \in 1..Len(Archive) : disk[Bin(i)] = zero
    BY <1>4, ArchiveFacts DEF Bin
  <2>2. \A i, j \in 1..Len(Archive) : disk[Bin(i)].ver >= disk[Bin(j)].ver
    BY <2>1, <1>2
  <2> QED BY <1>2, <1>4, <1>6, <2>2 DEF Sequential, Alone, Progress, Installing, Decided
<1> QED BY <1>1, <1>7, <1>8, <1>e, <1>9, <1>10 DEF UpdaterInv

\* Every step keeps the invariant.
LEMMA NextInv == UpdaterInv /\ [Next]_vars => UpdaterInv'
<1> SUFFICES ASSUME UpdaterInv, [Next]_vars PROVE UpdaterInv'
    OBVIOUS
<1>1. ASSUME NEW p \in Procs, Step(p) PROVE UpdaterInv'
  <2>1. TypeOK'
    BY <1>1, StepType DEF UpdaterInv
  <2>2. OpenFiles' /\ Signed' /\ Entries' /\ Published' /\ Sequential'
    BY <1>1, StepOpenFiles, StepSigned, StepEntries, StepPublished, StepSequential
  <2> QED BY <2>1, <2>2 DEF UpdaterInv
<1>2. CASE UNCHANGED vars
  BY <1>2 DEF vars, procVars, UpdaterInv, TypeOK, OpenFiles, Signed, Entries, Published, Sequential, Alone,
              Progress, Installing, Decided, Data, New
<1> QED BY <1>1, <1>2, PublishInv DEF Next

\* The invariant holds throughout.
LEMMA Invariance == Spec => []UpdaterInv
BY InitInv, NextInv, PTL DEF Spec

\* The processes and the files always have the shapes of TypeOK; no installed
\* binary ever disappears.
THEOREM TypeCorrect == Spec => []TypeOK
<1>1. UpdaterInv => TypeOK
  BY DEF UpdaterInv
<1> QED BY <1>1, Invariance, PTL

\* Runs that follow one another, killed or failing anywhere, put in place only
\* what is to its last byte what the key signed, or what a run was told to
\* install with --insecure.
THEOREM InstallsOnlySigned == Spec => []OnlySigned
<1>1. UpdaterInv => OnlySigned
  BY DEF UpdaterInv, Sequential, Sound, OnlySigned
<1> QED BY <1>1, Invariance, PTL

\* Runs that follow one another, killed or failing anywhere, leave complete
\* binaries: .<name>.new is complete before the rename.
THEOREM AtomicReplacement == Spec => []NeverTorn
<1>1. UpdaterInv => NeverTorn
  BY DEF UpdaterInv, Sequential, Sound, NeverTorn
<1> QED BY <1>1, Invariance, PTL

\* Runs that follow one another never leave a helper newer than the binaries
\* before it in the archive, whatever the number of binaries and releases.
THEOREM OrderKept == Spec => []NewestFirst
<1>1. UpdaterInv => NewestFirst
  BY ArchiveFacts DEF UpdaterInv, Sequential, NewestFirst, Bin
<1> QED BY <1>1, Invariance, PTL

\* cmd_update says "Updated to <tag>" only when install() has replaced every
\* binary by the one of that release, or with --insecure the ones that arrived
\* (runs that follow one another).
THEOREM UpdatedIsTrue == Spec => UpdatedMeansAll
<1> DEFINE A == \A p \in Procs :
                  ~concurrent /\ outcome[p] # "updated" /\ outcome'[p] = "updated" =>
                     \A i \in DOMAIN Archive :
                        i <= got[p] \/ ~flags[p].insecure => disk'[<<"bin", Archive[i]>>] = Data(p)
<1>1. UpdaterInv /\ [Next]_vars => [A]_vars
  <2> SUFFICES ASSUME UpdaterInv, Next, NEW p \in Procs,
                      ~concurrent, outcome[p] # "updated", outcome'[p] = "updated",
                      NEW i \in 1..Len(Archive), i <= got[p] \/ ~flags[p].insecure
               PROVE  disk'[<<"bin", Archive[i]>>] = Data(p)
      BY ArchiveFacts
  <2>1. PICK q \in Procs : Step(q)
    BY DEF Next, PublishRelease, procVars
  <2>2. Rename(q) /\ q = p /\ k[p] = got[p] /\ disk[New(p)] # Absent
    <3>1. ASSUME NEW o \in {"none", "uptodate", "available", "declined", "failed", "killed"},
                 outcome' = outcome \/ outcome' = [outcome EXCEPT ![q] = o]
          PROVE  FALSE
      BY <3>1 DEF UpdaterInv, TypeOK
    <3>2. CASE ~Rename(q)
      <4>1. \E o \in {"none", "uptodate", "available", "declined", "failed", "killed"} :
               outcome' = outcome \/ outcome' = [outcome EXCEPT ![q] = o]
        BY <2>1, <3>2 DEF Step, Start, Latest, AssetFor, CheckWritable, Confirm, Download, VerifyAsset, GiveUp,
           OpenNew, WriteNew, WriteFails, Chmod, RenameFails, Kill, Finish
      <4> QED BY <3>1, <4>1
    <3>3. CASE Rename(q)
      <4>1. \/ outcome' = outcome
            \/ outcome' = [outcome EXCEPT ![q] = "failed"]
            \/ outcome' = [outcome EXCEPT ![q] = "updated"] /\ k[q] = got[q] /\ disk[New(q)] # Absent
        BY <3>3 DEF Rename, Finish
      <4> QED BY <3>1, <3>3, <4>1 DEF UpdaterInv, TypeOK
    <3> QED BY <3>2, <3>3
  <2>3. /\ disk[New(p)] = Data(p)
        /\ \A j \in 1..Len(Archive) : j < k[p] => disk[Bin(j)] = Data(p)
    BY <2>2 DEF UpdaterInv, Sequential, Progress, Installing, Rename
  <2>4. disk' = [disk EXCEPT ![Target(p)] = disk[New(p)], ![New(p)] = Absent]
    BY <2>2 DEF Rename
  <2>5. disk'[Bin(i)] = IF i = k[p] THEN disk[New(p)] ELSE disk[Bin(i)]
    BY <2>4, RenameDisk DEF UpdaterInv
  <2>6. i = k[p] \/ i < k[p]
    <3>1. Len(Archive) \in Nat /\ got[p] \in 1..Len(Archive)
      BY ArchiveFacts DEF UpdaterInv, TypeOK
    <3>2. i <= got[p]
      BY <2>2, <3>1 DEF UpdaterInv, Signed, Installing, Rename
    <3> QED BY <2>2, <3>1, <3>2
  <2> QED BY <2>3, <2>5, <2>6 DEF Bin
<1> QED BY <1>1, Invariance, PTL DEF Spec, UpdatedMeansAll
=============================================================================
