------------------------- MODULE PackageVerifyProofs -------------------------
(***************************************************************************)
(* What the fences of a verification are worth, for any package, any edits *)
(* and any number of them.  The argument: an edit gives what it changes a  *)
(* modification time that nothing had before, so a time that is still the  *)
(* one remembered says that nothing was changed since; and the identities  *)
(* compared say that it is the same file, or the same directory.           *)
(*                                                                         *)
(* VerifyFS has no identities, so of the files a path has had no two may   *)
(* have the same time; that is the invariant of FilesCoexisted.  A report  *)
(* is closed because each document was accepted as it was read, because an *)
(* order without repetition lists each file once, and because a sum over   *)
(* the places of a list is then the sum over the files.                    *)
(***************************************************************************)
EXTENDS PackageVerify, FiniteSetTheorems, WellFoundedInduction, TLAPS

\* A time that no edit to come gives to anything.
Fenced(t, b) == t \in Int /\ (t > b \/ t < 0)

FileFields == {"content", "mode", "time"}

\* The file system.
DiskOK ==
  /\ at \in Dirs /\ budget \in Nat
  /\ times \in [Dirs -> Int] /\ \A d \in Dirs : Fenced(times[d], budget)
  /\ tree \in [Dirs -> [Paths -> 0..Len(file)]]
  /\ \E S : file \in Seq(S)
  /\ \A i \in 1..Len(file) : Fenced(file[i].time, budget) /\ DOMAIN file[i] = FileFields

CallFields ==
  {"step", "held", "root", "walk", "nested", "listed", "inventory", "first", "path", "before",
   "handle", "head", "raw", "bytes", "index"}

Opening == {"lstatRoot", "openRoot", "statRoot"}
Reading == {"head", "tail", "statAfter", "lstatAfter"}

\* Which of the two entries takes which step, and the paths it goes by.
StepOK(c) ==
  /\ DOMAIN c = CallFields
  /\ c.walk \subseteq Paths /\ DOMAIN c.inventory \subseteq Paths /\ DOMAIN c.first \subseteq Paths
  /\ c.step \in Reading \cup {"open", "stat"} => c.path \in Paths
  /\ c.step \in Opening \cup {"statHandle", "lstatAgain", "lstat", "lstatAfter"} => ~VerifiesFS
  /\ c.step \in {"verifyStaged", "checkStaged"} => VerifiesFS

\* A read in call c of one of the files fs: what was read since the file's metadata
\* was taken is its content, if its time is still the same.
ReadOK(c, fs, b) ==
  /\ c.step \in Reading \cup {"stat"} => c.handle \in 1..Len(fs)
  /\ c.step \in Reading =>
       /\ c.before.id = c.handle /\ Fenced(c.before.time, b)
       /\ VerifiesFS => c.inventory[c.path].time = c.before.time
       /\ fs[c.handle].time = c.before.time =>
            /\ c.step = "tail" => c.head = fs[c.handle].content
            /\ c.step \in {"statAfter", "lstatAfter"}
               => c.raw = <<fs[c.handle].content, fs[c.handle].content>>

\* What a call of VerifyDirectory has read at which step.
PathsOK(c) ==
  /\ DOMAIN c.bytes \subseteq Paths
  /\ c.step # "walk" => c.walk = {}
  /\ c.step \in Opening \cup {"list", "walk"} => c.bytes = Empty
  /\ c.step = "next" => c.bytes # Empty
  /\ c.step \in Reading \cup {"open", "stat"} => c.path \in DOMAIN c.inventory
  /\ c.step \in Reading \cup {"lstat", "open", "stat"} /\ c.bytes = Empty => c.path = Index

\* What it has of the index.
IndexOK(c) ==
  c.bytes # Empty =>
    /\ Index \in DOMAIN c.bytes
    /\ ListedPaths(c.index) = DOMAIN c.inventory \ {Index}
    /\ c.step \in {"statHandle", "lstatAgain", "returned"} => ListedPaths(c.index) \subseteq DOMAIN c.bytes

\* The directory it opened.
HeldOK(c, b) ==
  /\ c.step # "lstatRoot" => c.root.id \in Dirs /\ Fenced(c.root.time, b)
  /\ c.step \notin {"lstatRoot", "openRoot"} => c.held \in Dirs
  /\ c.step \notin Opening => c.root.id = c.held

\* What it has found and read in the root of that directory, if the entries tr of the
\* root are still those of the time remembered.
RootOK(c, tr, tm) ==
  c.step \notin Opening /\ tm[c.held] = c.root.time =>
    /\ c.step # "list" /\ c.listed = c.held =>
         \A p \in Paths : ~PathInfo[p].sub /\ tr[c.held][p] # NoFile
                          => p \in c.walk \cup DOMAIN c.inventory
    /\ \A p \in DOMAIN c.bytes : ~PathInfo[p].sub => tr[c.held][p] = c.inventory[p].id
    /\ c.step \in Reading \cup {"stat"} /\ ~PathInfo[c.path].sub => c.handle = tr[c.held][c.path]

\* The file it reads is the one its walk found.
FoundOK(c) == c.step \in Reading => c.inventory[c.path].id = c.handle

DirectoryOK(c, tr, tm, b) ==
  PathsOK(c) /\ IndexOK(c) /\ HeldOK(c, b) /\ RootOK(c, tr, tm) /\ FoundOK(c)

\* What a verified report of VerifyDirectory ends with.
EndOK ==
  verdict = "verified" /\ ~VerifiesFS =>
    /\ call.step = "returned" /\ call.bytes # Empty
    /\ at = call.held /\ times[at] = call.root.time

StagingOK ==
  /\ ~VerifiesFS => staging = "none"
  /\ CapabilityAfterCleanup

FenceInv ==
  /\ DiskOK /\ StepOK(call) /\ ReadOK(call, file, budget)
  /\ ~VerifiesFS /\ verdict # "refused" => DirectoryOK(call, tree, times, budget)
  /\ EndOK /\ StagingOK

-----------------------------------------------------------------------------
(* Edits.                                                                    *)

\* The entries of a root whose time is still t are what they were.
LEMMA RootUnedited ==
  ASSUME DiskOK, Edit, NEW d \in Dirs, NEW t, Fenced(t, budget), times'[d] = t
  PROVE /\ times[d] = t
        /\ \A p \in Paths : ~PathInfo[p].sub => tree'[d][p] = tree[d][p]
<1>1. CASE tree' = tree /\ times' = times
  BY <1>1
<1>2. ASSUME NEW q \in Paths, NEW f, tree' = [tree EXCEPT ![at][q] = f], times' = EntriesChanged(q)
      PROVE times[d] = t /\ \A p \in Paths : ~PathInfo[p].sub => tree'[d][p] = tree[d][p]
  <2>1. times \in [Dirs -> Int] /\ tree \in [Dirs -> [Paths -> 0..Len(file)]] /\ at \in Dirs
        /\ budget \in Nat
    BY DEF DiskOK
  <2>2. CASE PathInfo[q].sub
    BY <1>2, <2>1, <2>2 DEF EntriesChanged
  <2>3. CASE ~PathInfo[q].sub
    <3>1. times' = [times EXCEPT ![at] = budget]
      BY <1>2, <2>3 DEF EntriesChanged, Now
    <3>2. d # at
      BY <2>1, <3>1 DEF Fenced
    <3> QED
      BY <1>2, <2>1, <3>1, <3>2
  <2> QED
    BY <2>2, <2>3
<1>3. ASSUME NEW q \in Paths, Replace(q) \/ Unlink(q)
      PROVE \E f : tree' = [tree EXCEPT ![at][q] = f] /\ times' = EntriesChanged(q)
  BY <1>3 DEF Replace, Unlink
<1>4. ASSUME NEW q \in Paths, Rewrite(q) \/ ChangeMode(q) PROVE tree' = tree /\ times' = times
  BY <1>4 DEF Rewrite, ChangeMode
<1>5. SwapRoot => tree' = tree /\ times' = times
  BY DEF SwapRoot
<1> QED
  BY <1>1, <1>2, <1>3, <1>4, <1>5 DEF Edit

\* A file whose time is still t has the content it had.
LEMMA FileUnedited ==
  ASSUME DiskOK, Edit, NEW f \in 1..Len(file), NEW t, Fenced(t, budget), file'[f].time = t
  PROVE f \in 1..Len(file') /\ file[f].time = t /\ file'[f].content = file[f].content
<1>1. PICK S : file \in Seq(S)
  BY DEF DiskOK
<1>2. budget \in Nat /\ DOMAIN file[f] = FileFields /\ DOMAIN file = 1..Len(file)
      /\ at \in Dirs /\ tree \in [Dirs -> [Paths -> 0..Len(file)]] /\ Len(file) \in Nat
  BY <1>1 DEF DiskOK
<1>3. CASE file' = file
  BY <1>3
<1>4. ASSUME NEW new, file' = Append(file, new)
      PROVE f \in 1..Len(file') /\ file'[f] = file[f]
  <2>1. file \in Seq(S \cup {new})
    BY <1>1
  <2> QED
    BY <1>2, <1>4, <2>1
<1>5. ASSUME NEW p \in Paths, Rewrite(p)
      PROVE f \in 1..Len(file') /\ file[f].time = t /\ file'[f].content = file[f].content
  <2>1. PICK c : file' = [file EXCEPT ![tree[at][p]].content = c, ![tree[at][p]].time = Now]
    BY <1>5 DEF Rewrite
  <2>2. PICK g : g = tree[at][p]
    OBVIOUS
  <2>3. DOMAIN file' = DOMAIN file /\ Len(file') = Len(file)
    BY <1>2, <2>1
  <2>4. CASE f = g
    <3>1. file'[f] = [file[f] EXCEPT !.content = c, !.time = budget]
      BY <1>2, <2>1, <2>2, <2>4 DEF Now
    <3>2. file'[f].time = budget
      BY <1>2, <3>1 DEF FileFields
    <3> QED
      BY <1>2, <3>2 DEF Fenced
  <2>5. CASE f # g
    <3>1. file'[f] = file[f]
      BY <1>2, <2>1, <2>2, <2>5
    <3> QED
      BY <2>3, <3>1
  <2> QED
    BY <2>4, <2>5
<1>6. ASSUME NEW p \in Paths, ChangeMode(p)
      PROVE f \in 1..Len(file') /\ file[f].time = t /\ file'[f].content = file[f].content
  <2>1. file' = [file EXCEPT ![tree[at][p]].mode = "executable"]
    BY <1>6 DEF ChangeMode
  <2>2. PICK g : g = tree[at][p]
    OBVIOUS
  <2>3. DOMAIN file' = DOMAIN file /\ Len(file') = Len(file)
    BY <1>2, <2>1
  <2>4. CASE f = g
    <3>1. file'[f] = [file[f] EXCEPT !.mode = "executable"]
      BY <1>2, <2>1, <2>2, <2>4
    <3>2. file'[f].time = file[f].time /\ file'[f].content = file[f].content
      BY <1>2, <3>1 DEF FileFields
    <3> QED
      BY <2>3, <3>2
  <2>5. CASE f # g
    <3>1. file'[f] = file[f]
      BY <1>2, <2>1, <2>2, <2>5
    <3> QED
      BY <2>3, <3>1
  <2> QED
    BY <2>4, <2>5
<1>7. ASSUME NEW p \in Paths, Replace(p) PROVE \E new : file' = Append(file, new)
  BY <1>7 DEF Replace
<1>8. ASSUME NEW p \in Paths, Unlink(p) PROVE file' = file
  BY <1>8 DEF Unlink
<1>9. SwapRoot => file' = file
  BY DEF SwapRoot
<1> QED
  BY <1>3, <1>4, <1>5, <1>6, <1>7, <1>8, <1>9 DEF Edit

\* No file goes away.
LEMMA DiskGrows ==
  ASSUME DiskOK, Edit, NEW f \in 1..Len(file)
  PROVE f \in 1..Len(file')
<1>1. PICK S : file \in Seq(S)
  BY DEF DiskOK
<1>2. DOMAIN file = 1..Len(file) /\ Len(file) \in Nat
  BY <1>1
<1>3. ASSUME NEW new, file' = Append(file, new) PROVE f \in 1..Len(file')
  <2>1. file \in Seq(S \cup {new})
    BY <1>1
  <2> QED
    BY <1>2, <1>3, <2>1
<1>4. ASSUME NEW p \in Paths, Rewrite(p) PROVE Len(file') = Len(file)
  BY <1>1, <1>2, <1>4 DEF Rewrite
<1>5. ASSUME NEW p \in Paths, ChangeMode(p) PROVE Len(file') = Len(file)
  BY <1>1, <1>2, <1>5 DEF ChangeMode
<1>6. ASSUME NEW p \in Paths, Replace(p) PROVE \E new : file' = Append(file, new)
  BY <1>6 DEF Replace
<1>7. SwapRoot \/ (\E p \in Paths : Unlink(p)) => file' = file
  BY DEF SwapRoot, Unlink
<1> QED
  BY <1>3, <1>4, <1>5, <1>6, <1>7 DEF Edit

\* An edit leaves a file system.
LEMMA DiskEdited ==
  ASSUME DiskOK, Edit
  PROVE DiskOK' /\ budget' \in Nat /\ budget' = budget - 1
<1>1. PICK S : file \in Seq(S)
  BY DEF DiskOK
<1>2. /\ budget \in Nat /\ DOMAIN file = 1..Len(file) /\ Len(file) \in Nat /\ at \in Dirs
      /\ tree \in [Dirs -> [Paths -> 0..Len(file)]] /\ times \in [Dirs -> Int]
      /\ \A d \in Dirs : Fenced(times[d], budget)
      /\ \A i \in 1..Len(file) : Fenced(file[i].time, budget) /\ DOMAIN file[i] = FileFields
  BY <1>1 DEF DiskOK
<1>3. budget' = budget - 1 /\ budget > 0
  BY DEF Edit, SwapRoot, Rewrite, ChangeMode, Replace, Unlink, Edited, Editing
<1>4. budget' \in Nat
  BY <1>2, <1>3
<1>5. \A t : Fenced(t, budget) \/ t = budget => Fenced(t, budget')
  BY <1>2, <1>3 DEF Fenced
<1>6. at' \in Dirs
  <2>1. at' = at \/ at' = 3 - at
    BY DEF Edit, SwapRoot, Rewrite, ChangeMode, Replace, Unlink
  <2> QED
    BY <1>2, <2>1 DEF Dirs
<1>7. times' \in [Dirs -> Int] /\ \A d \in Dirs : Fenced(times'[d], budget')
  <2>1. times' = times \/ times' = [times EXCEPT ![at] = budget]
    BY DEF Edit, SwapRoot, Rewrite, ChangeMode, Replace, Unlink, EntriesChanged, Now
  <2> QED
    BY <1>2, <1>5, <2>1
<1>8. ASSUME NEW p \in Paths, tree' = tree \/ tree' = [tree EXCEPT ![at][p] = NoFile], file' = file
      PROVE DiskOK'
  <2>1. NoFile \in 0..Len(file)
    BY <1>2 DEF NoFile
  <2>2. [tree EXCEPT ![at][p] = NoFile] \in [Dirs -> [Paths -> 0..Len(file)]]
    BY <1>2, <2>1
  <2>3. tree' \in [Dirs -> [Paths -> 0..Len(file)]]
    BY <1>2, <1>8, <2>2
  <2> QED
    BY <1>1, <1>2, <1>3, <1>4, <1>5, <1>6, <1>7, <1>8, <2>3 DEF DiskOK
<1>9. ASSUME NEW p \in Paths, NEW new, Fenced(new.time, budget'), DOMAIN new = FileFields,
             file' = Append(file, new), tree' = [tree EXCEPT ![at][p] = Len(file) + 1]
      PROVE DiskOK'
  <2>1. file \in Seq(S \cup {new})
    BY <1>1
  <2>2. file' \in Seq(S \cup {new}) /\ Len(file') = Len(file) + 1 /\ file'[Len(file) + 1] = new
        /\ \A i \in 1..Len(file) : file'[i] = file[i]
    BY <1>2, <1>9, <2>1
  <2>3. \A i \in 1..Len(file') : Fenced(file'[i].time, budget') /\ DOMAIN file'[i] = FileFields
    <3>1. \A i \in 1..Len(file') : i \in 1..Len(file) \/ i = Len(file) + 1
      BY <1>2, <2>2
    <3> QED
      BY <1>2, <1>5, <1>9, <2>2, <3>1
  <2>4. 0..Len(file) \subseteq 0..Len(file') /\ Len(file) + 1 \in 0..Len(file')
    BY <1>2, <2>2
  <2>5. tree' \in [Dirs -> [Paths -> 0..Len(file')]]
    BY <1>2, <1>9, <2>4
  <2>6. \E T : file' \in Seq(T)
    BY <2>2
  <2> QED
    BY <1>4, <1>6, <1>7, <2>3, <2>5, <2>6 DEF DiskOK
<1>10. ASSUME NEW g \in 1..Len(file), NEW new, Fenced(new.time, budget'), DOMAIN new = FileFields,
              file' = [file EXCEPT ![g] = new], tree' = tree
       PROVE DiskOK'
  <2>1. file \in Seq(S \cup {new})
    BY <1>1
  <2>2. file' \in Seq(S \cup {new}) /\ Len(file') = Len(file)
    BY <1>2, <1>10, <2>1
  <2>3. \A i \in 1..Len(file') : file'[i] = new \/ (i \in 1..Len(file) /\ file'[i] = file[i])
    BY <1>2, <1>10, <2>2
  <2>4. \A i \in 1..Len(file') : Fenced(file'[i].time, budget') /\ DOMAIN file'[i] = FileFields
    BY <1>2, <1>5, <1>10, <2>3
  <2>5. \E T : file' \in Seq(T)
    BY <2>2
  <2> QED
    BY <1>2, <1>4, <1>6, <1>7, <1>10, <2>2, <2>4, <2>5 DEF DiskOK
<1>11. ASSUME NEW p \in Paths, Rewrite(p) PROVE DiskOK'
  <2>1. PICK g : g = tree[at][p]
    OBVIOUS
  <2>2. g \in 1..Len(file) /\ tree' = tree
    BY <1>2, <1>11, <2>1 DEF Rewrite, NoFile
  <2>3. PICK c : file' = [file EXCEPT ![g].content = c, ![g].time = budget]
    BY <1>11, <2>1 DEF Rewrite, Now
  <2>4. PICK new : new = [file[g] EXCEPT !.content = c, !.time = budget]
    OBVIOUS
  <2>5. DOMAIN new = FileFields /\ new.time = budget
    BY <1>2, <2>2, <2>4 DEF FileFields
  <2>6. file' = [file EXCEPT ![g] = new]
    BY <1>2, <2>2, <2>3, <2>4
  <2>7. Fenced(new.time, budget')
    BY <1>5, <2>5
  <2> QED
    BY <1>10, <2>2, <2>5, <2>6, <2>7
<1>12. ASSUME NEW p \in Paths, ChangeMode(p) PROVE DiskOK'
  <2>1. PICK g : g = tree[at][p]
    OBVIOUS
  <2>2. g \in 1..Len(file) /\ tree' = tree
    BY <1>2, <1>12, <2>1 DEF ChangeMode, NoFile
  <2>3. PICK new : new = [file[g] EXCEPT !.mode = "executable"]
    OBVIOUS
  <2>4. DOMAIN new = FileFields /\ new.time = file[g].time
    BY <1>2, <2>2, <2>3 DEF FileFields
  <2>5. file' = [file EXCEPT ![g] = new]
    BY <1>2, <1>12, <2>1, <2>2, <2>3 DEF ChangeMode
  <2>6. Fenced(new.time, budget')
    BY <1>2, <1>5, <2>2, <2>4
  <2> QED
    BY <1>10, <2>2, <2>4, <2>5, <2>6
<1>13. ASSUME NEW p \in Paths, Replace(p) PROVE DiskOK'
  <2>1. PICK c, mode : file' = Append(file, [content |-> c, mode |-> mode, time |-> budget])
    BY <1>13 DEF Replace, Now
  <2>2. PICK new : new = [content |-> c, mode |-> mode, time |-> budget]
    OBVIOUS
  <2>3. new.time = budget /\ DOMAIN new = FileFields
    BY <2>2 DEF FileFields
  <2>4. Fenced(new.time, budget')
    BY <1>5, <2>3
  <2>5. file' = Append(file, new) /\ tree' = [tree EXCEPT ![at][p] = Len(file) + 1]
    BY <1>13, <2>1, <2>2 DEF Replace
  <2> QED
    BY <1>9, <2>3, <2>4, <2>5
<1>14. ASSUME NEW p \in Paths, Unlink(p) PROVE DiskOK'
  BY <1>8, <1>14 DEF Unlink
<1>15. ASSUME SwapRoot PROVE DiskOK'
  BY <1>8, <1>15, PathsAssumption DEF SwapRoot
<1>16. DiskOK'
  BY <1>11, <1>12, <1>13, <1>14, <1>15 DEF Edit
<1> QED
  BY <1>3, <1>4, <1>16

\* An edit takes nothing from what the call may rely on.
LEMMA EditStep ==
  ASSUME FenceInv, Edit
  PROVE FenceInv'
<1>1. DiskOK /\ DiskOK' /\ budget \in Nat /\ budget' \in Nat /\ budget' = budget - 1
  BY DiskEdited DEF FenceInv, DiskOK
<1>2. UNCHANGED <<entry, call, staging, verdict>> /\ verdict = "none"
  BY DEF Edit, SwapRoot, Rewrite, ChangeMode, Replace, Unlink, Edited, Editing
<1>3. \A t : Fenced(t, budget) => Fenced(t, budget')
  BY <1>1 DEF Fenced
<1>4. \A c : (StepOK(c)' <=> StepOK(c))
  BY <1>2 DEF StepOK, VerifiesFS
<1>5. ReadOK(call, file, budget)'
  <2>1. ReadOK(call, file, budget)
    BY DEF FenceInv
  <2>2. \A f \in 1..Len(file) : f \in 1..Len(file')
    BY <1>1, DiskGrows
  <2>3. call.step \in Reading \cup {"stat"} => call.handle \in 1..Len(file')
    BY <2>1, <2>2 DEF ReadOK
  <2>4. ASSUME call.step \in Reading
        PROVE /\ call.before.id = call.handle /\ Fenced(call.before.time, budget')
              /\ VerifiesFS => call.inventory[call.path].time = call.before.time
              /\ file'[call.handle].time = call.before.time =>
                   /\ call.step = "tail" => call.head = file'[call.handle].content
                   /\ call.step \in {"statAfter", "lstatAfter"}
                      => call.raw = <<file'[call.handle].content, file'[call.handle].content>>
    <3>1. /\ call.handle \in 1..Len(file) /\ call.before.id = call.handle
          /\ Fenced(call.before.time, budget)
          /\ VerifiesFS => call.inventory[call.path].time = call.before.time
          /\ file[call.handle].time = call.before.time =>
               /\ call.step = "tail" => call.head = file[call.handle].content
               /\ call.step \in {"statAfter", "lstatAfter"}
                  => call.raw = <<file[call.handle].content, file[call.handle].content>>
      BY <2>1, <2>4 DEF ReadOK
    <3>2. file'[call.handle].time = call.before.time
          => /\ file[call.handle].time = call.before.time
             /\ file'[call.handle].content = file[call.handle].content
      BY <1>1, <3>1, FileUnedited
    <3> QED
      BY <1>3, <3>1, <3>2
  <2> QED
    BY <1>2, <2>3, <2>4 DEF ReadOK, VerifiesFS
<1>6. ASSUME ~VerifiesFS PROVE DirectoryOK(call, tree', times', budget')
  <2>1. DirectoryOK(call, tree, times, budget)
    BY <1>2, <1>6 DEF FenceInv
  <2>2. HeldOK(call, budget')
    BY <1>3, <2>1 DEF DirectoryOK, HeldOK
  <2>3. RootOK(call, tree', times')
    <3> SUFFICES ASSUME call.step \notin Opening, times'[call.held] = call.root.time
                 PROVE RootOK(call, tree', times')
      BY DEF RootOK
    <3>1. call.held \in Dirs /\ Fenced(call.root.time, budget)
      BY <2>1 DEF DirectoryOK, HeldOK, Opening
    <3>2. /\ times[call.held] = call.root.time
          /\ \A p \in Paths : ~PathInfo[p].sub => tree'[call.held][p] = tree[call.held][p]
      BY <1>1, <3>1, RootUnedited
    <3>3. DOMAIN call.bytes \subseteq Paths
      BY <2>1 DEF DirectoryOK, PathsOK
    <3>4. call.step \in Reading \cup {"stat"} => call.path \in Paths
      BY DEF FenceInv, StepOK
    <3> QED
      BY <2>1, <3>2, <3>3, <3>4 DEF DirectoryOK, RootOK
  <2> QED
    BY <2>1, <2>2, <2>3 DEF DirectoryOK
<1>7. EndOK' /\ StagingOK'
  BY <1>2 DEF FenceInv, EndOK, StagingOK, CapabilityAfterCleanup, VerifiesFS
<1> QED
  BY <1>1, <1>2, <1>4, <1>5, <1>6, <1>7 DEF FenceInv, VerifiesFS

-----------------------------------------------------------------------------
(* Steps of the call.                                                        *)

\* The call goes on as c.
LEMMA GotoStep ==
  ASSUME FenceInv, NEW c, Goto(c), verdict = "none", StepOK(c), ReadOK(c, file, budget),
         ~VerifiesFS => DirectoryOK(c, tree, times, budget)
  PROVE FenceInv'
<1>1. call' = c /\ UNCHANGED <<at, tree, times, file, budget, entry, staging, verdict>>
  BY DEF Goto, disk
<1>2. DiskOK' /\ StepOK(call)' /\ ReadOK(call, file, budget)'
  BY <1>1 DEF FenceInv, DiskOK, StepOK, ReadOK, VerifiesFS
<1>3. ~VerifiesFS' => DirectoryOK(call', tree', times', budget')
  BY <1>1 DEF VerifiesFS
<1>4. EndOK' /\ StagingOK'
  BY <1>1 DEF FenceInv, EndOK, StagingOK, CapabilityAfterCleanup, VerifiesFS
<1> QED
  BY <1>2, <1>3, <1>4 DEF FenceInv

\* A call that has returned reads nothing.
LEMMA Returned ==
  ASSUME NEW c, DOMAIN c = CallFields, c.step = "returned", c.walk \subseteq Paths,
         DOMAIN c.inventory \subseteq Paths, DOMAIN c.first \subseteq Paths
  PROVE StepOK(c) /\ ReadOK(c, file, budget)
BY DEF StepOK, ReadOK, Opening, Reading

\* A refusal leaves nothing behind that it could remove.
LEMMA RefuseStep ==
  ASSUME FenceInv, Refuse, verdict = "none"
  PROVE FenceInv'
<1>1. PICK c : c = [Idle EXCEPT !.step = "returned"]
  OBVIOUS
<1>2. call' = c /\ verdict' = "refused" /\ UNCHANGED <<at, tree, times, file, budget, entry>>
      /\ staging' \in (IF staging = "present" THEN {"none", "left"} ELSE {staging})
  BY <1>1 DEF Refuse, disk
<1>3. DOMAIN c = CallFields /\ c.step = "returned" /\ c.bytes = Empty
  BY <1>1 DEF Idle, CallFields
<1>4. StepOK(c) /\ ReadOK(c, file, budget)
  <2>1. c.walk = {} /\ c.inventory = Empty /\ c.first = Empty /\ DOMAIN Empty = {}
    BY <1>1 DEF Idle, Empty
  <2> QED
    BY <1>3, <2>1, Returned
<1>5. DiskOK' /\ StepOK(call)' /\ ReadOK(call, file, budget)'
  BY <1>2, <1>4 DEF FenceInv, DiskOK, StepOK, ReadOK, VerifiesFS
<1>6. EndOK' /\ StagingOK'
  BY <1>2, <1>3 DEF FenceInv, EndOK, StagingOK, CapabilityAfterCleanup, VerifiesFS
<1> QED
  BY <1>2, <1>5, <1>6 DEF FenceInv

\* What a step of the call starts from.
LEMMA CallFacts ==
  ASSUME FenceInv, verdict = "none"
  PROVE /\ DOMAIN call = CallFields /\ DiskOK /\ StepOK(call) /\ ReadOK(call, file, budget)
        /\ ~VerifiesFS => /\ PathsOK(call) /\ IndexOK(call) /\ HeldOK(call, budget)
                          /\ RootOK(call, tree, times) /\ FoundOK(call)
BY DEF FenceInv, StepOK, DirectoryOK

\* The package's root is looked at, opened, and looked at again.
LEMMA OpenRootStableStep ==
  ASSUME FenceInv, OpenRootStable
  PROVE FenceInv'
<1>1. verdict = "none" /\ call.step \in Opening /\ DOMAIN call = CallFields /\ DiskOK /\ StepOK(call)
      /\ ~VerifiesFS /\ PathsOK(call) /\ IndexOK(call) /\ HeldOK(call, budget)
  <2>1. verdict = "none" /\ call.step \in Opening
    BY DEF OpenRootStable, LstatRoot, OpenRoot, StatRoot, At, Opening
  <2> QED
    BY <2>1, CallFacts DEF StepOK
<1>2. ASSUME NEW c, DOMAIN c = CallFields, c.step \in {"openRoot", "statRoot", "list"},
             c.walk = call.walk, c.inventory = call.inventory, c.bytes = call.bytes,
             c.first = call.first, HeldOK(c, budget)
      PROVE StepOK(c) /\ ReadOK(c, file, budget) /\ DirectoryOK(c, tree, times, budget)
  <2>1. c.bytes = Empty /\ DOMAIN c.bytes = {}
    BY <1>1, <1>2 DEF PathsOK, Empty
  <2>2. StepOK(c) /\ ReadOK(c, file, budget) /\ FoundOK(c)
    BY <1>1, <1>2 DEF StepOK, ReadOK, FoundOK, Opening, Reading
  <2>3. PathsOK(c)
    BY <1>1, <1>2, <2>1 DEF PathsOK, Opening, Reading
  <2>4. IndexOK(c) /\ RootOK(c, tree, times)
    BY <1>2, <2>1 DEF IndexOK, RootOK, Opening, Reading
  <2> QED
    BY <1>2, <2>2, <2>3, <2>4 DEF DirectoryOK
<1>3. CASE LstatRoot
  <2>1. PICK c : c = [call EXCEPT !.root = RootInfo(at), !.step = "openRoot"]
    OBVIOUS
  <2>2. Goto(c)
    BY <1>3, <2>1 DEF LstatRoot
  <2>3. /\ DOMAIN c = CallFields /\ c.step = "openRoot" /\ c.root = RootInfo(at)
        /\ c.walk = call.walk /\ c.inventory = call.inventory /\ c.bytes = call.bytes
        /\ c.first = call.first
    BY <1>1, <2>1 DEF CallFields
  <2>4. c.root.id \in Dirs /\ Fenced(c.root.time, budget)
    BY <1>1, <2>3 DEF RootInfo, DiskOK
  <2>5. HeldOK(c, budget)
    BY <2>3, <2>4 DEF HeldOK, Opening
  <2> QED
    BY <1>1, <1>2, <2>2, <2>3, <2>5, GotoStep
<1>4. CASE OpenRoot
  <2>1. PICK c : c = [call EXCEPT !.held = at, !.step = "statRoot"]
    OBVIOUS
  <2>2. Goto(c) /\ call.step = "openRoot"
    BY <1>4, <2>1 DEF OpenRoot, At
  <2>3. /\ DOMAIN c = CallFields /\ c.step = "statRoot" /\ c.root = call.root /\ c.held = at
        /\ c.walk = call.walk /\ c.inventory = call.inventory /\ c.bytes = call.bytes
        /\ c.first = call.first
    BY <1>1, <2>1 DEF CallFields
  <2>4. HeldOK(c, budget)
    BY <1>1, <2>2, <2>3 DEF HeldOK, DiskOK, Opening
  <2> QED
    BY <1>1, <1>2, <2>2, <2>3, <2>4, GotoStep
<1>5. CASE StatRoot
  <2>1. PICK c : c = [call EXCEPT !.step = "list"]
    OBVIOUS
  <2>2. (Goto(c) /\ call.root = RootInfo(call.held)) \/ Refuse
    BY <1>5, <2>1 DEF StatRoot, Check
  <2>3. /\ DOMAIN c = CallFields /\ c.step = "list" /\ c.root = call.root /\ c.held = call.held
        /\ c.walk = call.walk /\ c.inventory = call.inventory /\ c.bytes = call.bytes
        /\ c.first = call.first
    BY <1>1, <2>1 DEF CallFields
  <2>4. call.step = "statRoot"
    BY <1>5 DEF StatRoot, At
  <2>5. call.root = RootInfo(call.held) => HeldOK(c, budget)
    BY <1>1, <2>3, <2>4 DEF HeldOK, RootInfo, Opening
  <2> QED
    BY <1>1, <1>2, <2>2, <2>3, <2>5, GotoStep, RefuseStep
<1> QED
  BY <1>3, <1>4, <1>5 DEF OpenRootStable

\* The walk starts, with the entries of the root the path names.
LEMMA ListRootStep ==
  ASSUME FenceInv, ListRoot
  PROVE FenceInv'
<1>1. verdict = "none" /\ call.step = "list"
  BY DEF ListRoot, At
<1>2. /\ DOMAIN call = CallFields /\ DiskOK /\ StepOK(call)
      /\ ~VerifiesFS => PathsOK(call) /\ HeldOK(call, budget)
  BY <1>1, CallFacts
<1>3. PICK c : c = [call EXCEPT !.walk = Present(FALSE), !.nested = TRUE, !.inventory = Empty,
                                !.listed = at, !.step = "walk"]
  OBVIOUS
<1>4. Goto(c)
  BY <1>3 DEF ListRoot
<1>5. /\ DOMAIN c = CallFields /\ c.step = "walk" /\ c.walk = Present(FALSE) /\ c.inventory = Empty
      /\ c.listed = at /\ c.held = call.held /\ c.root = call.root /\ c.bytes = call.bytes
      /\ c.first = call.first
  BY <1>2, <1>3 DEF CallFields
<1>6. StepOK(c) /\ ReadOK(c, file, budget)
  <2>1. DOMAIN Empty = {} /\ Present(FALSE) \subseteq Paths
    BY DEF Empty, Present
  <2> QED
    BY <1>2, <1>5, <2>1 DEF StepOK, ReadOK, Opening, Reading
<1>7. ASSUME ~VerifiesFS PROVE DirectoryOK(c, tree, times, budget)
  <2>1. c.bytes = Empty /\ DOMAIN Empty = {}
    BY <1>1, <1>2, <1>5, <1>7 DEF PathsOK, Empty
  <2>2. PathsOK(c)
    BY <1>5, <2>1 DEF PathsOK, Opening, Reading, Present
  <2>3. HeldOK(c, budget)
    BY <1>1, <1>2, <1>5, <1>7 DEF HeldOK, Opening
  <2>4. \A p \in Paths : ~PathInfo[p].sub /\ tree[at][p] # NoFile => p \in Present(FALSE)
    BY PathsAssumption DEF Present
  <2>5. RootOK(c, tree, times)
    BY <1>5, <2>1, <2>4 DEF RootOK, Reading
  <2>6. IndexOK(c) /\ FoundOK(c)
    BY <1>5, <2>1 DEF IndexOK, FoundOK, Reading
  <2> QED
    BY <2>2, <2>3, <2>5, <2>6 DEF DirectoryOK
<1> QED
  BY <1>1, <1>4, <1>6, <1>7, GotoStep

\* The walk goes on: an entry more in its hand, or one less and its metadata found.
LEMMA WalkStep ==
  ASSUME FenceInv, NEW c, Goto(c), verdict = "none", call.step = "walk",
         DOMAIN c = CallFields, c.step = "walk", c.walk \subseteq Paths,
         DOMAIN c.inventory \subseteq Paths,
         call.walk \cup DOMAIN call.inventory \subseteq c.walk \cup DOMAIN c.inventory,
         c.listed = call.listed, c.held = call.held, c.root = call.root, c.bytes = call.bytes,
         c.first = call.first
  PROVE FenceInv'
<1>1. StepOK(c) /\ ReadOK(c, file, budget)
  BY CallFacts DEF StepOK, ReadOK, Opening, Reading
<1>2. ASSUME ~VerifiesFS PROVE DirectoryOK(c, tree, times, budget)
  <2>1. PathsOK(call) /\ HeldOK(call, budget) /\ RootOK(call, tree, times)
    BY <1>2, CallFacts
  <2>2. c.bytes = Empty /\ DOMAIN c.bytes = {}
    BY <2>1 DEF PathsOK, Empty
  <2>3. PathsOK(c)
    BY <2>2 DEF PathsOK, Opening, Reading
  <2>4. HeldOK(c, budget)
    BY <2>1 DEF HeldOK, Opening
  <2>5. RootOK(c, tree, times)
    BY <2>1, <2>2 DEF RootOK, Reading, Opening
  <2>6. IndexOK(c) /\ FoundOK(c)
    BY <2>2 DEF IndexOK, FoundOK, Reading
  <2> QED
    BY <2>3, <2>4, <2>5, <2>6 DEF DirectoryOK
<1> QED
  BY <1>1, <1>2, GotoStep

\* The walk itself.
LEMMA ListSubdirectoryStep ==
  ASSUME FenceInv, ListSubdirectory
  PROVE FenceInv'
<1>1. verdict = "none" /\ call.step = "walk"
  BY DEF ListSubdirectory, At
<1>2. DOMAIN call = CallFields /\ StepOK(call)
  BY <1>1, CallFacts
<1>3. PICK c : c = [call EXCEPT !.walk = call.walk \cup Present(TRUE), !.nested = FALSE]
  OBVIOUS
<1>4. Goto(c)
  BY <1>3 DEF ListSubdirectory
<1>5. /\ DOMAIN c = CallFields /\ c.step = "walk" /\ c.walk = call.walk \cup Present(TRUE)
      /\ c.inventory = call.inventory /\ c.listed = call.listed /\ c.held = call.held
      /\ c.root = call.root /\ c.bytes = call.bytes /\ c.first = call.first
  BY <1>1, <1>2, <1>3 DEF CallFields
<1>6. c.walk \subseteq Paths /\ DOMAIN c.inventory \subseteq Paths
  BY <1>2, <1>5 DEF StepOK, Present
<1> QED
  BY <1>1, <1>4, <1>5, <1>6, WalkStep

\* A file is found: its metadata is what it is at that moment.
LEMMA InspectStep ==
  ASSUME FenceInv, NEW p \in call.walk, Inspect(p)
  PROVE FenceInv'
<1>1. verdict = "none" /\ call.step = "walk"
  BY DEF Inspect, At
<1>2. DOMAIN call = CallFields /\ StepOK(call)
  BY <1>1, CallFacts
<1>3. PICK found : found = [q \in DOMAIN call.inventory \cup {p} |->
                             IF q = p THEN Info(tree[at][p]) ELSE call.inventory[q]]
  OBVIOUS
<1>4. PICK c : c = [call EXCEPT !.walk = call.walk \ {p}, !.inventory = found]
  OBVIOUS
<1>5. Goto(c) \/ Refuse
  BY <1>3, <1>4 DEF Inspect
<1>6. /\ DOMAIN c = CallFields /\ c.step = "walk" /\ c.walk = call.walk \ {p}
      /\ c.inventory = found /\ c.listed = call.listed /\ c.held = call.held
      /\ c.root = call.root /\ c.bytes = call.bytes /\ c.first = call.first
  BY <1>1, <1>2, <1>4 DEF CallFields
<1>7. DOMAIN found = DOMAIN call.inventory \cup {p}
  BY <1>3
<1>8. c.walk \subseteq Paths /\ DOMAIN c.inventory \subseteq Paths
  BY <1>2, <1>6, <1>7 DEF StepOK
<1>9. call.walk \cup DOMAIN call.inventory \subseteq c.walk \cup DOMAIN c.inventory
  BY <1>6, <1>7
<1> QED
  BY <1>1, <1>5, <1>6, <1>8, <1>9, WalkStep, RefuseStep

\* A step of VerifyFS that is not a return.
LEMMA StagedStep ==
  ASSUME FenceInv, VerifiesFS, verdict = "none", NEW c, call' = c,
         UNCHANGED <<at, tree, times, file, budget, entry, verdict>>,
         StepOK(c), ReadOK(c, file, budget)
  PROVE FenceInv'
<1>1. DiskOK' /\ StepOK(call)' /\ ReadOK(call, file, budget)' /\ VerifiesFS'
  BY DEF FenceInv, DiskOK, StepOK, ReadOK, VerifiesFS
<1>2. EndOK' /\ StagingOK'
  BY <1>1 DEF EndOK, StagingOK, CapabilityAfterCleanup
<1> QED
  BY <1>1, <1>2 DEF FenceInv

\* The inventory is complete.
LEMMA InventoryTakenStep ==
  ASSUME FenceInv, InventoryTaken
  PROVE FenceInv'
<1>1. verdict = "none" /\ call.step = "walk" /\ call.walk = {}
  BY DEF InventoryTaken, At
<1>2. /\ DOMAIN call = CallFields /\ StepOK(call)
      /\ ~VerifiesFS => PathsOK(call) /\ HeldOK(call, budget) /\ RootOK(call, tree, times)
  BY <1>1, CallFacts
<1>3. CASE ~VerifiesFS /\ ~Refuse
  <2>1. PICK c : c = [call EXCEPT !.step = "statHandle"]
    OBVIOUS
  <2>2. Goto(c)
    BY <1>3, <2>1 DEF InventoryTaken
  <2>3. /\ DOMAIN c = CallFields /\ c.step = "statHandle" /\ c.walk = call.walk
        /\ c.inventory = call.inventory /\ c.listed = call.listed /\ c.held = call.held
        /\ c.root = call.root /\ c.bytes = call.bytes /\ c.first = call.first
    BY <1>2, <2>1 DEF CallFields
  <2>4. c.bytes = Empty /\ DOMAIN c.bytes = {}
    BY <1>1, <1>2, <1>3, <2>3 DEF PathsOK, Empty
  <2>5. StepOK(c) /\ ReadOK(c, file, budget) /\ FoundOK(c)
    BY <1>2, <1>3, <2>3 DEF StepOK, ReadOK, FoundOK, Opening, Reading
  <2>6. PathsOK(c) /\ IndexOK(c)
    BY <1>1, <2>3, <2>4 DEF PathsOK, IndexOK, Opening, Reading
  <2>7. HeldOK(c, budget)
    BY <1>1, <1>2, <1>3, <2>3 DEF HeldOK, Opening
  <2>8. RootOK(c, tree, times)
    BY <1>1, <1>2, <1>3, <2>3, <2>4 DEF RootOK, Opening, Reading
  <2> QED
    BY <1>1, <2>2, <2>5, <2>6, <2>7, <2>8, GotoStep DEF DirectoryOK
<1>4. CASE VerifiesFS /\ ~Refuse
  <2>1. PICK c \in {[call EXCEPT !.first = call.inventory, !.step = "next"],
                    [call EXCEPT !.step = "verifyStaged"]} :
          call' = c /\ UNCHANGED <<at, tree, times, file, budget, entry, verdict>>
    BY <1>4 DEF InventoryTaken, Check, Goto, disk
  <2>2. /\ DOMAIN c = CallFields /\ c.step \in {"next", "verifyStaged"} /\ c.walk = call.walk
        /\ c.inventory = call.inventory /\ c.first \in {call.first, call.inventory}
    BY <1>2, <2>1 DEF CallFields
  <2>3. StepOK(c) /\ ReadOK(c, file, budget)
    BY <1>2, <1>4, <2>2 DEF StepOK, ReadOK, Opening, Reading
  <2> QED
    BY <1>1, <1>4, <2>1, <2>3, StagedStep
<1> QED
  BY <1>1, <1>3, <1>4, RefuseStep

\* The directory opened, and the one at the path, are the one remembered.
LEMMA StatHandleStep ==
  ASSUME FenceInv, StatHandle
  PROVE FenceInv'
<1>1. verdict = "none" /\ call.step = "statHandle"
  BY DEF StatHandle, At
<1>2. /\ DOMAIN call = CallFields /\ StepOK(call) /\ ~VerifiesFS /\ PathsOK(call) /\ IndexOK(call)
      /\ HeldOK(call, budget) /\ RootOK(call, tree, times)
  BY <1>1, CallFacts DEF StepOK
<1>3. PICK c : c = [call EXCEPT !.step = "lstatAgain"]
  OBVIOUS
<1>4. Goto(c) \/ Refuse
  BY <1>3 DEF StatHandle, Check
<1>5. /\ DOMAIN c = CallFields /\ c.step = "lstatAgain" /\ c.walk = call.walk
      /\ c.inventory = call.inventory /\ c.listed = call.listed /\ c.held = call.held
      /\ c.root = call.root /\ c.bytes = call.bytes /\ c.first = call.first /\ c.index = call.index
  BY <1>2, <1>3 DEF CallFields
<1>6. StepOK(c) /\ ReadOK(c, file, budget) /\ FoundOK(c)
  BY <1>2, <1>5 DEF StepOK, ReadOK, FoundOK, Opening, Reading
<1>7. PathsOK(c) /\ IndexOK(c)
  BY <1>1, <1>2, <1>5 DEF PathsOK, IndexOK, Opening, Reading
<1>8. HeldOK(c, budget) /\ RootOK(c, tree, times)
  BY <1>1, <1>2, <1>5 DEF HeldOK, RootOK, Opening, Reading
<1> QED
  BY <1>1, <1>4, <1>6, <1>7, <1>8, GotoStep, RefuseStep DEF DirectoryOK

\* The last look at the path: the call returns with the directory that is there.
LEMMA LstatAgainStep ==
  ASSUME FenceInv, LstatAgain
  PROVE FenceInv'
<1>1. verdict = "none" /\ call.step = "lstatAgain"
  BY DEF LstatAgain, At
<1>2. /\ DOMAIN call = CallFields /\ StepOK(call) /\ ~VerifiesFS /\ PathsOK(call) /\ IndexOK(call)
      /\ HeldOK(call, budget) /\ RootOK(call, tree, times) /\ DiskOK
  BY <1>1, CallFacts DEF StepOK
<1>3. CASE RootStable(at) /\ call.bytes = Empty
  <2>1. PICK c : c = [call EXCEPT !.path = Index, !.step = "lstat"]
    OBVIOUS
  <2>2. Goto(c)
    BY <1>3, <2>1 DEF LstatAgain
  <2>3. /\ DOMAIN c = CallFields /\ c.step = "lstat" /\ c.path = Index /\ c.walk = call.walk
        /\ c.inventory = call.inventory /\ c.listed = call.listed /\ c.held = call.held
        /\ c.root = call.root /\ c.bytes = call.bytes /\ c.first = call.first
    BY <1>2, <2>1 DEF CallFields
  <2>4. StepOK(c) /\ ReadOK(c, file, budget) /\ FoundOK(c)
    BY <1>2, <2>3 DEF StepOK, ReadOK, FoundOK, Opening, Reading
  <2>5. PathsOK(c) /\ IndexOK(c)
    BY <1>1, <1>2, <1>3, <2>3 DEF PathsOK, IndexOK, Opening, Reading
  <2>6. HeldOK(c, budget) /\ RootOK(c, tree, times)
    BY <1>1, <1>2, <2>3 DEF HeldOK, RootOK, Opening, Reading
  <2> QED
    BY <1>1, <2>2, <2>4, <2>5, <2>6, GotoStep DEF DirectoryOK
<1>4. CASE RootStable(at) /\ call.bytes # Empty
  <2>1. PICK c : c = [call EXCEPT !.step = "returned"]
    OBVIOUS
  <2>2. /\ call' = c /\ verdict' = "verified"
        /\ UNCHANGED <<at, tree, times, file, budget, entry, staging>>
    BY <1>4, <2>1 DEF LstatAgain, disk
  <2>3. /\ DOMAIN c = CallFields /\ c.step = "returned" /\ c.walk = call.walk
        /\ c.inventory = call.inventory /\ c.listed = call.listed /\ c.held = call.held
        /\ c.root = call.root /\ c.bytes = call.bytes /\ c.first = call.first /\ c.index = call.index
    BY <1>2, <2>1 DEF CallFields
  <2>4. StepOK(c) /\ ReadOK(c, file, budget) /\ FoundOK(c)
    BY <1>2, <2>3 DEF StepOK, ReadOK, FoundOK, Opening, Reading
  <2>5. PathsOK(c) /\ IndexOK(c)
    BY <1>1, <1>2, <2>3 DEF PathsOK, IndexOK, Opening, Reading
  <2>6. HeldOK(c, budget) /\ RootOK(c, tree, times)
    BY <1>1, <1>2, <2>3 DEF HeldOK, RootOK, Opening, Reading
  <2>7. at = call.held /\ times[at] = call.root.time
    BY <1>1, <1>2, <1>4 DEF HeldOK, RootStable, RootInfo, Opening
  <2>8. DiskOK' /\ StepOK(call)' /\ ReadOK(call, file, budget)' /\ DirectoryOK(call, tree, times, budget)'
    <3>1. DiskOK'
      BY <1>2, <2>2 DEF DiskOK
    <3>2. StepOK(call)' /\ ReadOK(call, file, budget)'
      BY <2>2, <2>4 DEF StepOK, ReadOK, VerifiesFS
    <3>3. DirectoryOK(c, tree, times, budget)
      BY <2>4, <2>5, <2>6 DEF DirectoryOK
    <3> QED
      BY <2>2, <3>1, <3>2, <3>3
  <2>9. EndOK'
    BY <1>4, <2>2, <2>3, <2>7 DEF EndOK
  <2>10. StagingOK'
    BY <1>2, <2>2 DEF FenceInv, StagingOK, CapabilityAfterCleanup, VerifiesFS
  <2> QED
    BY <2>8, <2>9, <2>10 DEF FenceInv
<1>5. CASE ~RootStable(at)
  BY <1>1, <1>5, RefuseStep DEF LstatAgain
<1> QED
  BY <1>3, <1>4, <1>5

-----------------------------------------------------------------------------
(* Steps of a read.                                                          *)

\* The read of the same file goes on: nothing of what was found or read before
\* changes, and the file is the one at its path in the directory opened, if it was.
LEMMA ReadingStep ==
  ASSUME FenceInv, verdict = "none", NEW c, Goto(c), DOMAIN c = CallFields,
         call.step \in Reading \cup {"lstat", "open", "stat"},
         c.step \in Reading \cup {"open", "stat"},
         ReadOK(c, file, budget), c.step = "lstatAfter" => ~VerifiesFS,
         c.path = call.path, c.walk = call.walk, c.inventory = call.inventory,
         c.listed = call.listed, c.held = call.held, c.root = call.root, c.bytes = call.bytes,
         c.first = call.first, c.index = call.index,
         call.step = "lstat" => call.path \in DOMAIN call.inventory,
         \/ c.handle = call.handle /\ call.step \in Reading \cup {"stat"}
         \/ c.step = "open"
         \/ c.step = "stat" /\ (~VerifiesFS => c.handle = tree[call.held][call.path]),
         ~VerifiesFS => FoundOK(c)
  PROVE FenceInv'
<1>1. /\ DOMAIN call = CallFields /\ StepOK(call)
      /\ ~VerifiesFS => /\ PathsOK(call) /\ IndexOK(call) /\ HeldOK(call, budget)
                        /\ RootOK(call, tree, times)
  BY CallFacts
<1>2. c.path \in Paths
  BY <1>1 DEF StepOK
<1>3. StepOK(c)
  BY <1>1, <1>2 DEF StepOK, Opening, Reading
<1>4. ASSUME ~VerifiesFS PROVE DirectoryOK(c, tree, times, budget)
  <2>1. PathsOK(c)
    BY <1>1, <1>4 DEF PathsOK, Opening, Reading
  <2>2. IndexOK(c)
    BY <1>1, <1>4 DEF IndexOK, Reading
  <2>3. HeldOK(c, budget)
    BY <1>1, <1>4 DEF HeldOK, Opening, Reading
  <2>4. RootOK(c, tree, times)
    BY <1>1, <1>4 DEF RootOK, Opening, Reading
  <2> QED
    BY <1>4, <2>1, <2>2, <2>3, <2>4 DEF DirectoryOK
<1> QED
  BY <1>3, <1>4, GotoStep

\* The path, before it is opened.
LEMMA LstatStep ==
  ASSUME FenceInv, Lstat
  PROVE FenceInv'
<1>1. verdict = "none" /\ call.step = "lstat"
  BY DEF Lstat, At
<1>2. DOMAIN call = CallFields
  BY <1>1, CallFacts
<1>3. PICK info : info = Info(tree[at][call.path])
  OBVIOUS
<1>4. PICK c : c = [call EXCEPT !.before = info, !.step = "open"]
  OBVIOUS
<1>5. (Goto(c) /\ call.path \in DOMAIN call.inventory) \/ Refuse
  BY <1>3, <1>4 DEF Lstat
<1>6. /\ DOMAIN c = CallFields /\ c.step = "open" /\ c.path = call.path /\ c.walk = call.walk
      /\ c.inventory = call.inventory /\ c.listed = call.listed /\ c.held = call.held
      /\ c.root = call.root /\ c.bytes = call.bytes /\ c.first = call.first /\ c.index = call.index
  BY <1>2, <1>4 DEF CallFields
<1>7. ReadOK(c, file, budget) /\ FoundOK(c)
  BY <1>6 DEF ReadOK, FoundOK, Reading
<1> QED
  BY <1>1, <1>5, <1>6, <1>7, ReadingStep, RefuseStep

\* The open file is there, and is what the directory opened has at the path.
LEMMA OpenFileStep ==
  ASSUME FenceInv, OpenFile
  PROVE FenceInv'
<1>1. verdict = "none" /\ call.step = "open"
  BY DEF OpenFile, At
<1>2. /\ DOMAIN call = CallFields /\ DiskOK /\ call.path \in Paths
      /\ ~VerifiesFS => call.held \in Dirs
  BY <1>1, CallFacts DEF StepOK, HeldOK
<1>3. PICK f : f = tree[IF VerifiesFS THEN at ELSE call.held][call.path]
  OBVIOUS
<1>4. PICK c : c = [call EXCEPT !.handle = f, !.step = "stat"]
  OBVIOUS
<1>5. (Goto(c) /\ f # NoFile) \/ Refuse
  BY <1>3, <1>4 DEF OpenFile
<1>6. /\ DOMAIN c = CallFields /\ c.step = "stat" /\ c.path = call.path /\ c.walk = call.walk
      /\ c.inventory = call.inventory /\ c.listed = call.listed /\ c.held = call.held
      /\ c.root = call.root /\ c.bytes = call.bytes /\ c.first = call.first /\ c.index = call.index
      /\ c.handle = f
  BY <1>2, <1>4 DEF CallFields
<1>7. f \in 0..Len(file) /\ Len(file) \in Nat
  BY <1>2, <1>3 DEF DiskOK
<1>8. f # NoFile => ReadOK(c, file, budget)
  BY <1>6, <1>7 DEF ReadOK, Reading, NoFile
<1>9. FoundOK(c)
  BY <1>6 DEF FoundOK, Reading
<1>10. ~VerifiesFS => c.handle = tree[call.held][call.path]
  BY <1>3, <1>6
<1> QED
  BY <1>1, <1>5, <1>6, <1>8, <1>9, <1>10, ReadingStep, RefuseStep

\* The open file is the one the walk found.
LEMMA StatFileStep ==
  ASSUME FenceInv, StatFile
  PROVE FenceInv'
<1>1. verdict = "none" /\ call.step = "stat"
  BY DEF StatFile, At
<1>2. DOMAIN call = CallFields /\ DiskOK /\ call.handle \in 1..Len(file)
  BY <1>1, CallFacts DEF ReadOK
<1>3. PICK c : c = [call EXCEPT !.before = Handle, !.step = "head"]
  OBVIOUS
<1>4. \/ Refuse
      \/ /\ Goto(c)
         /\ VerifiesFS => Attributes(Inventoried) = Attributes(Handle)
         /\ ~VerifiesFS => SameFile(Inventoried, Handle)
  BY <1>3 DEF StatFile, Check
<1>5. /\ DOMAIN c = CallFields /\ c.step = "head" /\ c.path = call.path /\ c.walk = call.walk
      /\ c.inventory = call.inventory /\ c.listed = call.listed /\ c.held = call.held
      /\ c.root = call.root /\ c.bytes = call.bytes /\ c.first = call.first /\ c.index = call.index
      /\ c.handle = call.handle /\ c.before = Handle
  BY <1>2, <1>3 DEF CallFields
<1>6. Handle.id = call.handle /\ Handle.time = file[call.handle].time
  BY DEF Handle, Info
<1>7. Attributes(Inventoried) = Attributes(Handle) => Inventoried.time = Handle.time
  BY DEF Attributes
<1>8. Fenced(Handle.time, budget)
  BY <1>2, <1>6 DEF DiskOK
<1>9. ReadOK(c, file, budget) \/ Refuse
  BY <1>2, <1>4, <1>5, <1>6, <1>7, <1>8 DEF ReadOK, Reading, Inventoried
<1>10. ~VerifiesFS /\ ~Refuse => FoundOK(c)
  BY <1>4, <1>5, <1>6 DEF FoundOK, SameFile, Inventoried
<1> QED
  BY <1>1, <1>4, <1>5, <1>9, <1>10, ReadingStep, RefuseStep DEF Reading

\* The two parts are read.
LEMMA ReadHeadStep ==
  ASSUME FenceInv, ReadHead
  PROVE FenceInv'
<1>1. verdict = "none" /\ call.step = "head"
  BY DEF ReadHead, At
<1>2. DOMAIN call = CallFields /\ ReadOK(call, file, budget) /\ (~VerifiesFS => FoundOK(call))
  BY <1>1, CallFacts
<1>3. PICK c : c = [call EXCEPT !.head = file[call.handle].content, !.step = "tail"]
  OBVIOUS
<1>4. Goto(c)
  BY <1>3 DEF ReadHead
<1>5. /\ DOMAIN c = CallFields /\ c.step = "tail" /\ c.path = call.path /\ c.walk = call.walk
      /\ c.inventory = call.inventory /\ c.listed = call.listed /\ c.held = call.held
      /\ c.root = call.root /\ c.bytes = call.bytes /\ c.first = call.first /\ c.index = call.index
      /\ c.handle = call.handle /\ c.before = call.before /\ c.head = file[call.handle].content
  BY <1>2, <1>3 DEF CallFields
<1>6. ReadOK(c, file, budget) /\ (~VerifiesFS => FoundOK(c))
  BY <1>1, <1>2, <1>5 DEF ReadOK, FoundOK, Reading
<1> QED
  BY <1>1, <1>4, <1>5, <1>6, ReadingStep DEF Reading

\* The second part: with the first, the content at the time remembered.
LEMMA ReadTailStep ==
  ASSUME FenceInv, ReadTail
  PROVE FenceInv'
<1>1. verdict = "none" /\ call.step = "tail"
  BY DEF ReadTail, At
<1>2. DOMAIN call = CallFields /\ ReadOK(call, file, budget) /\ (~VerifiesFS => FoundOK(call))
  BY <1>1, CallFacts
<1>3. PICK c : c = [call EXCEPT !.raw = <<call.head, file[call.handle].content>>, !.step = "statAfter"]
  OBVIOUS
<1>4. Goto(c)
  BY <1>3 DEF ReadTail
<1>5. /\ DOMAIN c = CallFields /\ c.step = "statAfter" /\ c.path = call.path /\ c.walk = call.walk
      /\ c.inventory = call.inventory /\ c.listed = call.listed /\ c.held = call.held
      /\ c.root = call.root /\ c.bytes = call.bytes /\ c.first = call.first /\ c.index = call.index
      /\ c.handle = call.handle /\ c.before = call.before
      /\ c.raw = <<call.head, file[call.handle].content>>
  BY <1>2, <1>3 DEF CallFields
<1>6. ReadOK(c, file, budget) /\ (~VerifiesFS => FoundOK(c))
  BY <1>1, <1>2, <1>5 DEF ReadOK, FoundOK, Reading
<1> QED
  BY <1>1, <1>4, <1>5, <1>6, ReadingStep DEF Reading

\* The handle again; a read of VerifyFS ends here.
LEMMA StatAfterStep ==
  ASSUME FenceInv, StatAfter
  PROVE FenceInv'
<1>1. verdict = "none" /\ call.step = "statAfter"
  BY DEF StatAfter, At
<1>2. /\ DOMAIN call = CallFields /\ StepOK(call) /\ ReadOK(call, file, budget)
      /\ ~VerifiesFS => FoundOK(call)
  BY <1>1, CallFacts
<1>3. CASE VerifiesFS /\ ~Refuse
  <2>1. PICK c : c = [Read(call.raw) EXCEPT !.step = "next"]
    OBVIOUS
  <2>2. Goto(c)
    BY <1>3, <2>1 DEF StatAfter, Check
  <2>3. /\ DOMAIN c = CallFields /\ c.step = "next" /\ c.walk = call.walk
        /\ c.inventory = call.inventory /\ c.first = call.first
    BY <1>2, <2>1 DEF CallFields, Read
  <2>4. StepOK(c) /\ ReadOK(c, file, budget)
    BY <1>2, <2>3 DEF StepOK, ReadOK, Opening, Reading
  <2> QED
    BY <1>1, <1>3, <2>2, <2>4, GotoStep
<1>4. CASE ~VerifiesFS /\ ~Refuse
  <2>1. PICK c : c = [call EXCEPT !.step = "lstatAfter"]
    OBVIOUS
  <2>2. Goto(c)
    BY <1>4, <2>1 DEF StatAfter, Check
  <2>3. /\ DOMAIN c = CallFields /\ c.step = "lstatAfter" /\ c.path = call.path /\ c.walk = call.walk
        /\ c.inventory = call.inventory /\ c.listed = call.listed /\ c.held = call.held
        /\ c.root = call.root /\ c.bytes = call.bytes /\ c.first = call.first /\ c.index = call.index
        /\ c.handle = call.handle /\ c.before = call.before /\ c.raw = call.raw
    BY <1>2, <2>1 DEF CallFields
  <2>4. ReadOK(c, file, budget) /\ FoundOK(c)
    BY <1>1, <1>2, <1>4, <2>3 DEF ReadOK, FoundOK, Reading
  <2> QED
    BY <1>1, <1>4, <2>2, <2>3, <2>4, ReadingStep DEF Reading
<1> QED
  BY <1>1, <1>3, <1>4, RefuseStep

\* The path again; a read of VerifyDirectory ends here.
LEMMA LstatAfterStep ==
  ASSUME FenceInv, LstatAfter
  PROVE FenceInv'
<1>1. verdict = "none" /\ call.step = "lstatAfter"
  BY DEF LstatAfter, At
<1>2. /\ DOMAIN call = CallFields /\ StepOK(call) /\ ~VerifiesFS /\ PathsOK(call) /\ IndexOK(call)
      /\ HeldOK(call, budget) /\ RootOK(call, tree, times) /\ FoundOK(call)
  BY <1>1, CallFacts DEF StepOK
<1>3. PICK index : index = (IF call.path = Index THEN Decoded(call.raw) ELSE call.index)
  OBVIOUS
<1>4. PICK c : c = [Read(call.raw) EXCEPT !.step = "next", !.index = index]
  OBVIOUS
<1>5. [Read(call.raw) EXCEPT !.step = "next",
                             !.index = IF call.path = Index THEN Decoded(call.raw) ELSE @] = c
  BY <1>2, <1>3, <1>4 DEF Read, CallFields
<1>6. Refuse \/ (Goto(c) /\ Accepted)
  BY <1>5 DEF LstatAfter, Check
<1>7. PICK bytes : bytes = Bytes(call.raw)
  OBVIOUS
<1>8. /\ DOMAIN c = CallFields /\ c.step = "next" /\ c.walk = call.walk
      /\ c.inventory = call.inventory /\ c.listed = call.listed /\ c.held = call.held
      /\ c.root = call.root /\ c.bytes = bytes /\ c.first = call.first /\ c.index = index
  BY <1>2, <1>4, <1>7 DEF CallFields, Read
<1>9. DOMAIN bytes = DOMAIN call.bytes \cup {call.path} /\ call.path \in DOMAIN call.inventory
  BY <1>1, <1>2, <1>7 DEF Bytes, PathsOK, Reading
<1>10. bytes # Empty
  BY <1>9 DEF Empty
<1>11. StepOK(c) /\ ReadOK(c, file, budget) /\ FoundOK(c)
  BY <1>2, <1>8 DEF StepOK, ReadOK, FoundOK, Opening, Reading
<1>12. PathsOK(c)
  BY <1>1, <1>2, <1>8, <1>9, <1>10 DEF PathsOK, StepOK, Opening, Reading
<1>13. ASSUME Accepted PROVE IndexOK(c)
  <2>1. CASE call.path = Index
    BY <1>3, <1>8, <1>9, <1>13, <2>1 DEF IndexOK, Accepted, ClosureMatches
  <2>2. CASE call.path # Index
    <3>1. call.bytes # Empty
      BY <1>1, <1>2, <2>2 DEF PathsOK, Reading
    <3> QED
      BY <1>2, <1>3, <1>8, <1>9, <2>2, <3>1 DEF IndexOK
  <2> QED
    BY <2>1, <2>2
<1>14. HeldOK(c, budget)
  BY <1>1, <1>2, <1>8 DEF HeldOK, Opening
<1>15. RootOK(c, tree, times)
  <2> SUFFICES ASSUME times[call.held] = call.root.time PROVE RootOK(c, tree, times)
    BY <1>8 DEF RootOK
  <2>1. call.step \notin Opening \cup {"list"} /\ call.step \in Reading
    BY <1>1 DEF Opening, Reading
  <2>2. ~PathInfo[call.path].sub => tree[call.held][call.path] = call.inventory[call.path].id
    BY <1>2, <2>1 DEF RootOK, FoundOK
  <2>3. \A p \in DOMAIN bytes : ~PathInfo[p].sub => tree[call.held][p] = call.inventory[p].id
    BY <1>2, <1>9, <2>1, <2>2 DEF RootOK
  <2> QED
    BY <1>2, <1>8, <2>1, <2>3 DEF RootOK, Reading
<1>16. Accepted => DirectoryOK(c, tree, times, budget)
  BY <1>11, <1>12, <1>13, <1>14, <1>15 DEF DirectoryOK
<1> QED
  BY <1>1, <1>6, <1>11, <1>16, GotoStep, RefuseStep

\* The next file, or the end of the reads.
LEMMA NextFileStep ==
  ASSUME FenceInv, NextFile
  PROVE FenceInv'
<1>1. verdict = "none" /\ call.step = "next"
  BY DEF NextFile, At
<1>2. /\ DOMAIN call = CallFields /\ StepOK(call)
      /\ ~VerifiesFS => /\ PathsOK(call) /\ IndexOK(call) /\ HeldOK(call, budget)
                        /\ RootOK(call, tree, times)
  BY <1>1, CallFacts
<1>3. ASSUME NEW c, Goto(c), DOMAIN c = CallFields, c.walk = call.walk,
             c.inventory = call.inventory, c.listed = call.listed, c.held = call.held,
             c.root = call.root, c.bytes = call.bytes, c.first = call.first, c.index = call.index,
             \/ VerifiesFS /\ c.step = "open" /\ c.path \in Paths
             \/ VerifiesFS /\ c.step = "list"
             \/ ~VerifiesFS /\ c.step = "lstat"
             \/ /\ ~VerifiesFS /\ c.step = "statHandle"
                /\ ListedPaths(call.index) \subseteq DOMAIN call.bytes
      PROVE FenceInv'
  <2>1. StepOK(c) /\ ReadOK(c, file, budget) /\ FoundOK(c)
    BY <1>2, <1>3 DEF StepOK, ReadOK, FoundOK, Opening, Reading
  <2>2. ASSUME ~VerifiesFS PROVE DirectoryOK(c, tree, times, budget)
    <3>1. PathsOK(c) /\ IndexOK(c)
      BY <1>1, <1>2, <1>3, <2>2 DEF PathsOK, IndexOK, Opening, Reading
    <3>2. HeldOK(c, budget) /\ RootOK(c, tree, times)
      BY <1>1, <1>2, <1>3, <2>2 DEF HeldOK, RootOK, Opening, Reading
    <3> QED
      BY <2>1, <3>1, <3>2 DEF DirectoryOK
  <2> QED
    BY <1>1, <1>3, <2>1, <2>2, GotoStep
<1>4. PICK left : left = Unread(IF VerifiesFS THEN DOMAIN call.first ELSE ListedPaths(call.index))
  OBVIOUS
<1>5. CASE \E p \in left : Goto([call EXCEPT !.path = p, !.step = IF VerifiesFS THEN "open" ELSE "lstat"])
  <2>1. PICK p \in left :
          Goto([call EXCEPT !.path = p, !.step = IF VerifiesFS THEN "open" ELSE "lstat"])
    BY <1>5
  <2>2. PICK c : c = [call EXCEPT !.path = p, !.step = IF VerifiesFS THEN "open" ELSE "lstat"]
    OBVIOUS
  <2>3. /\ DOMAIN c = CallFields /\ c.walk = call.walk /\ c.path = p
        /\ c.step = (IF VerifiesFS THEN "open" ELSE "lstat")
        /\ c.inventory = call.inventory /\ c.listed = call.listed /\ c.held = call.held
        /\ c.root = call.root /\ c.bytes = call.bytes /\ c.first = call.first /\ c.index = call.index
    BY <1>2, <2>2 DEF CallFields
  <2>4. VerifiesFS => p \in Paths
    BY <1>2, <1>4 DEF StepOK, Unread
  <2> QED
    BY <1>3, <2>1, <2>2, <2>3, <2>4
<1>6. CASE left = {} /\ VerifiesFS /\ Goto([call EXCEPT !.step = "list"])
  <2>1. PICK c : c = [call EXCEPT !.step = "list"]
    OBVIOUS
  <2>2. /\ DOMAIN c = CallFields /\ c.walk = call.walk /\ c.step = "list"
        /\ c.inventory = call.inventory /\ c.listed = call.listed /\ c.held = call.held
        /\ c.root = call.root /\ c.bytes = call.bytes /\ c.first = call.first /\ c.index = call.index
    BY <1>2, <2>1 DEF CallFields
  <2> QED
    BY <1>3, <1>6, <2>1, <2>2
<1>7. CASE left = {} /\ ~VerifiesFS /\ Goto([call EXCEPT !.step = "statHandle"])
  <2>1. PICK c : c = [call EXCEPT !.step = "statHandle"]
    OBVIOUS
  <2>2. /\ DOMAIN c = CallFields /\ c.walk = call.walk /\ c.step = "statHandle"
        /\ c.inventory = call.inventory /\ c.listed = call.listed /\ c.held = call.held
        /\ c.root = call.root /\ c.bytes = call.bytes /\ c.first = call.first /\ c.index = call.index
    BY <1>2, <2>1 DEF CallFields
  <2>3. ListedPaths(call.index) \subseteq DOMAIN call.bytes
    BY <1>4, <1>7 DEF Unread
  <2> QED
    BY <1>3, <1>7, <2>1, <2>2, <2>3
<1>8. \/ \E p \in left : Goto([call EXCEPT !.path = p, !.step = IF VerifiesFS THEN "open" ELSE "lstat"])
      \/ left = {} /\ VerifiesFS /\ Goto([call EXCEPT !.step = "list"])
      \/ left = {} /\ ~VerifiesFS /\ Goto([call EXCEPT !.step = "statHandle"])
      \/ Refuse
  BY <1>4 DEF NextFile, Check
<1> QED
  BY <1>1, <1>5, <1>6, <1>7, <1>8, RefuseStep

-----------------------------------------------------------------------------
(* What is staged is verified, and removed.                                  *)

\* The private directory has what was read, and nobody else changes it.
LEMMA ReadStagedStep ==
  ASSUME FenceInv, ReadStaged
  PROVE FenceInv'
<1>1. verdict = "none" /\ call.step = "verifyStaged"
  BY DEF ReadStaged, At
<1>2. DOMAIN call = CallFields /\ StepOK(call) /\ VerifiesFS
  BY <1>1, CallFacts DEF StepOK
<1>3. PICK c : c = [call EXCEPT !.index = Decoded(call.bytes[Index]), !.step = "checkStaged"]
  OBVIOUS
<1>4. Goto(c)
  BY <1>3 DEF ReadStaged
<1>5. /\ DOMAIN c = CallFields /\ c.step = "checkStaged" /\ c.walk = call.walk
      /\ c.inventory = call.inventory /\ c.first = call.first
  BY <1>2, <1>3 DEF CallFields
<1>6. StepOK(c) /\ ReadOK(c, file, budget)
  BY <1>2, <1>5 DEF StepOK, ReadOK, Opening, Reading
<1> QED
  BY <1>1, <1>2, <1>4, <1>6, GotoStep

\* A report is returned once the private directory is gone.
LEMMA ReturnStagedStep ==
  ASSUME FenceInv, ReturnStaged
  PROVE FenceInv'
<1>1. verdict = "none" /\ call.step = "checkStaged"
  BY DEF ReturnStaged, At
<1>2. DOMAIN call = CallFields /\ StepOK(call) /\ VerifiesFS /\ DiskOK
  BY <1>1, CallFacts DEF StepOK
<1>3. PICK c : c = [call EXCEPT !.step = "returned"]
  OBVIOUS
<1>4. /\ call' = c /\ verdict' = "verified" /\ staging' = "none"
      /\ UNCHANGED <<at, tree, times, file, budget, entry>>
  BY <1>3 DEF ReturnStaged, disk
<1>5. /\ DOMAIN c = CallFields /\ c.step = "returned" /\ c.walk = call.walk
      /\ c.inventory = call.inventory /\ c.first = call.first
  BY <1>2, <1>3 DEF CallFields
<1>6. StepOK(c) /\ ReadOK(c, file, budget)
  BY <1>2, <1>5, Returned DEF StepOK
<1>7. DiskOK' /\ StepOK(call)' /\ ReadOK(call, file, budget)' /\ VerifiesFS'
  BY <1>2, <1>4, <1>6 DEF DiskOK, StepOK, ReadOK, VerifiesFS
<1>8. EndOK' /\ StagingOK'
  BY <1>4, <1>7 DEF EndOK, StagingOK, CapabilityAfterCleanup
<1> QED
  BY <1>7, <1>8 DEF FenceInv

-----------------------------------------------------------------------------
(* The invariant.                                                            *)

\* Every step keeps the fences.
LEMMA FenceStep ==
  ASSUME FenceInv, [Next]_vars
  PROVE FenceInv'
<1>1. CASE Edit
  BY <1>1, EditStep
<1>2. CASE OpenRootStable
  BY <1>2, OpenRootStableStep
<1>3. CASE Inventory
  BY <1>3, ListRootStep, ListSubdirectoryStep, InspectStep, InventoryTakenStep DEF Inventory
<1>4. CASE AssertRootStable
  BY <1>4, StatHandleStep, LstatAgainStep DEF AssertRootStable
<1>5. CASE NextFile
  BY <1>5, NextFileStep
<1>6. CASE ReadFile
  BY <1>6, LstatStep, OpenFileStep, StatFileStep, ReadHeadStep, ReadTailStep, StatAfterStep,
     LstatAfterStep DEF ReadFile
<1>7. CASE StageFails \/ RefuseStaged
  BY <1>7, RefuseStep DEF StageFails, RefuseStaged, At
<1>8. CASE ReadStaged \/ ReturnStaged
  BY <1>8, ReadStagedStep, ReturnStagedStep
<1>9. CASE UNCHANGED vars
  <2>1. UNCHANGED <<at, tree, times, file, budget, entry, call, staging, verdict>>
    BY <1>9 DEF vars, disk
  <2> QED
    BY <2>1 DEF FenceInv, DiskOK, StepOK, ReadOK, DirectoryOK, PathsOK, IndexOK, HeldOK, RootOK,
                FoundOK, EndOK, StagingOK, CapabilityAfterCleanup, VerifiesFS
<1> QED
  BY <1>1, <1>2, <1>3, <1>4, <1>5, <1>6, <1>7, <1>8, <1>9 DEF Next

\* The files of a directory are as many as its paths.
LEMMA FilesCounted ==
  ASSUME NEW contents, DOMAIN contents \subseteq Paths, NEW time, NEW files,
         files = FilesOf(contents, time)
  PROVE \E n, S :
          /\ n \in Nat
          /\ files \in Seq(S)
          /\ Len(files) = n
          /\ Cardinality(DOMAIN contents) = n
          /\ \A i \in 1..n : files[i].time = time /\ DOMAIN files[i] = FileFields
          /\ \A p \in Paths : PlaceOf(contents, p) \in 0..n
<1>1. IsFiniteSet(DOMAIN contents)
  BY PathsAssumption, FS_Subset
<1>2. PICK n \in Nat : Cardinality(DOMAIN contents) = n
  BY <1>1, FS_CardinalityType
<1>3. files = [i \in 1..n |->
                 LET p == CHOOSE q \in DOMAIN contents : PlaceOf(contents, q) = i
                 IN [content |-> contents[p], mode |-> "plain", time |-> time]]
  BY <1>2 DEF FilesOf
<1>4. PICK S : S = {files[i] : i \in 1..n}
  OBVIOUS
<1>5. files \in Seq(S) /\ Len(files) = n
  BY <1>3, <1>4
<1>6. \A i \in 1..n : files[i].time = time /\ DOMAIN files[i] = FileFields
  BY <1>3 DEF FileFields
<1>7. ASSUME NEW p \in Paths PROVE PlaceOf(contents, p) \in 0..n
  <2>1. PICK below : below = {q \in DOMAIN contents : Rank(q) <= Rank(p)}
    OBVIOUS
  <2>2. below \subseteq DOMAIN contents
    BY <2>1
  <2>3. Cardinality(below) \in Nat /\ Cardinality(below) <= n
    BY <1>1, <1>2, <2>2, FS_Subset, FS_CardinalityType
  <2> QED
    BY <2>1, <2>3 DEF PlaceOf
<1> QED
  BY <1>2, <1>5, <1>6, <1>7

\* The files of one directory, then those of the other.
LEMMA FilesJoined ==
  ASSUME NEW S, NEW a \in Seq(S), NEW b \in Seq(S), NEW m, NEW n, Len(a) = m, Len(b) = n
  PROVE /\ a \o b \in Seq(S)
        /\ Len(a \o b) = m + n
        /\ \A i \in 1..m + n : \/ i \in 1..m /\ (a \o b)[i] = a[i]
                               \/ i - m \in 1..n /\ (a \o b)[i] = b[i - m]
<1>1. m \in Nat /\ n \in Nat /\ a \o b \in Seq(S) /\ Len(a \o b) = m + n
  OBVIOUS
<1>2. \A i \in 1..m : (a \o b)[i] = a[i]
  OBVIOUS
<1>3. \A j \in 1..n : (a \o b)[m + j] = b[j]
  OBVIOUS
<1>4. ASSUME NEW i \in 1..m + n, i \notin 1..m PROVE i - m \in 1..n /\ (a \o b)[i] = b[i - m]
  <2>1. PICK j \in 1..n : i = m + j /\ j = i - m
    BY <1>1, <1>4
  <2> QED
    BY <1>3, <2>1
<1> QED
  BY <1>1, <1>2, <1>4

\* A verification starts with the fences up: no file has the time of an edit to come.
LEMMA InitStep ==
  Init => FenceInv
<1> SUFFICES ASSUME Init PROVE FenceInv
  OBVIOUS
<1>1. PICK package \in Packages :
        /\ file = FilesOf(package, -1) \o FilesOf(Beside[package], -2)
        /\ budget = Edits[package]
        /\ tree = [d \in Dirs |-> [p \in Paths |->
                     CASE d = 1 /\ p \in DOMAIN package -> PlaceOf(package, p)
                       [] d = 2 /\ p \in DOMAIN Beside[package] ->
                            Cardinality(DOMAIN package) + PlaceOf(Beside[package], p)
                       [] OTHER -> NoFile]]
  BY DEF Init
<1>2. /\ budget \in Nat /\ DOMAIN package \subseteq Paths /\ DOMAIN Beside[package] \subseteq Paths
  BY <1>1, PathsAssumption
<1>3. PICK here, beside : here = FilesOf(package, -1) /\ beside = FilesOf(Beside[package], -2)
  OBVIOUS
<1>4. PICK m, S :
        /\ m \in Nat
        /\ here \in Seq(S)
        /\ Len(here) = m
        /\ Cardinality(DOMAIN package) = m
        /\ \A i \in 1..m : here[i].time = -1 /\ DOMAIN here[i] = FileFields
        /\ \A p \in Paths : PlaceOf(package, p) \in 0..m
  BY <1>2, <1>3, FilesCounted
<1>5. PICK n, T :
        /\ n \in Nat
        /\ beside \in Seq(T)
        /\ Len(beside) = n
        /\ Cardinality(DOMAIN Beside[package]) = n
        /\ \A i \in 1..n : beside[i].time = -2 /\ DOMAIN beside[i] = FileFields
        /\ \A p \in Paths : PlaceOf(Beside[package], p) \in 0..n
  <2>1. PICK other : other = Beside[package]
    OBVIOUS
  <2>2. DOMAIN other \subseteq Paths /\ beside = FilesOf(other, -2)
    BY <1>2, <1>3, <2>1
  <2>3. \E n, T : /\ n \in Nat
                  /\ beside \in Seq(T)
                  /\ Len(beside) = n
                  /\ Cardinality(DOMAIN other) = n
                  /\ \A i \in 1..n : beside[i].time = -2 /\ DOMAIN beside[i] = FileFields
                  /\ \A p \in Paths : PlaceOf(other, p) \in 0..n
    BY <2>2, FilesCounted
  <2> QED
    BY <2>1, <2>3
<1>6. Seq(S) \subseteq Seq(S \cup T) /\ Seq(T) \subseteq Seq(S \cup T)
  OBVIOUS
<1>7. here \in Seq(S \cup T) /\ beside \in Seq(S \cup T) /\ file = here \o beside
  BY <1>1, <1>3, <1>4, <1>5, <1>6
<1>8. /\ file \in Seq(S \cup T)
      /\ Len(file) = m + n
      /\ \A i \in 1..m + n : \/ i \in 1..m /\ file[i] = here[i]
                             \/ i - m \in 1..n /\ file[i] = beside[i - m]
  <2>1. /\ here \o beside \in Seq(S \cup T)
        /\ Len(here \o beside) = m + n
        /\ \A i \in 1..m + n : \/ i \in 1..m /\ (here \o beside)[i] = here[i]
                               \/ i - m \in 1..n /\ (here \o beside)[i] = beside[i - m]
    <3>1. Len(here) = m /\ Len(beside) = n /\ here \in Seq(S \cup T) /\ beside \in Seq(S \cup T)
      BY <1>4, <1>5, <1>7
    <3>2. ASSUME NEW U, here \in Seq(U), beside \in Seq(U)
          PROVE /\ here \o beside \in Seq(U)
                /\ Len(here \o beside) = m + n
                /\ \A i \in 1..m + n : \/ i \in 1..m /\ (here \o beside)[i] = here[i]
                                       \/ i - m \in 1..n /\ (here \o beside)[i] = beside[i - m]
      BY <3>1, <3>2, FilesJoined
    <3> QED
      BY <3>1, <3>2
  <2> QED
    BY <1>7, <2>1
<1>9. ASSUME NEW i \in 1..Len(file) PROVE Fenced(file[i].time, budget) /\ DOMAIN file[i] = FileFields
  <2>1. i \in 1..m + n
    BY <1>8
  <2>2. (file[i].time = -1 \/ file[i].time = -2) /\ DOMAIN file[i] = FileFields
    BY <1>4, <1>5, <1>8, <2>1
  <2> QED
    BY <2>2 DEF Fenced
<1>10. tree \in [Dirs -> [Paths -> 0..Len(file)]]
  <2>1. ASSUME NEW d \in Dirs, NEW p \in Paths
        PROVE (CASE d = 1 /\ p \in DOMAIN package -> PlaceOf(package, p)
                 [] d = 2 /\ p \in DOMAIN Beside[package] ->
                      Cardinality(DOMAIN package) + PlaceOf(Beside[package], p)
                 [] OTHER -> NoFile) \in 0..Len(file)
    <3>1. PlaceOf(package, p) \in 0..m /\ PlaceOf(Beside[package], p) \in 0..n
          /\ Cardinality(DOMAIN package) = m
      BY <1>4, <1>5
    <3>2. m \in Nat /\ n \in Nat /\ Len(file) = m + n
      BY <1>4, <1>5, <1>8
    <3>3. /\ PlaceOf(package, p) \in 0..Len(file) /\ NoFile \in 0..Len(file)
          /\ Cardinality(DOMAIN package) + PlaceOf(Beside[package], p) \in 0..Len(file)
      BY <3>1, <3>2 DEF NoFile
    <3> QED
      BY <3>3
  <2> QED
    BY <1>1, <2>1
<1>11. DiskOK
  <2>1. at \in Dirs /\ times \in [Dirs -> Int] /\ \A d \in Dirs : Fenced(times[d], budget)
    BY DEF Init, Dirs, Fenced
  <2> QED
    BY <1>2, <1>8, <1>9, <1>10, <2>1 DEF DiskOK
<1>12. PICK c : c = [Idle EXCEPT !.step = IF VerifiesFS THEN "list" ELSE "lstatRoot"]
  OBVIOUS
<1>13. /\ call = c /\ DOMAIN c = CallFields /\ c.step = (IF VerifiesFS THEN "list" ELSE "lstatRoot")
       /\ c.walk = {} /\ DOMAIN c.inventory = {} /\ DOMAIN c.first = {}
       /\ c.bytes = Empty /\ DOMAIN c.bytes = {}
  BY <1>12 DEF Init, Idle, CallFields, Empty
<1>14. StepOK(call) /\ ReadOK(call, file, budget)
  BY <1>13 DEF StepOK, ReadOK, Opening, Reading
<1>15. ~VerifiesFS => DirectoryOK(call, tree, times, budget)
  BY <1>13 DEF DirectoryOK, PathsOK, IndexOK, HeldOK, RootOK, FoundOK, Opening, Reading
<1>16. EndOK /\ StagingOK
  BY DEF Init, EndOK, StagingOK, CapabilityAfterCleanup
<1> QED
  BY <1>11, <1>14, <1>15, <1>16 DEF FenceInv

\* Whatever the package, the edits and their number, a file or a root whose time is
\* the one remembered is what it was then.
THEOREM FenceInvAlways == Spec => []FenceInv
<1>1. Init => FenceInv
  BY InitStep
<1>2. FenceInv /\ [Next]_vars => FenceInv'
  BY FenceStep
<1> QED
  BY <1>1, <1>2, PTL DEF Spec

\* A verified report of VerifyDirectory returns with the directory it opened at the
\* package's path, each file of its root still the one that was found and read.
THEOREM RootAsListedAlways == Spec => []RootAsListed
<1>1. FenceInv => RootAsListed
  <2> SUFFICES ASSUME FenceInv, verdict = "verified", ~VerifiesFS PROVE RootAsListed
    BY DEF RootAsListed
  <2>1. /\ call.step = "returned" /\ call.bytes # Empty
        /\ at = call.held /\ times[at] = call.root.time
    BY DEF FenceInv, EndOK
  <2>2. PathsOK(call) /\ IndexOK(call) /\ RootOK(call, tree, times)
    BY DEF FenceInv, DirectoryOK
  <2>3. call.walk = {} /\ DOMAIN call.inventory \subseteq DOMAIN call.bytes
    BY <2>1, <2>2 DEF PathsOK, IndexOK
  <2>4. /\ call.listed = call.held =>
             \A p \in Paths : ~PathInfo[p].sub /\ tree[call.held][p] # NoFile
                              => p \in call.walk \cup DOMAIN call.inventory
        /\ \A p \in DOMAIN call.bytes : ~PathInfo[p].sub => tree[call.held][p] = call.inventory[p].id
    BY <2>1, <2>2 DEF RootOK, Opening
  <2>5. call.listed = at => Present(FALSE) \subseteq DOMAIN call.bytes
    BY <2>1, <2>3, <2>4 DEF Present
  <2> QED
    BY <2>1, <2>4, <2>5 DEF RootAsListed
<1> QED
  BY <1>1, FenceInvAlways, PTL

\* A capability is returned only when nothing is left of the private directory.
THEOREM CapabilityAfterCleanupAlways == Spec => []CapabilityAfterCleanup
<1>1. FenceInv => CapabilityAfterCleanup
  BY DEF FenceInv, StagingOK
<1> QED
  BY <1>1, FenceInvAlways, PTL

\* Bytes are added by the steps that accept a read, and are what was read.
LEMMA BytesAdded ==
  ASSUME FenceInv, Next, NEW p \in DOMAIN call'.bytes \ DOMAIN call.bytes
  PROVE /\ p = call.path /\ call'.bytes[p] = call.raw /\ ~Refuse
        /\ (StatAfter /\ VerifiesFS) \/ LstatAfter
<1>1. ASSUME Refuse PROVE FALSE
  <2>1. call'.bytes = Empty
    BY <1>1 DEF Refuse, Idle
  <2> QED
    BY <2>1 DEF Empty
<1>2. ASSUME call'.bytes = call.bytes PROVE FALSE
  BY <1>2
<1>3. DOMAIN call = CallFields
  BY DEF FenceInv, StepOK
<1>4. ~Edit
  BY <1>2 DEF Edit, SwapRoot, Rewrite, ChangeMode, Replace, Unlink, Edited
<1>5. ~OpenRootStable
  BY <1>1, <1>2, <1>3 DEF OpenRootStable, LstatRoot, OpenRoot, StatRoot, Check, Goto, CallFields
<1>6. ~Inventory
  BY <1>1, <1>2, <1>3
  DEF Inventory, ListRoot, ListSubdirectory, Inspect, InventoryTaken, Check, Goto, CallFields
<1>7. ~AssertRootStable
  BY <1>1, <1>2, <1>3 DEF AssertRootStable, StatHandle, LstatAgain, Check, Goto, CallFields
<1>8. ~NextFile
  BY <1>1, <1>2, <1>3 DEF NextFile, Check, Goto, CallFields
<1>9. ~StageFails /\ ~ReadStaged /\ ~ReturnStaged /\ ~RefuseStaged
  BY <1>1, <1>2, <1>3 DEF StageFails, ReadStaged, ReturnStaged, RefuseStaged, Goto, CallFields
<1>10. ~Lstat /\ ~OpenFile /\ ~StatFile /\ ~ReadHead /\ ~ReadTail
  BY <1>1, <1>2, <1>3 DEF Lstat, OpenFile, StatFile, ReadHead, ReadTail, Check, Goto, CallFields
<1>11. StatAfter => VerifiesFS
  BY <1>1, <1>2, <1>3 DEF StatAfter, Check, Goto, CallFields
<1>12. (StatAfter /\ VerifiesFS) \/ LstatAfter
  BY <1>4, <1>5, <1>6, <1>7, <1>8, <1>9, <1>10, <1>11 DEF Next, ReadFile
<1>13. PICK bytes : bytes = Bytes(call.raw)
  OBVIOUS
<1>14. call'.bytes = bytes
  BY <1>1, <1>3, <1>12, <1>13 DEF StatAfter, LstatAfter, Check, Goto, Read, CallFields
<1>15. DOMAIN bytes = DOMAIN call.bytes \cup {call.path} /\ bytes[call.path] = call.raw
  BY <1>13 DEF Bytes
<1> QED
  BY <1>1, <1>12, <1>14, <1>15

\* What a read yields is the whole content that the file has when it is accepted.
THEOREM ReadsAreCurrentAlways == Spec => ReadsAreCurrent
<1>1. ASSUME FenceInv, Next, NEW p \in DOMAIN call'.bytes \ DOMAIN call.bytes
      PROVE LET f == IF VerifiesFS THEN call.handle ELSE tree[at][p]
            IN f # NoFile /\ call'.bytes[p] = <<file[f].content, file[f].content>>
  <2>1. /\ p = call.path /\ call'.bytes[p] = call.raw /\ ~Refuse
        /\ (StatAfter /\ VerifiesFS) \/ LstatAfter
    BY <1>1, BytesAdded
  <2>2. call.step \in {"statAfter", "lstatAfter"} /\ StepOK(call) /\ ReadOK(call, file, budget)
        /\ DiskOK
    BY <1>1, <2>1 DEF FenceInv, StatAfter, LstatAfter, At
  <2>3. /\ call.handle \in 1..Len(file) /\ call.before.id = call.handle
        /\ VerifiesFS => call.inventory[call.path].time = call.before.time
        /\ file[call.handle].time = call.before.time
           => call.raw = <<file[call.handle].content, file[call.handle].content>>
    BY <2>2 DEF ReadOK, Reading
  <2>4. CASE StatAfter /\ VerifiesFS
    <3>1. Attributes(Inventoried) = Attributes(Handle)
      BY <2>1, <2>4 DEF StatAfter, Check
    <3>2. Inventoried.time = Handle.time
      BY <3>1 DEF Attributes
    <3>3. file[call.handle].time = call.before.time
      BY <2>3, <2>4, <3>2 DEF Inventoried, Handle, Info
    <3> QED
      BY <2>1, <2>3, <2>4, <3>3 DEF NoFile
  <2>5. CASE LstatAfter
    <3>1. ~VerifiesFS
      BY <2>2, <2>5 DEF StepOK, LstatAfter, At
    <3>2. PICK f : f = tree[at][call.path]
      OBVIOUS
    <3>3. f # NoFile /\ SameFile(call.before, Info(f)) /\ SameStableMetadata(call.before, Info(f))
      BY <2>1, <2>5, <3>2 DEF LstatAfter, Check, ReadIsStable
    <3>4. f = call.handle /\ file[f].time = call.before.time
      BY <2>3, <3>3 DEF SameFile, SameStableMetadata, Info
    <3> QED
      BY <2>1, <2>3, <3>1, <3>2, <3>3, <3>4
  <2> QED
    BY <2>1, <2>4, <2>5
<1>2. FenceInv /\ [Next]_vars
      => [\A p \in DOMAIN call'.bytes \ DOMAIN call.bytes :
            LET f == IF VerifiesFS THEN call.handle ELSE tree[at][p]
            IN f # NoFile /\ call'.bytes[p] = <<file[f].content, file[f].content>>]_vars
  BY <1>1
<1> QED
  BY <1>2, FenceInvAlways, PTL DEF Spec, ReadsAreCurrent

-----------------------------------------------------------------------------
(* The files a directory begins with.                                        *)

\* Each path has a place of its own, and each place a path.
LEMMA Places ==
  ASSUME NEW contents, DOMAIN contents \subseteq Paths, NEW n, n = Cardinality(DOMAIN contents)
  PROVE  /\ n \in Nat
         /\ \A p \in DOMAIN contents : PlaceOf(contents, p) \in 1..n
         /\ \A p, q \in DOMAIN contents : PlaceOf(contents, p) = PlaceOf(contents, q) => p = q
         /\ \A i \in 1..n : \E p \in DOMAIN contents : PlaceOf(contents, p) = i
<1> DEFINE D == DOMAIN contents
           Upto(p) == {q \in D : Rank(q) <= Rank(p)}
<1>1. /\ IsFiniteSet(D) /\ n \in Nat
      /\ \A p \in D : Rank(p) \in Int
      /\ \A p, q \in D : Rank(p) = Rank(q) => p = q
  BY PathsAssumption, FS_Subset, FS_CardinalityType DEF Rank
<1>2. ASSUME NEW p \in D
      PROVE  /\ IsFiniteSet(Upto(p)) /\ PlaceOf(contents, p) = Cardinality(Upto(p))
             /\ Cardinality(Upto(p)) \in 1..n
  <2>1. Upto(p) \in SUBSET D /\ p \in Upto(p)
    BY <1>1
  <2>2. IsFiniteSet(Upto(p)) /\ Cardinality(Upto(p)) <= n
    BY <1>1, <2>1, FS_Subset
  <2>3. Cardinality(Upto(p)) \in Nat /\ Cardinality(Upto(p)) # 0
    BY <2>1, <2>2, FS_CardinalityType, FS_EmptySet
  <2> QED  BY <1>1, <2>2, <2>3 DEF PlaceOf
<1>3. ASSUME NEW p \in D, NEW q \in D, Cardinality(Upto(p)) = Cardinality(Upto(q)),
             Rank(p) <= Rank(q)
      PROVE  p = q
  <2>1. Upto(p) \in SUBSET Upto(q) /\ q \in Upto(q)
    BY <1>1, <1>3
  <2>2. Upto(q) = Upto(p)
    BY <1>2, <1>3, <2>1, FS_Subset
  <2>3. Rank(q) <= Rank(p)
    BY <2>1, <2>2
  <2> QED  BY <1>1, <1>3, <2>3
<1>4. ASSUME NEW p \in D, NEW q \in D, PlaceOf(contents, p) = PlaceOf(contents, q)
      PROVE  p = q
  <2>1. Cardinality(Upto(p)) = Cardinality(Upto(q))
    BY <1>2, <1>4
  <2>2. CASE Rank(p) <= Rank(q)
    BY <1>3, <2>1, <2>2
  <2>3. CASE Rank(q) <= Rank(p)
    BY <1>3, <2>1, <2>3
  <2> QED  BY <1>1, <2>2, <2>3
<1>5. \A i \in 1..n : \E p \in D : PlaceOf(contents, p) = i
  <2> DEFINE place == [p \in D |-> PlaceOf(contents, p)]
  <2>1. place \in Injection(D, 1..n)
    BY <1>2, <1>4 DEF Injection, IsInjective
  <2>2. IsFiniteSet(1..n) /\ Cardinality(1..n) = n
    BY <1>1, FS_Interval
  <2>3. place \in Surjection(D, 1..n)
    BY <2>1, <2>2, FS_Injection
  <2> QED  BY <2>3 DEF Surjection
<1> QED  BY <1>1, <1>2, <1>4, <1>5

\* The file at a place is that of the path there.
LEMMA FilePlaced ==
  ASSUME NEW contents, DOMAIN contents \subseteq Paths, NEW n, n = Cardinality(DOMAIN contents),
         NEW time, NEW i \in 1..n
  PROVE  \E p \in DOMAIN contents :
           /\ PlaceOf(contents, p) = i
           /\ FilesOf(contents, time)[i] = [content |-> contents[p], mode |-> "plain", time |-> time]
<1>1. PICK p : p = CHOOSE q \in DOMAIN contents : PlaceOf(contents, q) = i
  OBVIOUS
<1>2. p \in DOMAIN contents /\ PlaceOf(contents, p) = i
  BY <1>1, Places
<1> QED  BY <1>1, <1>2 DEF FilesOf
-----------------------------------------------------------------------------
(* Types.                                                                    *)

AtPath == {"lstat", "open", "stat"} \cup Reading

CallTyped(c) ==
  /\ c.handle \in 0..Len(file)
  /\ \A p \in DOMAIN c.bytes : c.bytes[p] \in Contents \X Contents
  /\ c.step = "tail" => c.head \in Contents
  /\ c.step \in {"statAfter", "lstatAfter"} => c.raw \in Contents \X Contents
  /\ c.path # NoPath => c.step \in AtPath /\ c.path \in DOMAIN c.inventory
  /\ c.step \in {"statHandle", "lstatAgain", "next"} \cup AtPath => Index \in DOMAIN c.inventory
  /\ VerifiesFS /\ c.step \in {"next"} \cup AtPath => c.first = c.inventory

FilesTyped == \A i \in 1..Len(file) : file[i].content \in Contents /\ file[i].mode \in Modes

TypeInv ==
  /\ FilesTyped /\ CallTyped(call)
  /\ entry \in {"VerifyDirectory", "VerifyFS"}
  /\ staging \in {"none", "present", "left"} /\ verdict \in {"none", "refused", "verified"}
  /\ staging = "present" => VerifiesFS

\* The call goes on, or returns.
LEMMA CallTypedStep ==
  ASSUME TypeInv, NEW c, call' = c, CallTyped(c), UNCHANGED <<file, entry>>,
         staging' \in {"none", "present", "left"}, verdict' \in {"none", "refused", "verified"},
         staging' = "present" => VerifiesFS
  PROVE  TypeInv'
BY DEF TypeInv, FilesTyped, CallTyped, VerifiesFS

\* The call goes on.
LEMMA GotoTyped ==
  ASSUME TypeInv, NEW c, Goto(c), CallTyped(c)
  PROVE  TypeInv'
BY CallTypedStep DEF Goto, disk, TypeInv

\* A refusal has no file and nothing read.
LEMMA RefuseTyped ==
  ASSUME TypeInv, Refuse
  PROVE  TypeInv'
<1>1. PICK c : c = [Idle EXCEPT !.step = "returned"]
  OBVIOUS
<1>2. /\ c.step = "returned" /\ c.path = NoPath /\ c.handle = 0 /\ c.bytes = Empty
  BY <1>1 DEF Idle, NoFile
<1>3. CallTyped(c)
  BY <1>2 DEF CallTyped, AtPath, Reading, Empty, TypeInv
<1>4. /\ call' = c /\ verdict' = "refused" /\ UNCHANGED <<file, entry>>
      /\ staging' \in (IF staging = "present" THEN {"none", "left"} ELSE {staging})
  BY <1>1 DEF Refuse, disk
<1> QED  BY <1>3, <1>4, CallTypedStep DEF TypeInv

\* Opening and listing.
LEMMA InventoryTyped ==
  ASSUME TypeInv, FenceInv, OpenRootStable \/ Inventory \/ AssertRootStable
  PROVE  TypeInv'
<1>1. DOMAIN call = CallFields /\ StepOK(call) /\ DiskOK
  BY DEF FenceInv, StepOK
<1>2. /\ CallTyped(call) /\ Index \in Paths /\ NoPath \notin Paths
      /\ call.step \notin AtPath => call.path = NoPath
  BY PathsAssumption DEF TypeInv, CallTyped
<1>3. CASE OpenRootStable
  <2>1. PICK c \in {[call EXCEPT !.root = RootInfo(at), !.step = "openRoot"],
                    [call EXCEPT !.held = at, !.step = "statRoot"],
                    [call EXCEPT !.step = "list"]} : Goto(c) \/ Refuse
    BY <1>3 DEF OpenRootStable, LstatRoot, OpenRoot, StatRoot, Check
  <2>2. /\ c.step \in {"openRoot", "statRoot", "list"} /\ call.step \in Opening
        /\ c.handle = call.handle /\ c.bytes = call.bytes /\ c.path = call.path
    BY <1>1, <1>3, <2>1 DEF OpenRootStable, LstatRoot, OpenRoot, StatRoot, At, Opening, CallFields
  <2>3. CallTyped(c)
    BY <1>2, <2>2 DEF CallTyped, AtPath, Reading, Opening
  <2> QED  BY <2>1, <2>3, GotoTyped, RefuseTyped
<1>4. CASE ListRoot
  <2>1. PICK c : c = [call EXCEPT !.walk = Present(FALSE), !.nested = TRUE, !.inventory = Empty,
                                  !.listed = at, !.step = "walk"]
    OBVIOUS
  <2>2. /\ c.step = "walk" /\ call.step = "list"
        /\ c.handle = call.handle /\ c.bytes = call.bytes /\ c.path = call.path
    BY <1>1, <1>4, <2>1 DEF ListRoot, At, CallFields
  <2>3. CallTyped(c)
    BY <1>2, <2>2 DEF CallTyped, AtPath, Reading
  <2> QED  BY <1>4, <2>1, <2>3, GotoTyped DEF ListRoot
<1>5. CASE ListSubdirectory
  <2>1. PICK c : c = [call EXCEPT !.walk = call.walk \cup Present(TRUE), !.nested = FALSE]
    OBVIOUS
  <2>2. /\ c.step = "walk" /\ call.step = "walk"
        /\ c.handle = call.handle /\ c.bytes = call.bytes /\ c.path = call.path
    BY <1>1, <1>5, <2>1 DEF ListSubdirectory, At, CallFields
  <2>3. CallTyped(c)
    BY <1>2, <2>2 DEF CallTyped, AtPath, Reading
  <2> QED  BY <1>5, <2>1, <2>3, GotoTyped DEF ListSubdirectory
<1>6. ASSUME NEW p \in call.walk, Inspect(p)
      PROVE  TypeInv'
  <2>1. PICK found, c : /\ c = [call EXCEPT !.walk = call.walk \ {p}, !.inventory = found]
                        /\ Goto(c) \/ Refuse
    BY <1>6 DEF Inspect
  <2>2. /\ c.step = "walk" /\ call.step = "walk"
        /\ c.handle = call.handle /\ c.bytes = call.bytes /\ c.path = call.path
    BY <1>1, <1>6, <2>1 DEF Inspect, At, CallFields
  <2>3. CallTyped(c)
    BY <1>2, <2>2 DEF CallTyped, AtPath, Reading
  <2> QED  BY <2>1, <2>3, GotoTyped, RefuseTyped
<1>7. CASE InventoryTaken /\ ~Refuse
  <2>1. Index \in DOMAIN call.inventory /\ call.step = "walk"
    BY <1>7 DEF InventoryTaken, At
  <2>2. CASE ~VerifiesFS \/ call.first # Empty
    <3>1. PICK c \in {[call EXCEPT !.step = "statHandle"], [call EXCEPT !.step = "verifyStaged"]} :
            Goto(c)
      BY <1>7, <2>1, <2>2 DEF InventoryTaken, Check
    <3>2. /\ c.step \in {"statHandle", "verifyStaged"} /\ c.inventory = call.inventory
          /\ c.handle = call.handle /\ c.bytes = call.bytes /\ c.path = call.path
      BY <1>1, <3>1 DEF CallFields
    <3>3. CallTyped(c)
      BY <1>2, <2>1, <3>2 DEF CallTyped, AtPath, Reading
    <3> QED  BY <3>1, <3>3, GotoTyped
  <2>3. CASE VerifiesFS /\ call.first = Empty
    <3>1. PICK c : c = [call EXCEPT !.first = call.inventory, !.step = "next"]
      OBVIOUS
    <3>2. call' = c /\ UNCHANGED <<file, entry, verdict>> /\ staging' = "present"
      BY <1>7, <2>1, <2>3, <3>1 DEF InventoryTaken, disk
    <3>3. /\ c.step = "next" /\ c.inventory = call.inventory /\ c.first = call.inventory
          /\ c.handle = call.handle /\ c.bytes = call.bytes /\ c.path = call.path
      BY <1>1, <3>1 DEF CallFields
    <3>4. CallTyped(c)
      BY <1>2, <2>1, <3>3 DEF CallTyped, AtPath, Reading
    <3> QED  BY <2>3, <3>2, <3>4, CallTypedStep DEF TypeInv
  <2> QED  BY <2>2, <2>3
<1>8. CASE StatHandle
  <2>1. PICK c : c = [call EXCEPT !.step = "lstatAgain"]
    OBVIOUS
  <2>2. (Goto(c) \/ Refuse) /\ call.step = "statHandle"
    BY <1>8, <2>1 DEF StatHandle, Check, At
  <2>3. /\ c.step = "lstatAgain" /\ c.inventory = call.inventory
        /\ c.handle = call.handle /\ c.bytes = call.bytes /\ c.path = call.path
    BY <1>1, <2>1 DEF CallFields
  <2>4. CallTyped(c)
    BY <1>1, <1>2, <2>2, <2>3 DEF CallTyped, AtPath, Reading, StepOK
  <2> QED  BY <2>2, <2>4, GotoTyped, RefuseTyped
<1>9. CASE LstatAgain /\ ~Refuse
  <2>1. call.step = "lstatAgain" /\ ~VerifiesFS
    BY <1>1, <1>9 DEF LstatAgain, At, StepOK
  <2>2. PICK c \in {[call EXCEPT !.path = Index, !.step = "lstat"], [call EXCEPT !.step = "returned"]} :
          /\ call' = c /\ UNCHANGED <<file, entry, staging>>
          /\ verdict' \in {"verified", verdict}
    BY <1>9 DEF LstatAgain, Goto, disk
  <2>3. /\ (c.step = "lstat" /\ c.path = Index) \/ (c.step = "returned" /\ c.path = call.path)
        /\ c.inventory = call.inventory /\ c.handle = call.handle /\ c.bytes = call.bytes
    BY <1>1, <2>2 DEF CallFields
  <2>4. CallTyped(c)
    BY <1>2, <2>1, <2>3 DEF CallTyped, AtPath, Reading
  <2> QED  BY <2>2, <2>4, CallTypedStep DEF TypeInv
<1> QED
  BY <1>3, <1>4, <1>5, <1>6, <1>7, <1>8, <1>9, RefuseTyped DEF Inventory, AssertRootStable

\* Choosing a file and reading it.
LEMMA ReadTyped ==
  ASSUME TypeInv, FenceInv, ReadFile \/ NextFile
  PROVE  TypeInv'
<1>1. DOMAIN call = CallFields /\ StepOK(call) /\ DiskOK /\ ReadOK(call, file, budget)
  BY DEF FenceInv, StepOK
<1>2. /\ CallTyped(call) /\ FilesTyped /\ Index \in Paths /\ NoPath \notin Paths
      /\ call.step \notin AtPath => call.path = NoPath
  BY PathsAssumption DEF TypeInv, CallTyped
<1>3. ASSUME NEW c, Goto(c) \/ Refuse, call.step \in AtPath, c.step \in AtPath,
             c.path = call.path, c.inventory = call.inventory, c.first = call.first,
             c.bytes = call.bytes, c.handle \in 0..Len(file),
             c.step = "tail" => c.head \in Contents,
             c.step \in {"statAfter", "lstatAfter"} => c.raw \in Contents \X Contents
      PROVE  TypeInv'
  <2>1. CallTyped(c)
    BY <1>2, <1>3 DEF CallTyped
  <2> QED  BY <1>3, <2>1, GotoTyped, RefuseTyped
<1>4. CASE Lstat
  <2>1. PICK before, c : /\ c = [call EXCEPT !.before = before, !.step = "open"]
                         /\ (Goto(c) \/ Refuse) /\ call.step = "lstat"
    BY <1>4 DEF Lstat, At
  <2>2. /\ c.step = "open" /\ c.path = call.path /\ c.inventory = call.inventory
        /\ c.first = call.first /\ c.bytes = call.bytes /\ c.handle = call.handle
    BY <1>1, <2>1 DEF CallFields
  <2> QED  BY <1>2, <1>3, <2>1, <2>2 DEF AtPath, Reading, CallTyped
<1>5. CASE OpenFile /\ ~Refuse
  <2>1. PICK f : f = tree[IF VerifiesFS THEN at ELSE call.held][call.path]
    OBVIOUS
  <2>2. PICK c : c = [call EXCEPT !.handle = f, !.step = "stat"]
    OBVIOUS
  <2>3. Goto(c) /\ call.step = "open" /\ verdict = "none"
    BY <1>5, <2>1, <2>2 DEF OpenFile, At
  <2>4. f \in 0..Len(file)
    <3>1. VerifiesFS \/ call.held \in Dirs
      BY <2>3 DEF FenceInv, DirectoryOK, HeldOK, Opening
    <3>2. call.path \in Paths
      BY <1>1, <2>3 DEF StepOK
    <3> QED  BY <1>1, <2>1, <3>1, <3>2 DEF DiskOK
  <2>5. /\ c.step = "stat" /\ c.path = call.path /\ c.inventory = call.inventory
        /\ c.first = call.first /\ c.bytes = call.bytes /\ c.handle = f
    BY <1>1, <2>2 DEF CallFields
  <2> QED  BY <1>3, <2>3, <2>4, <2>5 DEF AtPath, Reading
<1>6. CASE StatFile
  <2>1. PICK before, c : /\ c = [call EXCEPT !.before = before, !.step = "head"]
                         /\ (Goto(c) \/ Refuse) /\ call.step = "stat"
    BY <1>6 DEF StatFile, At, Check
  <2>2. /\ c.step = "head" /\ c.path = call.path /\ c.inventory = call.inventory
        /\ c.first = call.first /\ c.bytes = call.bytes /\ c.handle = call.handle
    BY <1>1, <2>1 DEF CallFields
  <2> QED  BY <1>2, <1>3, <2>1, <2>2 DEF AtPath, Reading, CallTyped
<1>7. CASE ReadHead \/ ReadTail
  <2>1. PICK content : content = file[call.handle].content
    OBVIOUS
  <2>2. call.step \in {"head", "tail"} /\ content \in Contents
    BY <1>1, <1>2, <1>7, <2>1 DEF ReadHead, ReadTail, At, ReadOK, Reading, FilesTyped
  <2>3. CASE ReadHead
    <3>1. PICK c : c = [call EXCEPT !.head = content, !.step = "tail"]
      OBVIOUS
    <3>2. Goto(c)
      BY <2>1, <2>3, <3>1 DEF ReadHead
    <3>3. /\ c.step = "tail" /\ c.head = content /\ c.path = call.path
          /\ c.inventory = call.inventory /\ c.first = call.first /\ c.bytes = call.bytes
          /\ c.handle = call.handle
      BY <1>1, <3>1 DEF CallFields
    <3> QED  BY <1>2, <1>3, <2>2, <3>2, <3>3 DEF AtPath, Reading, CallTyped
  <2>4. CASE ReadTail
    <3>1. PICK c : c = [call EXCEPT !.raw = <<call.head, content>>, !.step = "statAfter"]
      OBVIOUS
    <3>2. Goto(c) /\ call.step = "tail"
      BY <2>1, <2>4, <3>1 DEF ReadTail, At
    <3>3. /\ c.step = "statAfter" /\ c.raw = <<call.head, content>> /\ c.path = call.path
          /\ c.inventory = call.inventory /\ c.first = call.first /\ c.bytes = call.bytes
          /\ c.handle = call.handle
      BY <1>1, <3>1 DEF CallFields
    <3>4. c.raw \in Contents \X Contents
      BY <1>2, <2>2, <3>2, <3>3 DEF CallTyped
    <3> QED  BY <1>2, <1>3, <2>2, <3>2, <3>3, <3>4 DEF AtPath, Reading, CallTyped
  <2> QED  BY <1>7, <2>3, <2>4
<1>8. CASE StatAfter /\ ~VerifiesFS
  <2>1. PICK c : c = [call EXCEPT !.step = "lstatAfter"]
    OBVIOUS
  <2>2. (Goto(c) \/ Refuse) /\ call.step = "statAfter"
    BY <1>8, <2>1 DEF StatAfter, At, Check
  <2>3. /\ c.step = "lstatAfter" /\ c.path = call.path /\ c.inventory = call.inventory
        /\ c.first = call.first /\ c.bytes = call.bytes /\ c.handle = call.handle
        /\ c.raw = call.raw
    BY <1>1, <2>1 DEF CallFields
  <2> QED  BY <1>2, <1>3, <2>2, <2>3 DEF AtPath, Reading, CallTyped
<1>9. CASE (StatAfter /\ VerifiesFS) \/ LstatAfter
  <2>1. PICK bytes : bytes = Bytes(call.raw)
    OBVIOUS
  <2>2. PICK index, c : /\ c = [Read(call.raw) EXCEPT !.step = "next", !.index = index]
                        /\ Goto(c) \/ Refuse
    <3>1. DOMAIN Read(call.raw) = CallFields
      BY <1>1 DEF Read
    <3>2. CASE LstatAfter
      BY <3>2 DEF LstatAfter, Check
    <3>3. CASE StatAfter /\ VerifiesFS
      <4>1. PICK r : r = Read(call.raw)
        OBVIOUS
      <4>2. [r EXCEPT !.step = "next"] = [r EXCEPT !.step = "next", !.index = r.index]
        BY <3>1, <4>1 DEF CallFields
      <4> QED  BY <3>3, <4>1, <4>2 DEF StatAfter, Check
    <3> QED  BY <1>9, <3>2, <3>3
  <2>3. call.step \in {"statAfter", "lstatAfter"}
    BY <1>9 DEF StatAfter, LstatAfter, At
  <2>4. /\ c.step = "next" /\ c.path = NoPath /\ c.inventory = call.inventory
        /\ c.first = call.first /\ c.bytes = bytes /\ c.handle = NoFile
    BY <1>1, <2>1, <2>2 DEF Read, CallFields
  <2>5. \A p \in DOMAIN bytes : bytes[p] \in Contents \X Contents
    BY <1>2, <2>1, <2>3 DEF Bytes, CallTyped
  <2>6. 0 \in 0..Len(file)
    BY <1>1 DEF DiskOK
  <2>7. CallTyped(c)
    BY <1>2, <2>3, <2>4, <2>5, <2>6 DEF CallTyped, AtPath, Reading, NoFile
  <2> QED  BY <2>2, <2>7, GotoTyped, RefuseTyped
<1>10. CASE NextFile
  <2>1. call.step = "next" /\ verdict = "none"
    BY <1>10 DEF NextFile, At
  <2>2. PICK left : left = Unread(IF VerifiesFS THEN DOMAIN call.first ELSE ListedPaths(call.index))
    OBVIOUS
  <2>3. left \subseteq DOMAIN call.inventory
    <3>1. CASE VerifiesFS
      BY <1>2, <2>1, <2>2, <3>1 DEF CallTyped, Unread
    <3>2. CASE ~VerifiesFS
      <4>1. ListedPaths(call.index) \subseteq DOMAIN call.inventory
        BY <2>1, <3>2 DEF FenceInv, DirectoryOK, PathsOK, IndexOK
      <4> QED  BY <2>2, <3>2, <4>1 DEF Unread
    <3> QED  BY <3>1, <3>2
  <2>4. PICK c : /\ \/ \E p \in left :
                         c = [call EXCEPT !.path = p, !.step = IF VerifiesFS THEN "open" ELSE "lstat"]
                    \/ VerifiesFS /\ c = [call EXCEPT !.step = "list"]
                    \/ ~VerifiesFS /\ c = [call EXCEPT !.step = "statHandle"]
                 /\ Goto(c) \/ Refuse
    BY <1>10, <2>2 DEF NextFile, Check
  <2>5. /\ \/ c.path \in left /\ c.step \in {"open", "lstat"}
           \/ c.path = call.path /\ c.step \in {"list", "statHandle"}
        /\ c.inventory = call.inventory /\ c.first = call.first /\ c.bytes = call.bytes
        /\ c.handle = call.handle
    BY <1>1, <2>4 DEF CallFields
  <2>6. CallTyped(c)
    BY <1>2, <2>1, <2>3, <2>5 DEF CallTyped, AtPath, Reading
  <2> QED  BY <2>4, <2>6, GotoTyped, RefuseTyped
<1> QED
  BY <1>4, <1>5, <1>6, <1>7, <1>8, <1>9, <1>10, RefuseTyped DEF ReadFile

\* The other process puts contents into files.
LEMMA EditTyped ==
  ASSUME TypeInv, FenceInv, Edit
  PROVE  TypeInv'
<1>1. PICK S : file \in Seq(S)
  BY DEF FenceInv, DiskOK
<1>2. /\ DiskOK /\ FilesTyped /\ DOMAIN file = 1..Len(file) /\ Len(file) \in Nat
      /\ at \in Dirs /\ tree \in [Dirs -> [Paths -> 0..Len(file)]]
      /\ \A i \in 1..Len(file) : DOMAIN file[i] = FileFields
  BY <1>1 DEF FenceInv, DiskOK, TypeInv
<1>3. ASSUME NEW new, new.content \in Contents, new.mode \in Modes, file' = Append(file, new)
      PROVE  FilesTyped' /\ Len(file') >= Len(file) /\ Len(file') \in Nat
  <2>1. file \in Seq(S \cup {new}) /\ new \in S \cup {new}
    BY <1>1
  <2>2. /\ Len(file') = Len(file) + 1 /\ file'[Len(file) + 1] = new
        /\ \A i \in 1..Len(file) : file'[i] = file[i]
    BY <1>3, <2>1
  <2>3. \A i \in 1..Len(file') : file'[i] = new \/ (i \in 1..Len(file) /\ file'[i] = file[i])
    BY <1>2, <2>2
  <2> QED  BY <1>2, <1>3, <2>2, <2>3 DEF FilesTyped
<1>4. ASSUME NEW g \in 1..Len(file), NEW new, new.content \in Contents, new.mode \in Modes,
             file' = [file EXCEPT ![g] = new]
      PROVE  FilesTyped' /\ Len(file') >= Len(file) /\ Len(file') \in Nat
  <2>1. file \in Seq(S \cup {new}) /\ new \in S \cup {new}
    BY <1>1
  <2>2. Len(file') = Len(file)
    BY <1>4, <2>1
  <2>3. \A i \in 1..Len(file') : file'[i] = new \/ file'[i] = file[i]
    BY <1>2, <1>4, <2>2
  <2> QED  BY <1>2, <1>4, <2>2, <2>3 DEF FilesTyped
<1>5. ASSUME file' = file
      PROVE  FilesTyped' /\ Len(file') >= Len(file) /\ Len(file') \in Nat
  BY <1>2, <1>5 DEF FilesTyped
<1>6. ASSUME NEW p \in Paths, Rewrite(p)
      PROVE  FilesTyped' /\ Len(file') >= Len(file) /\ Len(file') \in Nat
  <2>1. PICK g : g = tree[at][p]
    OBVIOUS
  <2>2. g \in 1..Len(file)
    BY <1>2, <1>6, <2>1 DEF Rewrite, NoFile
  <2>3. PICK c \in Rewrites[p] : file' = [file EXCEPT ![g].content = c, ![g].time = budget]
    BY <1>6, <2>1 DEF Rewrite, Now
  <2>4. PICK new : new = [file[g] EXCEPT !.content = c, !.time = budget]
    OBVIOUS
  <2>5. new.content = c /\ new.mode = file[g].mode
    BY <1>2, <2>2, <2>4 DEF FileFields
  <2>6. file' = [file EXCEPT ![g] = new]
    BY <1>2, <2>2, <2>3, <2>4
  <2>7. c \in Contents
    BY <2>3, ContentsAssumption
  <2> QED  BY <1>2, <1>4, <2>2, <2>5, <2>6, <2>7 DEF FilesTyped
<1>7. ASSUME NEW p \in Paths, ChangeMode(p)
      PROVE  FilesTyped' /\ Len(file') >= Len(file) /\ Len(file') \in Nat
  <2>1. PICK g : g = tree[at][p]
    OBVIOUS
  <2>2. g \in 1..Len(file)
    BY <1>2, <1>7, <2>1 DEF ChangeMode, NoFile
  <2>3. PICK new : new = [file[g] EXCEPT !.mode = "executable"]
    OBVIOUS
  <2>4. new.content = file[g].content /\ new.mode = "executable"
    BY <1>2, <2>2, <2>3 DEF FileFields
  <2>5. file' = [file EXCEPT ![g] = new]
    BY <1>7, <2>1, <2>3 DEF ChangeMode
  <2> QED  BY <1>2, <1>4, <2>2, <2>4, <2>5 DEF FilesTyped, Modes
<1>8. ASSUME NEW p \in Paths, Replace(p)
      PROVE  FilesTyped' /\ Len(file') >= Len(file) /\ Len(file') \in Nat
  <2>1. PICK c \in Rewrites[p], mode \in {"plain", "link"} :
          file' = Append(file, [content |-> c, mode |-> mode, time |-> Now])
    BY <1>8 DEF Replace
  <2>2. PICK new : new = [content |-> c, mode |-> mode, time |-> Now]
    OBVIOUS
  <2>3. new.content \in Contents /\ new.mode \in Modes
    BY <2>2, ContentsAssumption DEF Modes
  <2> QED  BY <1>3, <2>1, <2>2, <2>3
<1>9. FilesTyped' /\ Len(file') >= Len(file) /\ Len(file') \in Nat
  <2>1. ASSUME SwapRoot \/ \E p \in Paths : Unlink(p)
        PROVE  file' = file
    BY <2>1 DEF SwapRoot, Unlink
  <2> QED  BY <1>5, <1>6, <1>7, <1>8, <2>1 DEF Edit
<1>10. UNCHANGED <<entry, call, staging, verdict>>
  BY DEF Edit, SwapRoot, Rewrite, ChangeMode, Replace, Unlink, Edited
<1>11. CallTyped(call)'
  <2>1. call.handle \in 0..Len(file) => call.handle \in 0..Len(file')
    BY <1>2, <1>9
  <2> QED  BY <1>10, <2>1 DEF TypeInv, CallTyped, VerifiesFS
<1> QED  BY <1>9, <1>10, <1>11 DEF TypeInv, VerifiesFS

\* Every step keeps the types.
LEMMA TypeInvStep == TypeInv /\ FenceInv /\ [Next]_vars => TypeInv'
<1> SUFFICES ASSUME TypeInv, FenceInv, [Next]_vars PROVE TypeInv'
  OBVIOUS
<1>1. DOMAIN call = CallFields /\ StepOK(call)
  BY DEF FenceInv, StepOK
<1>2. ASSUME ReadStaged \/ ReturnStaged
      PROVE  TypeInv'
  <2>1. PICK c : /\ \/ \E index : c = [call EXCEPT !.index = index, !.step = "checkStaged"]
                    \/ c = [call EXCEPT !.step = "returned"]
                 /\ call' = c /\ UNCHANGED <<file, entry>>
                 /\ staging' \in {"none", staging} /\ verdict' \in {"verified", verdict}
    BY <1>2 DEF ReadStaged, ReturnStaged, Goto, disk
  <2>2. call.step \in {"verifyStaged", "checkStaged"}
    BY <1>2 DEF ReadStaged, ReturnStaged, At
  <2>3. /\ c.step \in {"checkStaged", "returned"} /\ c.path = call.path /\ c.bytes = call.bytes
        /\ c.handle = call.handle
    BY <1>1, <2>1 DEF CallFields
  <2>4. CallTyped(c)
    BY <2>2, <2>3 DEF TypeInv, CallTyped, AtPath, Reading
  <2> QED  BY <2>1, <2>4, CallTypedStep DEF TypeInv
<1>3. CASE UNCHANGED vars
  BY <1>3 DEF vars, disk, TypeInv, FilesTyped, CallTyped, VerifiesFS
<1> QED
  BY <1>2, <1>3, EditTyped, InventoryTyped, ReadTyped, RefuseTyped DEF Next, StageFails, RefuseStaged

\* The files a verification starts with: those of the package, then those beside it.
Begun(package, other, m, n) ==
  /\ m \in Nat /\ n \in Nat /\ Len(file) = m + n
  /\ \A i \in 1..Len(file) :
       \/ /\ i \in 1..m
          /\ \E p \in DOMAIN package :
               /\ PlaceOf(package, p) = i
               /\ file[i] = [content |-> package[p], mode |-> "plain", time |-> -1]
       \/ /\ i - m \in 1..n /\ i \notin 1..m
          /\ \E p \in DOMAIN other :
               /\ PlaceOf(other, p) = i - m
               /\ file[i] = [content |-> other[p], mode |-> "plain", time |-> -2]

\* Each file has a place among those of its directory.
LEMMA FilesBegin ==
  ASSUME NEW package, NEW other, DOMAIN package \subseteq Paths, DOMAIN other \subseteq Paths,
         file = FilesOf(package, -1) \o FilesOf(other, -2),
         NEW m, m = Cardinality(DOMAIN package), NEW n, n = Cardinality(DOMAIN other)
  PROVE  Begun(package, other, m, n)
<1>1. PICK here, beside : here = FilesOf(package, -1) /\ beside = FilesOf(other, -2)
  OBVIOUS
<1>2. DOMAIN package \subseteq Paths /\ DOMAIN other \subseteq Paths
  OBVIOUS
<1>3. m \in Nat /\ (\E S : here \in Seq(S) /\ Len(here) = m)
  BY <1>1, <1>2, FilesCounted
<1>4. n \in Nat /\ (\E S : beside \in Seq(S) /\ Len(beside) = n)
  BY <1>1, <1>2, FilesCounted
<1>5. PICK S, T : here \in Seq(S) /\ beside \in Seq(T) /\ Len(here) = m /\ Len(beside) = n
  BY <1>3, <1>4
<1>6. PICK U : U = S \cup T
  OBVIOUS
<1>7. Seq(S) \subseteq Seq(U) /\ Seq(T) \subseteq Seq(U)
  BY <1>6
<1>8. here \in Seq(U) /\ beside \in Seq(U) /\ file = here \o beside
  BY <1>1, <1>5, <1>7
<1>9. /\ Len(file) = m + n
      /\ \A i \in 1..m + n : \/ i \in 1..m /\ file[i] = here[i]
                             \/ i - m \in 1..n /\ file[i] = beside[i - m]
  <2>1. ASSUME NEW V, here \in Seq(V), beside \in Seq(V)
        PROVE  /\ Len(here \o beside) = m + n
               /\ \A i \in 1..m + n : \/ i \in 1..m /\ (here \o beside)[i] = here[i]
                                      \/ i - m \in 1..n /\ (here \o beside)[i] = beside[i - m]
    BY <1>5, <2>1, FilesJoined
  <2> QED  BY <1>8, <2>1
<1>10. ASSUME NEW i \in 1..m
       PROVE  \E p \in DOMAIN package :
                /\ PlaceOf(package, p) = i
                /\ here[i] = [content |-> package[p], mode |-> "plain", time |-> -1]
  BY <1>1, <1>2, FilePlaced
<1>11. ASSUME NEW i \in 1..n
       PROVE  \E p \in DOMAIN other :
                /\ PlaceOf(other, p) = i
                /\ beside[i] = [content |-> other[p], mode |-> "plain", time |-> -2]
  BY <1>1, <1>2, FilePlaced
<1>12. ASSUME NEW i \in 1..Len(file)
       PROVE  \/ /\ i \in 1..m
                 /\ \E p \in DOMAIN package :
                      /\ PlaceOf(package, p) = i
                      /\ file[i] = [content |-> package[p], mode |-> "plain", time |-> -1]
              \/ /\ i - m \in 1..n /\ i \notin 1..m
                 /\ \E p \in DOMAIN other :
                      /\ PlaceOf(other, p) = i - m
                      /\ file[i] = [content |-> other[p], mode |-> "plain", time |-> -2]
  <2>1. CASE i \in 1..m
    <3>1. i \in 1..m + n /\ i - m \notin 1..n
      BY <1>3, <1>4, <2>1
    <3>2. file[i] = here[i]
      BY <1>9, <3>1
    <3> QED  BY <1>10, <2>1, <3>2
  <2>2. CASE i \notin 1..m
    <3>1. i - m \in 1..n /\ file[i] = beside[i - m]
      BY <1>3, <1>4, <1>9, <2>2
    <3> QED  BY <1>11, <2>2, <3>1
  <2> QED  BY <2>1, <2>2
<1> QED  BY <1>3, <1>4, <1>9, <1>12 DEF Begun

\* The files of both directories hold contents.
LEMMA TypeInvInit == Init => TypeInv
<1> SUFFICES ASSUME Init PROVE TypeInv
  OBVIOUS
<1>1. PICK package \in Packages : file = FilesOf(package, -1) \o FilesOf(Beside[package], -2)
  BY DEF Init
<1>2. PICK other, m, n : /\ other = Beside[package] /\ m = Cardinality(DOMAIN package)
                         /\ n = Cardinality(DOMAIN other)
  OBVIOUS
<1>8. /\ DOMAIN package \subseteq Paths /\ DOMAIN other \subseteq Paths
      /\ file = FilesOf(package, -1) \o FilesOf(other, -2)
  BY <1>1, <1>2, PathsAssumption
<1>9. /\ m = Cardinality(DOMAIN package) /\ n = Cardinality(DOMAIN other)
  BY <1>2
<1>3. /\ \A p \in DOMAIN package : package[p] \in Contents
      /\ \A p \in DOMAIN other : other[p] \in Contents
  BY <1>2, ContentsAssumption DEF Range
<1>10. Begun(package, other, m, n)
  BY <1>8, <1>9, FilesBegin
<1>4. ASSUME NEW i \in 1..Len(file)
      PROVE  file[i].content \in Contents /\ file[i].mode \in Modes
  <2>1. \/ \E p \in DOMAIN package :
             file[i] = [content |-> package[p], mode |-> "plain", time |-> -1]
        \/ \E p \in DOMAIN other :
             file[i] = [content |-> other[p], mode |-> "plain", time |-> -2]
    BY <1>10 DEF Begun
  <2>2. ASSUME NEW content \in Contents, NEW time,
               file[i] = [content |-> content, mode |-> "plain", time |-> time]
        PROVE  file[i].content \in Contents /\ file[i].mode \in Modes
    BY <2>2 DEF Modes
  <2>3. CASE \E p \in DOMAIN package :
               file[i] = [content |-> package[p], mode |-> "plain", time |-> -1]
    BY <1>3, <2>2, <2>3
  <2>4. CASE \E p \in DOMAIN other :
               file[i] = [content |-> other[p], mode |-> "plain", time |-> -2]
    BY <1>3, <2>2, <2>4
  <2> QED  BY <2>1, <2>3, <2>4
<1>5. /\ call.handle = 0 /\ call.bytes = Empty /\ call.path = NoPath
      /\ call.step \in {"list", "lstatRoot"}
  BY DEF Init, Idle, NoFile
<1>6. Len(file) \in Nat
  BY <1>10 DEF Begun
<1>7. CallTyped(call)
  BY <1>5, <1>6 DEF CallTyped, AtPath, Reading, Empty
<1> QED  BY <1>4, <1>7 DEF Init, TypeInv, FilesTyped

\* Every variable keeps its type, and a file is read only if the walk has found it.
THEOREM VerifyTypeCorrect == Spec => []TypeOK
<1>1. Init => TypeInv /\ FenceInv
  BY TypeInvInit, InitStep
<1>2. TypeInv /\ FenceInv /\ [Next]_vars => TypeInv' /\ FenceInv'
  BY TypeInvStep, FenceStep
<1>3. TypeInv /\ FenceInv => TypeOK
  <2> SUFFICES ASSUME TypeInv, FenceInv PROVE TypeOK
    OBVIOUS
  <2>1. PICK S : file \in Seq(S)
    BY DEF FenceInv, DiskOK
  <2>2. DOMAIN file = 1..Len(file)
    BY <2>1
  <2> QED  BY <2>2 DEF TypeOK, TypeInv, FilesTyped, CallTyped, FenceInv, DiskOK, StepOK
<1> QED  BY <1>1, <1>2, <1>3, PTL DEF Spec

-----------------------------------------------------------------------------
(* What VerifyFS reads, although it has no identity of a file to compare: of *)
(* the files that a path has had, no two have the same time.                 *)

\* The path each of the files fs came into being at.
OriginsOK(o, tr, fs) ==
  /\ o \in [1..Len(fs) -> Paths]
  /\ \A d \in Dirs, p \in Paths : tr[d][p] # NoFile => o[tr[d][p]] = p
  /\ \A g, h \in 1..Len(fs) : o[g] = o[h] /\ fs[g].time = fs[h].time => g = h

\* The file found at p is the only one there ever with its time.
OnlyAt(o, info, p, fs, b) ==
  /\ info.id \in 1..Len(fs) /\ Fenced(info.time, b)
  /\ \A h \in 1..Len(fs) : o[h] = p /\ fs[h].time = info.time => h = info.id

FoundOnly(o, c, fs, b) ==
  /\ \A p \in DOMAIN c.inventory : OnlyAt(o, c.inventory[p], p, fs, b)
  /\ c.step \in Reading \cup {"stat"} => o[c.handle] = c.path

\* What has been read is of the moment remembered; and of the files found then, those
\* whose time is still the same hold what they held.
MomentOK(c, fs, mo) ==
  VerifiesFS =>
    /\ c.first = Empty => c.bytes = Empty
    /\ \A p \in DOMAIN c.bytes : p \in DOMAIN mo /\ c.bytes[p] = <<mo[p], mo[p]>>
    /\ c.step \in {"next"} \cup AtPath =>
         /\ DOMAIN mo = DOMAIN c.inventory
         /\ \A p \in DOMAIN c.inventory :
              fs[c.inventory[p].id].time = c.inventory[p].time
                => fs[c.inventory[p].id].content = mo[p]

CoexistInv ==
  /\ MomentOK(call, file, moment)
  /\ \E o : OriginsOK(o, tree, file) /\ FoundOnly(o, call, file, budget)

\* The call goes on, or returns.
LEMMA CoexistCall ==
  ASSUME CoexistInv, NEW c, call' = c, UNCHANGED <<tree, file, budget, entry>>,
         MomentOK(c, file, moment'),
         \A o : OriginsOK(o, tree, file) /\ FoundOnly(o, call, file, budget)
                => FoundOnly(o, c, file, budget)
  PROVE  CoexistInv'
<1>1. MomentOK(call, file, moment)'
  BY DEF MomentOK, VerifiesFS
<1>2. PICK o : OriginsOK(o, tree, file) /\ FoundOnly(o, call, file, budget)
  BY DEF CoexistInv
<1>3. OriginsOK(o, tree', file') /\ FoundOnly(o, call', file', budget')
  BY <1>2
<1> QED  BY <1>1, <1>3 DEF CoexistInv

\* It goes on with what it had found and read.
LEMMA CoexistGoto ==
  ASSUME CoexistInv, NEW c, Goto(c), c.inventory = call.inventory, c.first = call.first,
         c.bytes = call.bytes,
         VerifiesFS /\ c.step \in {"next"} \cup AtPath => call.step \in {"next"} \cup AtPath,
         c.step \in Reading \cup {"stat"} =>
           call.step \in Reading \cup {"stat"} /\ c.handle = call.handle /\ c.path = call.path
  PROVE  CoexistInv'
<1>1. MomentOK(c, file, moment)
  BY DEF CoexistInv, MomentOK
<1>2. call' = c /\ UNCHANGED <<tree, file, budget, entry, moment>>
  BY DEF Goto, disk
<1>3. \A o : FoundOnly(o, call, file, budget) => FoundOnly(o, c, file, budget)
  BY DEF FoundOnly
<1> QED  BY <1>1, <1>2, <1>3, CoexistCall

\* A refusal has found nothing and read nothing.
LEMMA CoexistRefuse ==
  ASSUME CoexistInv, Refuse
  PROVE  CoexistInv'
<1>1. PICK c : c = [Idle EXCEPT !.step = "returned"]
  OBVIOUS
<1>2. /\ c.step = "returned" /\ c.bytes = Empty /\ DOMAIN c.bytes = {}
      /\ c.inventory = Empty /\ DOMAIN c.inventory = {}
  BY <1>1 DEF Idle, Empty
<1>3. call' = c /\ UNCHANGED <<tree, file, budget, entry, moment>>
  BY <1>1 DEF Refuse, disk
<1>4. MomentOK(c, file, moment)
  BY <1>2 DEF MomentOK, AtPath, Reading
<1>5. \A o : FoundOnly(o, c, file, budget)
  BY <1>2 DEF FoundOnly, Reading
<1> QED  BY <1>3, <1>4, <1>5, CoexistCall

\* An edit gives one file at most a time, which nothing had.
LEMMA OriginsEdited ==
  ASSUME DiskOK, Edit, NEW o, OriginsOK(o, tree, file)
  PROVE  \E o2 :
           /\ o2 \in [1..Len(file') -> Paths]
           /\ \A d \in Dirs, p \in Paths : tree'[d][p] # NoFile => o2[tree'[d][p]] = p
           /\ \A i \in 1..Len(file) : i \in 1..Len(file') /\ o2[i] = o[i]
           /\ \A h \in 1..Len(file') :
                \/ h \in 1..Len(file) /\ file'[h].time = file[h].time
                \/ file'[h].time = budget
           /\ \A g, h \in 1..Len(file') :
                file'[g].time = budget /\ file'[h].time = budget => g = h
<1>1. PICK S : file \in Seq(S)
  BY DEF DiskOK
<1>2. /\ DOMAIN file = 1..Len(file) /\ Len(file) \in Nat /\ at \in Dirs /\ budget \in Nat
      /\ tree \in [Dirs -> [Paths -> 0..Len(file)]]
      /\ \A i \in 1..Len(file) : DOMAIN file[i] = FileFields
  BY <1>1 DEF DiskOK
<1>3. /\ o \in [1..Len(file) -> Paths]
      /\ \A d \in Dirs, p \in Paths : tree[d][p] # NoFile => o[tree[d][p]] = p
  BY DEF OriginsOK
<1>4. \A i \in 1..Len(file) : file[i].time # budget
  <2> SUFFICES ASSUME NEW i \in 1..Len(file) PROVE file[i].time # budget
    OBVIOUS
  <2>1. Fenced(file[i].time, budget) /\ budget \in Nat
    BY DEF DiskOK
  <2> QED  BY <2>1 DEF Fenced
<1>5. ASSUME NEW p \in Paths, Rewrite(p) \/ ChangeMode(p),
             NEW g \in 1..Len(file), NEW new, new.time \in {budget, file[g].time},
             file' = [file EXCEPT ![g] = new], tree' = tree
      PROVE  /\ Len(file') = Len(file)
             /\ \A h \in 1..Len(file) : h # g => file'[h] = file[h]
             /\ file'[g].time \in {budget, file[g].time}
  <2>1. file \in Seq(S \cup {new}) /\ new \in S \cup {new}
    BY <1>1
  <2>2. Len(file') = Len(file)
    BY <1>5, <2>1
  <2> QED  BY <1>2, <1>5, <2>2
<1>6. ASSUME NEW p \in Paths, Rewrite(p) \/ ChangeMode(p)
      PROVE  /\ Len(file') = Len(file) /\ tree' = tree
             /\ \E g \in 1..Len(file) :
                  /\ \A h \in 1..Len(file) : h # g => file'[h] = file[h]
                  /\ file'[g].time \in {budget, file[g].time}
  <2>1. PICK g : g = tree[at][p]
    OBVIOUS
  <2>2. g \in 1..Len(file) /\ tree' = tree
    BY <1>2, <1>6, <2>1 DEF Rewrite, ChangeMode, NoFile
  <2>3. CASE Rewrite(p)
    <3>1. PICK content : file' = [file EXCEPT ![g].content = content, ![g].time = budget]
      BY <2>1, <2>3 DEF Rewrite, Now
    <3>2. PICK new : new = [file[g] EXCEPT !.content = content, !.time = budget]
      OBVIOUS
    <3>3. new.time = budget
      BY <1>2, <2>2, <3>2 DEF FileFields
    <3>4. file' = [file EXCEPT ![g] = new]
      BY <1>2, <2>2, <3>1, <3>2
    <3> QED  BY <1>5, <1>6, <2>2, <3>3, <3>4
  <2>4. CASE ChangeMode(p)
    <3>1. PICK new : new = [file[g] EXCEPT !.mode = "executable"]
      OBVIOUS
    <3>2. new.time = file[g].time
      BY <1>2, <2>2, <3>1 DEF FileFields
    <3>3. file' = [file EXCEPT ![g] = new]
      BY <2>1, <2>4, <3>1 DEF ChangeMode
    <3> QED  BY <1>5, <1>6, <2>2, <3>2, <3>3
  <2> QED  BY <1>6, <2>3, <2>4
<1>7. CASE \E p \in Paths : Rewrite(p) \/ ChangeMode(p)
  <2>1. PICK g \in 1..Len(file) :
          /\ Len(file') = Len(file) /\ tree' = tree
          /\ \A h \in 1..Len(file) : h # g => file'[h] = file[h]
          /\ file'[g].time \in {budget, file[g].time}
    BY <1>6, <1>7
  <2> WITNESS o
  <2> QED  BY <1>3, <1>4, <2>1
<1>8. ASSUME NEW p \in Paths, Replace(p)
      PROVE  \E o2 :
           /\ o2 \in [1..Len(file') -> Paths]
           /\ \A d \in Dirs, q \in Paths : tree'[d][q] # NoFile => o2[tree'[d][q]] = q
           /\ \A i \in 1..Len(file) : i \in 1..Len(file') /\ o2[i] = o[i]
           /\ \A h \in 1..Len(file') :
                \/ h \in 1..Len(file) /\ file'[h].time = file[h].time
                \/ file'[h].time = budget
           /\ \A g, h \in 1..Len(file') :
                file'[g].time = budget /\ file'[h].time = budget => g = h
  <2>1. PICK content, mode :
          file' = Append(file, [content |-> content, mode |-> mode, time |-> Now])
    BY <1>8 DEF Replace
  <2>2. PICK new : new = [content |-> content, mode |-> mode, time |-> Now]
    OBVIOUS
  <2>3. new.time = budget /\ file' = Append(file, new) /\ file \in Seq(S \cup {new})
    BY <1>1, <2>1, <2>2 DEF Now
  <2>4. PICK n : n = Len(file) + 1
    OBVIOUS
  <2>5. /\ Len(file') = n /\ file'[n] = new /\ n \in 1..n /\ n \notin 1..Len(file)
        /\ \A i \in 1..Len(file) : file'[i] = file[i]
        /\ 1..n = 1..Len(file) \cup {n}
    BY <1>2, <2>3, <2>4
  <2>6. /\ tree' = [tree EXCEPT ![at][p] = n]
    BY <1>8, <2>4 DEF Replace
  <2>7. /\ tree'[at][p] = n
        /\ \A d \in Dirs, q \in Paths : d # at \/ q # p => tree'[d][q] = tree[d][q]
    BY <1>2, <2>6
  <2>8. PICK o2 : o2 = [i \in 1..n |-> IF i = n THEN p ELSE o[i]]
    OBVIOUS
  <2>9. /\ o2 \in [1..n -> Paths] /\ o2[n] = p /\ \A i \in 1..Len(file) : o2[i] = o[i]
    BY <1>3, <2>5, <2>8
  <2>10. ASSUME NEW d \in Dirs, NEW q \in Paths, tree'[d][q] # NoFile
         PROVE  o2[tree'[d][q]] = q
    <3>1. CASE d = at /\ q = p
      BY <2>7, <2>9, <3>1
    <3>2. CASE d # at \/ q # p
      <4>1. tree'[d][q] = tree[d][q] /\ tree[d][q] \in 0..Len(file)
        BY <1>2, <2>7, <3>2
      <4>2. tree[d][q] \in 1..Len(file)
        BY <1>2, <2>10, <4>1 DEF NoFile
      <4> QED  BY <1>3, <2>9, <2>10, <4>1, <4>2
    <3> QED  BY <3>1, <3>2
  <2> WITNESS o2
  <2> QED  BY <1>4, <2>3, <2>5, <2>9, <2>10
<1>9. ASSUME SwapRoot \/ \E p \in Paths : Unlink(p)
      PROVE  /\ file' = file
             /\ \A d \in Dirs, p \in Paths : tree'[d][p] \in {NoFile, tree[d][p]}
  <2>1. CASE SwapRoot
    BY <2>1 DEF SwapRoot
  <2>2. ASSUME NEW p \in Paths, Unlink(p)
        PROVE  /\ file' = file
               /\ \A d \in Dirs, q \in Paths : tree'[d][q] \in {NoFile, tree[d][q]}
    <3>1. file' = file /\ tree' = [tree EXCEPT ![at][p] = NoFile]
      BY <2>2 DEF Unlink
    <3> QED  BY <1>2, <3>1
  <2> QED  BY <1>9, <2>1, <2>2
<1>10. CASE SwapRoot \/ \E p \in Paths : Unlink(p)
  <2>1. /\ file' = file
        /\ \A d \in Dirs, p \in Paths : tree'[d][p] \in {NoFile, tree[d][p]}
    BY <1>9, <1>10
  <2> WITNESS o
  <2> QED  BY <1>3, <1>4, <2>1
<1> QED  BY <1>7, <1>8, <1>10 DEF Edit

\* An edit gives the file it changes a time that no file found has.
LEMMA CoexistEdit ==
  ASSUME DiskOK, ReadOK(call, file, budget), CoexistInv, Edit
  PROVE  CoexistInv'
<1>1. PICK o : OriginsOK(o, tree, file) /\ FoundOnly(o, call, file, budget)
  BY DEF CoexistInv
<1>2. PICK o2 :
        /\ o2 \in [1..Len(file') -> Paths]
        /\ \A d \in Dirs, p \in Paths : tree'[d][p] # NoFile => o2[tree'[d][p]] = p
        /\ \A i \in 1..Len(file) : i \in 1..Len(file') /\ o2[i] = o[i]
        /\ \A h \in 1..Len(file') :
             \/ h \in 1..Len(file) /\ file'[h].time = file[h].time
             \/ file'[h].time = budget
        /\ \A g, h \in 1..Len(file') :
             file'[g].time = budget /\ file'[h].time = budget => g = h
  BY <1>1, OriginsEdited
<1>3. /\ call' = call /\ UNCHANGED <<entry, moment>>
      /\ budget \in Nat /\ budget' = budget - 1
  BY DiskEdited DEF DiskOK, Edit, SwapRoot, Rewrite, ChangeMode, Replace, Unlink, Edited
<1>4. \A i \in 1..Len(file) : file[i].time # budget
  <2> SUFFICES ASSUME NEW i \in 1..Len(file) PROVE file[i].time # budget
    OBVIOUS
  <2>1. Fenced(file[i].time, budget)
    BY DEF DiskOK
  <2> QED  BY <1>3, <2>1 DEF Fenced
<1>5. ASSUME NEW g \in 1..Len(file'), NEW h \in 1..Len(file'), o2[g] = o2[h],
             file'[g].time = file'[h].time
      PROVE  g = h
  <2>1. CASE file'[g].time = budget
    BY <1>2, <1>5, <2>1
  <2>2. CASE file'[g].time # budget
    <3>1. /\ g \in 1..Len(file) /\ h \in 1..Len(file)
          /\ file[g].time = file[h].time /\ o[g] = o[h]
      BY <1>2, <1>5, <2>2
    <3> QED  BY <1>1, <3>1 DEF OriginsOK
  <2> QED  BY <2>1, <2>2
<1>6. OriginsOK(o2, tree', file')
  BY <1>2, <1>5 DEF OriginsOK
<1>7. ASSUME NEW p \in DOMAIN call.inventory
      PROVE  /\ OnlyAt(o2, call.inventory[p], p, file', budget')
             /\ call.inventory[p].id \in 1..Len(file) /\ Fenced(call.inventory[p].time, budget)
  <2>1. PICK info : info = call.inventory[p]
    OBVIOUS
  <2>2. OnlyAt(o, info, p, file, budget)
    BY <1>1, <2>1 DEF FoundOnly
  <2>3. /\ info.id \in 1..Len(file) /\ Fenced(info.time, budget)
        /\ info.id \in 1..Len(file') /\ Fenced(info.time, budget') /\ info.time # budget
    BY <1>2, <1>3, <2>2 DEF OnlyAt, Fenced
  <2>4. ASSUME NEW h \in 1..Len(file'), o2[h] = p, file'[h].time = info.time
        PROVE  h = info.id
    BY <1>2, <2>2, <2>3, <2>4 DEF OnlyAt
  <2> QED  BY <2>1, <2>3, <2>4 DEF OnlyAt
<1>8. FoundOnly(o2, call, file', budget')
  <2>1. call.step \in Reading \cup {"stat"} => o2[call.handle] = call.path
    BY <1>1, <1>2 DEF FoundOnly, ReadOK
  <2> QED  BY <1>7, <2>1 DEF FoundOnly
<1>9. MomentOK(call, file', moment)
  <2>1. ASSUME NEW p \in DOMAIN call.inventory, VerifiesFS, call.step \in {"next"} \cup AtPath,
               file'[call.inventory[p].id].time = call.inventory[p].time
        PROVE  file'[call.inventory[p].id].content = moment[p]
    <3>1. PICK g, t : g = call.inventory[p].id /\ t = call.inventory[p].time
      OBVIOUS
    <3>2. g \in 1..Len(file) /\ Fenced(t, budget)
      BY <1>7, <3>1
    <3>3. file[g].time = t /\ file'[g].content = file[g].content
      BY <2>1, <3>1, <3>2, FileUnedited
    <3> QED  BY <2>1, <3>1, <3>3 DEF CoexistInv, MomentOK
  <2> QED  BY <2>1 DEF CoexistInv, MomentOK
<1>10. MomentOK(call, file, moment)'
  BY <1>3, <1>9 DEF MomentOK, VerifiesFS
<1> QED  BY <1>3, <1>6, <1>8, <1>10 DEF CoexistInv

\* A file is found, and is the only one there that has its time.
LEMMA CoexistInspect ==
  ASSUME FenceInv, CoexistInv, NEW p \in call.walk, Inspect(p)
  PROVE  CoexistInv'
<1>1. /\ DOMAIN call = CallFields /\ DiskOK /\ p \in Paths /\ call.step = "walk"
      /\ at \in Dirs /\ tree \in [Dirs -> [Paths -> 0..Len(file)]]
  BY DEF FenceInv, StepOK, DiskOK, Inspect, At
<1>2. PICK info : info = Info(tree[at][p])
  OBVIOUS
<1>3. PICK found : found = [q \in DOMAIN call.inventory \cup {p} |->
                              IF q = p THEN info ELSE call.inventory[q]]
  OBVIOUS
<1>4. PICK c : c = [call EXCEPT !.walk = call.walk \ {p}, !.inventory = found]
  OBVIOUS
<1>5. Refuse \/ (Goto(c) /\ tree[at][p] # NoFile)
  BY <1>2, <1>3, <1>4 DEF Inspect, EntryAccepted
<1>6. /\ c.inventory = found /\ c.first = call.first /\ c.bytes = call.bytes /\ c.step = "walk"
  BY <1>1, <1>4 DEF CallFields
<1>7. CASE Goto(c) /\ tree[at][p] # NoFile
  <2>1. tree[at][p] \in 1..Len(file) /\ info.id = tree[at][p] /\ info.time = file[info.id].time
    BY <1>1, <1>2, <1>7 DEF Info, NoFile
  <2>2. Fenced(info.time, budget)
    BY <1>1, <2>1 DEF DiskOK
  <2>3. ASSUME NEW o, OriginsOK(o, tree, file), FoundOnly(o, call, file, budget)
        PROVE  FoundOnly(o, c, file, budget)
    <3>1. o[info.id] = p
      BY <1>1, <1>7, <2>1, <2>3 DEF OriginsOK
    <3>2. OnlyAt(o, info, p, file, budget)
      BY <2>1, <2>2, <2>3, <3>1 DEF OriginsOK, OnlyAt
    <3>3. \A q \in DOMAIN call.inventory : OnlyAt(o, call.inventory[q], q, file, budget)
      BY <2>3 DEF FoundOnly
    <3>4. \A q \in DOMAIN found : OnlyAt(o, found[q], q, file, budget)
      BY <1>3, <3>2, <3>3
    <3> QED  BY <1>6, <3>4 DEF FoundOnly, Reading
  <2>4. MomentOK(c, file, moment)
    BY <1>6 DEF CoexistInv, MomentOK, AtPath, Reading
  <2>5. call' = c /\ UNCHANGED <<tree, file, budget, entry, moment>>
    BY <1>7 DEF Goto, disk
  <2> QED  BY <2>3, <2>4, <2>5, CoexistCall
<1> QED  BY <1>5, <1>7, CoexistRefuse

\* The first walk has ended: the moment.
LEMMA CoexistInventory ==
  ASSUME FenceInv, TypeInv, CoexistInv, OpenRootStable \/ Inventory \/ AssertRootStable
  PROVE  CoexistInv'
<1>1. DOMAIN call = CallFields /\ StepOK(call) /\ DiskOK
  BY DEF FenceInv, StepOK
<1>2. CASE OpenRootStable
  <2>1. PICK c \in {[call EXCEPT !.root = RootInfo(at), !.step = "openRoot"],
                    [call EXCEPT !.held = at, !.step = "statRoot"],
                    [call EXCEPT !.step = "list"]} : Goto(c) \/ Refuse
    BY <1>2 DEF OpenRootStable, LstatRoot, OpenRoot, StatRoot, Check
  <2>2. /\ c.step \in {"openRoot", "statRoot", "list"}
        /\ c.inventory = call.inventory /\ c.first = call.first /\ c.bytes = call.bytes
    BY <1>1, <2>1 DEF CallFields
  <2> QED  BY <2>1, <2>2, CoexistGoto, CoexistRefuse DEF AtPath, Reading
<1>3. CASE ListRoot
  <2>1. PICK c : c = [call EXCEPT !.walk = Present(FALSE), !.nested = TRUE, !.inventory = Empty,
                                  !.listed = at, !.step = "walk"]
    OBVIOUS
  <2>2. /\ c.step = "walk" /\ c.first = call.first /\ c.bytes = call.bytes
        /\ c.inventory = Empty /\ DOMAIN c.inventory = {}
    BY <1>1, <2>1 DEF CallFields, Empty
  <2>3. call' = c /\ UNCHANGED <<tree, file, budget, entry, moment>>
    BY <1>3, <2>1 DEF ListRoot, Goto, disk
  <2>4. MomentOK(c, file, moment)
    BY <2>2 DEF CoexistInv, MomentOK, AtPath, Reading
  <2>5. \A o : FoundOnly(o, c, file, budget)
    BY <2>2 DEF FoundOnly, Reading
  <2> QED  BY <2>3, <2>4, <2>5, CoexistCall
<1>4. CASE ListSubdirectory
  <2>1. PICK c : c = [call EXCEPT !.walk = call.walk \cup Present(TRUE), !.nested = FALSE]
    OBVIOUS
  <2>2. /\ c.step = "walk" /\ Goto(c)
        /\ c.inventory = call.inventory /\ c.first = call.first /\ c.bytes = call.bytes
    BY <1>1, <1>4, <2>1 DEF ListSubdirectory, At, CallFields
  <2> QED  BY <2>2, CoexistGoto DEF AtPath, Reading
<1>5. ASSUME InventoryTaken, ~Refuse
      PROVE  CoexistInv'
  <2>1. Index \in DOMAIN call.inventory /\ call.step = "walk"
    BY <1>5 DEF InventoryTaken, At
  <2>2. CASE ~VerifiesFS \/ call.first # Empty
    <3>1. PICK c \in {[call EXCEPT !.step = "statHandle"], [call EXCEPT !.step = "verifyStaged"]} :
            Goto(c)
      BY <1>5, <2>1, <2>2 DEF InventoryTaken, Check
    <3>2. /\ c.step \in {"statHandle", "verifyStaged"}
          /\ c.inventory = call.inventory /\ c.first = call.first /\ c.bytes = call.bytes
      BY <1>1, <3>1 DEF CallFields
    <3> QED  BY <3>1, <3>2, CoexistGoto DEF AtPath, Reading
  <2>3. CASE VerifiesFS /\ call.first = Empty
    <3>1. PICK c : c = [call EXCEPT !.first = call.inventory, !.step = "next"]
      OBVIOUS
    <3>2. /\ call' = c /\ UNCHANGED <<tree, file, budget, entry>>
          /\ moment' = [p \in DOMAIN call.inventory |-> file[call.inventory[p].id].content]
      BY <1>5, <2>1, <2>3, <3>1 DEF InventoryTaken, disk
    <3>3. /\ c.step = "next" /\ c.inventory = call.inventory /\ c.bytes = call.bytes
      BY <1>1, <3>1 DEF CallFields
    <3>4. c.bytes = Empty /\ DOMAIN c.bytes = {}
      BY <2>3, <3>3 DEF CoexistInv, MomentOK, Empty
    <3>5. PICK mo : mo = moment'
      OBVIOUS
    <3>6. MomentOK(c, file, mo)
      BY <3>2, <3>3, <3>4, <3>5 DEF MomentOK
    <3>7. \A o : FoundOnly(o, call, file, budget) => FoundOnly(o, c, file, budget)
      BY <3>3 DEF FoundOnly, Reading
    <3> QED  BY <3>2, <3>5, <3>6, <3>7, CoexistCall
  <2> QED  BY <2>2, <2>3
<1>6. CASE StatHandle
  <2>1. PICK c : c = [call EXCEPT !.step = "lstatAgain"]
    OBVIOUS
  <2>2. /\ Goto(c) \/ Refuse
        /\ c.step = "lstatAgain"
        /\ c.inventory = call.inventory /\ c.first = call.first /\ c.bytes = call.bytes
    BY <1>1, <1>6, <2>1 DEF StatHandle, Check, CallFields
  <2> QED  BY <2>2, CoexistGoto, CoexistRefuse DEF AtPath, Reading
<1>7. CASE LstatAgain
  <2>1. PICK c \in {[call EXCEPT !.path = Index, !.step = "lstat"], [call EXCEPT !.step = "returned"]} :
          \/ Refuse
          \/ call' = c /\ UNCHANGED <<tree, file, budget, entry, moment>>
    BY <1>7 DEF LstatAgain, Goto, disk
  <2>2. /\ c.step \in {"lstat", "returned"} /\ ~VerifiesFS
        /\ c.inventory = call.inventory
    BY <1>1, <1>7, <2>1 DEF LstatAgain, At, StepOK, CallFields
  <2>3. MomentOK(c, file, moment)
    BY <2>2 DEF MomentOK
  <2>4. \A o : FoundOnly(o, call, file, budget) => FoundOnly(o, c, file, budget)
    BY <2>2 DEF FoundOnly, Reading
  <2> QED  BY <2>1, <2>3, <2>4, CoexistCall, CoexistRefuse
<1> QED
  BY <1>2, <1>3, <1>4, <1>5, <1>6, <1>7, CoexistInspect, CoexistRefuse DEF Inventory, AssertRootStable

\* The bytes VerifyFS adds are those of the moment, if the file read still has the time
\* its inventory recorded for the path.
LEMMA CoexistRead ==
  ASSUME FenceInv, TypeInv, CoexistInv, NextFile \/ ReadFile
  PROVE  CoexistInv'
<1>1. DOMAIN call = CallFields /\ StepOK(call) /\ DiskOK /\ ReadOK(call, file, budget)
  BY DEF FenceInv, StepOK
<1>2. CASE NextFile
  <2>1. PICK c : /\ \/ \E p : c = [call EXCEPT !.path = p, !.step = IF VerifiesFS THEN "open" ELSE "lstat"]
                    \/ c = [call EXCEPT !.step = "list"]
                    \/ c = [call EXCEPT !.step = "statHandle"]
                 /\ Goto(c) \/ Refuse
    BY <1>2 DEF NextFile, Check
  <2>2. /\ c.step \in {"open", "lstat", "list", "statHandle"} /\ call.step = "next"
        /\ c.inventory = call.inventory /\ c.first = call.first /\ c.bytes = call.bytes
    BY <1>1, <1>2, <2>1 DEF NextFile, At, CallFields
  <2> QED  BY <2>1, <2>2, CoexistGoto, CoexistRefuse DEF AtPath, Reading
<1>3. CASE Lstat
  <2>1. PICK f : f = Info(tree[at][call.path])
    OBVIOUS
  <2>2. PICK c : c = [call EXCEPT !.before = f, !.step = "open"]
    OBVIOUS
  <2>3. Goto(c) \/ Refuse
    BY <1>3, <2>1, <2>2 DEF Lstat
  <2>4. /\ c.step = "open" /\ call.step = "lstat"
        /\ c.inventory = call.inventory /\ c.first = call.first /\ c.bytes = call.bytes
    BY <1>1, <1>3, <2>2 DEF Lstat, At, CallFields
  <2> QED  BY <2>3, <2>4, CoexistGoto, CoexistRefuse DEF AtPath, Reading
<1>4. CASE OpenFile
  <2>1. PICK d : d = IF VerifiesFS THEN at ELSE call.held
    OBVIOUS
  <2>2. PICK f : f = tree[d][call.path]
    OBVIOUS
  <2>3. PICK c : c = [call EXCEPT !.handle = f, !.step = "stat"]
    OBVIOUS
  <2>4. Refuse \/ (Goto(c) /\ f # NoFile)
    BY <1>4, <2>1, <2>2, <2>3 DEF OpenFile
  <2>5. verdict = "none" /\ call.step = "open" /\ call.path \in Paths
    BY <1>1, <1>4 DEF OpenFile, At, StepOK
  <2>6. d \in Dirs
    BY <1>1, <2>1, <2>5, CallFacts DEF DiskOK, HeldOK
  <2>7. /\ c.step = "stat" /\ c.handle = f /\ c.path = call.path
        /\ c.inventory = call.inventory /\ c.first = call.first /\ c.bytes = call.bytes
    BY <1>1, <2>3 DEF CallFields
  <2>8. CASE Goto(c) /\ f # NoFile
    <3>1. \A o : OriginsOK(o, tree, file) => o[f] = call.path
      BY <2>2, <2>5, <2>6, <2>8 DEF OriginsOK
    <3>2. \A o : OriginsOK(o, tree, file) /\ FoundOnly(o, call, file, budget)
                 => FoundOnly(o, c, file, budget)
      BY <2>7, <3>1 DEF FoundOnly
    <3>3. MomentOK(c, file, moment)
      BY <2>5, <2>7 DEF CoexistInv, MomentOK, AtPath
    <3>4. call' = c /\ UNCHANGED <<tree, file, budget, entry, moment>>
      BY <2>8 DEF Goto, disk
    <3> QED  BY <3>2, <3>3, <3>4, CoexistCall
  <2> QED  BY <2>4, <2>8, CoexistRefuse
<1>5. CASE StatFile \/ ReadHead \/ ReadTail
  <2>1. PICK before, head, raw : before = Handle /\ head = file[call.handle].content
                                 /\ raw = <<call.head, file[call.handle].content>>
    OBVIOUS
  <2>2. PICK c : /\ \/ c = [call EXCEPT !.before = before, !.step = "head"]
                    \/ c = [call EXCEPT !.head = head, !.step = "tail"]
                    \/ c = [call EXCEPT !.raw = raw, !.step = "statAfter"]
                 /\ Goto(c) \/ Refuse
    BY <1>5, <2>1 DEF StatFile, ReadHead, ReadTail, Check
  <2>3. /\ c.step \in {"head", "tail", "statAfter"} /\ call.step \in {"stat", "head", "tail"}
        /\ c.handle = call.handle /\ c.path = call.path
        /\ c.inventory = call.inventory /\ c.first = call.first /\ c.bytes = call.bytes
    BY <1>1, <1>5, <2>2 DEF StatFile, ReadHead, ReadTail, At, CallFields
  <2> QED  BY <2>2, <2>3, CoexistGoto, CoexistRefuse DEF AtPath, Reading
<1>6. CASE StatAfter /\ ~VerifiesFS
  <2>1. PICK c : c = [call EXCEPT !.step = "lstatAfter"]
    OBVIOUS
  <2>2. Goto(c) \/ Refuse
    BY <1>6, <2>1 DEF StatAfter, Check
  <2>3. /\ c.step = "lstatAfter" /\ call.step = "statAfter"
        /\ c.handle = call.handle /\ c.path = call.path
        /\ c.inventory = call.inventory /\ c.first = call.first /\ c.bytes = call.bytes
    BY <1>1, <1>6, <2>1 DEF StatAfter, At, CallFields
  <2> QED  BY <2>2, <2>3, CoexistGoto, CoexistRefuse DEF AtPath, Reading
<1>7. CASE StatAfter /\ VerifiesFS
  <2>1. PICK bytes, raw, path, info :
          /\ raw = call.raw /\ bytes = Bytes(raw) /\ path = call.path /\ info = call.inventory[path]
    OBVIOUS
  <2>2. PICK c : c = [Read(raw) EXCEPT !.step = "next"]
    OBVIOUS
  <2>3. Refuse \/ (Goto(c) /\ Attributes(Inventoried) = Attributes(Handle))
    BY <1>7, <2>1, <2>2 DEF StatAfter, Check
  <2>4. /\ c.step = "next" /\ call.step = "statAfter"
        /\ c.inventory = call.inventory /\ c.first = call.first /\ c.bytes = bytes
    BY <1>1, <1>7, <2>1, <2>2 DEF StatAfter, At, Read, CallFields
  <2>5. CASE Goto(c) /\ Attributes(Inventoried) = Attributes(Handle)
    <3>1. /\ path \in DOMAIN call.inventory /\ call.handle \in 1..Len(file)
          /\ call.first = call.inventory /\ Index \in DOMAIN call.inventory
      <4>1. call.path # NoPath
        BY <1>1, <2>4, PathsAssumption DEF StepOK, Reading
      <4> QED  BY <1>1, <1>7, <2>1, <2>4, <4>1 DEF TypeInv, CallTyped, AtPath, Reading, ReadOK
    <3>2. info.time = file[call.handle].time
      <4>1. Attributes(info) = Attributes(Info(call.handle))
        BY <2>1, <2>5 DEF Inventoried, Handle
      <4>2. Attributes(info).time = Attributes(Info(call.handle)).time
        BY <4>1
      <4> QED  BY <4>2 DEF Attributes, Info
    <3>3. PICK o : OriginsOK(o, tree, file) /\ FoundOnly(o, call, file, budget)
      BY DEF CoexistInv
    <3>4. o[call.handle] = path /\ OnlyAt(o, info, path, file, budget)
      BY <2>1, <2>4, <3>1, <3>3 DEF FoundOnly, Reading
    <3>5. call.handle = info.id
      BY <3>1, <3>2, <3>4 DEF OnlyAt
    <3>6. DOMAIN moment = DOMAIN call.inventory /\ file[call.handle].content = moment[path]
      BY <1>7, <2>1, <2>4, <3>1, <3>2, <3>5 DEF CoexistInv, MomentOK, AtPath, Reading
    <3>7. raw = <<moment[path], moment[path]>>
      BY <1>1, <1>7, <2>1, <2>4, <3>2, <3>6 DEF ReadOK, Reading
    <3>8. \A p \in DOMAIN call.bytes : p \in DOMAIN moment /\ call.bytes[p] = <<moment[p], moment[p]>>
      BY <1>7 DEF CoexistInv, MomentOK
    <3>9. \A p \in DOMAIN bytes : p \in DOMAIN moment /\ bytes[p] = <<moment[p], moment[p]>>
      BY <2>1, <3>1, <3>6, <3>7, <3>8 DEF Bytes
    <3>10. c.first # Empty
      BY <2>4, <3>1 DEF Empty
    <3>11. MomentOK(c, file, moment)
      BY <1>7, <2>4, <3>9, <3>10 DEF CoexistInv, MomentOK, AtPath, Reading
    <3>12. \A x : FoundOnly(x, call, file, budget) => FoundOnly(x, c, file, budget)
      BY <2>4 DEF FoundOnly, Reading
    <3>13. call' = c /\ UNCHANGED <<tree, file, budget, entry, moment>>
      BY <2>5 DEF Goto, disk
    <3> QED  BY <3>11, <3>12, <3>13, CoexistCall
  <2> QED  BY <2>3, <2>5, CoexistRefuse
<1>8. CASE LstatAfter
  <2>1. PICK index : index = (IF call.path = Index THEN Decoded(call.raw) ELSE call.index)
    OBVIOUS
  <2>2. PICK c : c = [Read(call.raw) EXCEPT !.step = "next", !.index = index]
    OBVIOUS
  <2>3. [Read(call.raw) EXCEPT !.step = "next",
                               !.index = IF call.path = Index THEN Decoded(call.raw) ELSE @] = c
    BY <1>1, <2>1, <2>2 DEF Read, CallFields
  <2>4. Goto(c) \/ Refuse
    BY <1>8, <2>3 DEF LstatAfter, Check
  <2>5. c.step = "next" /\ c.inventory = call.inventory /\ ~VerifiesFS
    BY <1>1, <1>8, <2>2 DEF Read, CallFields, LstatAfter, At, StepOK
  <2>6. MomentOK(c, file, moment)
    BY <2>5 DEF MomentOK
  <2>7. \A o : FoundOnly(o, call, file, budget) => FoundOnly(o, c, file, budget)
    BY <2>5 DEF FoundOnly, Reading
  <2>8. Goto(c) => call' = c /\ UNCHANGED <<tree, file, budget, entry, moment>>
    BY DEF Goto, disk
  <2> QED  BY <2>4, <2>6, <2>7, <2>8, CoexistCall, CoexistRefuse
<1> QED  BY <1>2, <1>3, <1>4, <1>5, <1>6, <1>7, <1>8 DEF ReadFile

\* Every step keeps what was found apart from what replaces it.
LEMMA CoexistStep == FenceInv /\ TypeInv /\ CoexistInv /\ [Next]_vars => CoexistInv'
<1> SUFFICES ASSUME FenceInv, TypeInv, CoexistInv, [Next]_vars PROVE CoexistInv'
  OBVIOUS
<1>1. DOMAIN call = CallFields /\ StepOK(call) /\ DiskOK /\ ReadOK(call, file, budget)
  BY DEF FenceInv, StepOK
<1>2. ASSUME ReadStaged \/ ReturnStaged
      PROVE  CoexistInv'
  <2>1. PICK c : /\ \/ \E index : c = [call EXCEPT !.index = index, !.step = "checkStaged"]
                    \/ c = [call EXCEPT !.step = "returned"]
                 /\ call' = c /\ UNCHANGED <<tree, file, budget, entry, moment>>
    BY <1>2 DEF ReadStaged, ReturnStaged, Goto, disk
  <2>2. /\ c.step \in {"checkStaged", "returned"}
        /\ c.inventory = call.inventory /\ c.first = call.first /\ c.bytes = call.bytes
    BY <1>1, <2>1 DEF CallFields
  <2>3. MomentOK(c, file, moment)
    BY <2>2 DEF CoexistInv, MomentOK, AtPath, Reading
  <2>4. \A o : FoundOnly(o, call, file, budget) => FoundOnly(o, c, file, budget)
    BY <2>2 DEF FoundOnly, Reading
  <2> QED  BY <2>1, <2>3, <2>4, CoexistCall
<1>3. CASE UNCHANGED vars
  BY <1>3 DEF vars, disk, CoexistInv, MomentOK, VerifiesFS
<1> QED
  BY <1>1, <1>2, <1>3, CoexistEdit, CoexistInventory, CoexistRead, CoexistRefuse
  DEF Next, StageFails, RefuseStaged

\* The files of one directory have different paths, those of the two different times.
LEMMA CoexistInit == Init => CoexistInv
<1> SUFFICES ASSUME Init PROVE CoexistInv
  OBVIOUS
<1>0. PICK package \in Packages :
        /\ file = FilesOf(package, -1) \o FilesOf(Beside[package], -2)
        /\ tree = [d \in Dirs |-> [p \in Paths |->
                     CASE d = 1 /\ p \in DOMAIN package -> PlaceOf(package, p)
                       [] d = 2 /\ p \in DOMAIN Beside[package] ->
                            Cardinality(DOMAIN package) + PlaceOf(Beside[package], p)
                       [] OTHER -> NoFile]]
  BY DEF Init
<1>1. PICK other, m, n : /\ other = Beside[package]
                         /\ m = Cardinality(DOMAIN package) /\ n = Cardinality(DOMAIN other)
  OBVIOUS
<1>2. DOMAIN package \subseteq Paths /\ DOMAIN other \subseteq Paths
  BY <1>1, PathsAssumption
<1>3. Begun(package, other, m, n)
  <2>1. file = FilesOf(package, -1) \o FilesOf(other, -2)
    BY <1>0, <1>1
  <2> QED  BY <1>1, <1>2, <2>1, FilesBegin
<1>4. /\ m \in Nat
      /\ \A p \in DOMAIN package : PlaceOf(package, p) \in 1..m
      /\ \A p, q \in DOMAIN package : PlaceOf(package, p) = PlaceOf(package, q) => p = q
  BY <1>1, <1>2, Places
<1>5. /\ n \in Nat
      /\ \A p \in DOMAIN other : PlaceOf(other, p) \in 1..n
      /\ \A p, q \in DOMAIN other : PlaceOf(other, p) = PlaceOf(other, q) => p = q
  <2>1. DOMAIN other \subseteq Paths /\ n = Cardinality(DOMAIN other)
    BY <1>1, <1>2
  <2> QED  BY <2>1, Places
<1> DEFINE Origin(i, p) == IF i \in 1..m THEN p \in DOMAIN package /\ PlaceOf(package, p) = i
                                         ELSE p \in DOMAIN other /\ PlaceOf(other, p) = i - m
<1>6. ASSUME NEW i \in 1..Len(file)
      PROVE  \E p \in Paths : /\ Origin(i, p)
                              /\ file[i].time = IF i \in 1..m THEN -1 ELSE -2
  BY <1>2, <1>3 DEF Begun
<1>7. \A i, p, q : Origin(i, p) /\ Origin(i, q) => p = q
  BY <1>4, <1>5
<1>8. PICK o : o = [i \in 1..Len(file) |-> CHOOSE p \in Paths : Origin(i, p)]
  OBVIOUS
<1>9. \A i \in 1..Len(file) : o[i] \in Paths /\ Origin(i, o[i])
  BY <1>6, <1>8
<1>10. o \in [1..Len(file) -> Paths]
  BY <1>8, <1>9
<1>11. ASSUME NEW d \in Dirs, NEW p \in Paths, tree[d][p] # NoFile
       PROVE  o[tree[d][p]] = p
  <2>1. Len(file) = m + n
    BY <1>3 DEF Begun
  <2>2. CASE d = 1 /\ p \in DOMAIN package
    <3>1. tree[d][p] = PlaceOf(package, p)
      BY <1>0, <2>2
    <3>2. tree[d][p] \in 1..m /\ tree[d][p] \in 1..Len(file)
      BY <1>4, <1>5, <2>1, <2>2, <3>1
    <3>3. Origin(tree[d][p], p)
      BY <2>2, <3>1, <3>2
    <3> QED  BY <1>7, <1>9, <3>2, <3>3
  <2>3. CASE d = 2 /\ p \in DOMAIN other
    <3>1. tree[d][p] = m + PlaceOf(other, p)
      BY <1>0, <1>1, <2>3
    <3>2. /\ tree[d][p] \in 1..Len(file) /\ tree[d][p] \notin 1..m
          /\ tree[d][p] - m = PlaceOf(other, p)
      BY <1>4, <1>5, <2>1, <2>3, <3>1
    <3>3. Origin(tree[d][p], p)
      BY <2>3, <3>2
    <3> QED  BY <1>7, <1>9, <3>2, <3>3
  <2> QED  BY <1>0, <1>1, <1>11, <2>2, <2>3
<1>12. ASSUME NEW g \in 1..Len(file), NEW h \in 1..Len(file), o[g] = o[h],
              file[g].time = file[h].time
       PROVE  g = h
  <2>1. g \in 1..m <=> h \in 1..m
    BY <1>6, <1>12
  <2>2. Origin(g, o[g]) /\ Origin(h, o[g])
    BY <1>9, <1>12
  <2> QED  BY <1>4, <1>5, <2>1, <2>2
<1>13. OriginsOK(o, tree, file)
  BY <1>10, <1>11, <1>12 DEF OriginsOK
<1>14. /\ call.step \in {"list", "lstatRoot"} /\ DOMAIN call.inventory = {}
       /\ call.bytes = Empty /\ DOMAIN call.bytes = {}
  BY DEF Init, Idle, Empty
<1>15. FoundOnly(o, call, file, budget) /\ MomentOK(call, file, moment)
  BY <1>14 DEF FoundOnly, MomentOK, AtPath, Reading
<1> QED  BY <1>13, <1>15 DEF CoexistInv

\* Whatever another process does meanwhile, the contents VerifyFS verified were all there
\* at the moment its first walk ended.
THEOREM FilesCoexistedAlways == Spec => []FilesCoexisted
<1>1. Init => TypeInv /\ FenceInv /\ CoexistInv
  BY TypeInvInit, InitStep, CoexistInit
<1>2. TypeInv /\ FenceInv /\ CoexistInv /\ [Next]_vars => TypeInv' /\ FenceInv' /\ CoexistInv'
  BY TypeInvStep, FenceStep, CoexistStep
<1>3. CoexistInv => FilesCoexisted
  BY DEF CoexistInv, MomentOK, FilesCoexisted
<1> QED  BY <1>1, <1>2, <1>3, PTL DEF Spec

-----------------------------------------------------------------------------
(* Sums over finite sets: the size of what an index lists, summed over its   *)
(* places, is the size of the files listed, summed over the files.           *)

\* The induction of what follows is by the least counterexample.
LEMMA LeastNatural ==
  ASSUME NEW S, S \subseteq Nat, S # {}
  PROVE  \E m \in S : \A k \in S : m <= k
<1>1. IsWellFoundedOn(OpToRel(<, Nat), Nat)
  BY NatLessThanWellFounded
<1>2. PICK m \in S : \A k \in S : <<k, m>> \notin OpToRel(<, Nat)
  BY <1>1, WFMin
<1>3. ASSUME NEW k \in S
      PROVE  m <= k
  <2>1. m \in Nat /\ k \in Nat /\ <<k, m>> \in Nat \X Nat
    OBVIOUS
  <2>2. ~(k < m)
    BY <1>2, <2>1 DEF OpToRel
  <2> QED  BY <2>1, <2>2
<1> QED  BY <1>3

\* A set without one of its elements.
LEMMA OneLess ==
  ASSUME NEW S, IsFiniteSet(S), NEW s \in SUBSET S, NEW x \in s
  PROVE  /\ s \ {x} \in SUBSET S
         /\ Cardinality(s) \in Nat /\ Cardinality(s) # 0
         /\ Cardinality(s \ {x}) \in Nat /\ Cardinality(s \ {x}) = Cardinality(s) - 1
<1>1. IsFiniteSet(s)
  BY FS_Subset
<1> QED  BY <1>1, FS_CardinalityType, FS_RemoveElement, FS_EmptySet

Pick(s) == CHOOSE x \in s : TRUE

\* g sums the weights w over the subsets of S, taking the elements in the order of CHOOSE.
SumStep(g, w, s) == IF s = {} THEN 0 ELSE w[Pick(s)] + g[s \ {Pick(s)}]
Sums(g, w, S) == g = [s \in SUBSET S |-> SumStep(g, w, s)]

\* The recursion has a solution: one for the sets of a size is continued to the next.
LEMMA SumsExist ==
  ASSUME NEW S, IsFiniteSet(S), NEW w
  PROVE  \E g : Sums(g, w, S)
<1> DEFINE Upto(n) == {s \in SUBSET S : Cardinality(s) <= n}
           Solves(h, n) == h = [s \in Upto(n) |-> SumStep(h, w, s)]
           Unsolved == {n \in Nat : ~ \E h : Solves(h, n)}
<1>1. ASSUME Unsolved # {}
      PROVE  FALSE
  <2>1. Unsolved \subseteq Nat
    OBVIOUS
  <2>2. PICK m \in Unsolved : \A k \in Unsolved : m <= k
    <3> HIDE DEF Unsolved
    <3> QED  BY <1>1, <2>1, LeastNatural
  <2>3. m # 0
    <3>1. SUFFICES ASSUME m = 0 PROVE FALSE
      OBVIOUS
    <3>2. ASSUME NEW s \in Upto(0)
          PROVE  s = {}
      <4>1. s \in SUBSET S /\ Cardinality(s) <= 0
        OBVIOUS
      <4>2. IsFiniteSet(s)
        BY <4>1, FS_Subset
      <4>3. Cardinality(s) \in Nat
        BY <4>2, FS_CardinalityType
      <4>4. Cardinality(s) = 0
        BY <4>1, <4>3
      <4> QED  BY <4>2, <4>4, FS_EmptySet
    <3>3. PICK h : h = [s \in Upto(0) |-> 0]
      OBVIOUS
    <3>4. \A s \in Upto(0) : SumStep(h, w, s) = 0
      BY <3>2 DEF SumStep
    <3>5. Solves(h, 0)
      BY <3>3, <3>4
    <3> QED  BY <2>2, <3>1, <3>5
  <2>4. m - 1 \in Nat /\ m - 1 \notin Unsolved
    <3>1. m \in Nat /\ m - 1 \in Nat /\ ~(m <= m - 1)
      BY <2>2, <2>3
    <3> HIDE DEF Unsolved
    <3> QED  BY <2>2, <3>1
  <2>5. PICK f : Solves(f, m - 1)
    BY <2>4
  <2>6. PICK g : g = [s \in Upto(m) |-> SumStep(f, w, s)]
    OBVIOUS
  <2>7. ASSUME NEW s \in Upto(m)
        PROVE  SumStep(g, w, s) = SumStep(f, w, s)
    <3>1. CASE s = {}
      BY <3>1 DEF SumStep
    <3>2. CASE s # {}
      <4>1. PICK x : x = Pick(s)
        OBVIOUS
      <4>2. x \in s
        BY <3>2, <4>1 DEF Pick
      <4>3. PICK t : t = s \ {x}
        OBVIOUS
      <4>4. s \in SUBSET S /\ Cardinality(s) <= m /\ m \in Nat
        BY <2>2
      <4>5. t \in Upto(m) /\ t \in Upto(m - 1)
        BY <4>2, <4>3, <4>4, OneLess
      <4>6. g[t] = SumStep(f, w, t) /\ f[t] = SumStep(f, w, t)
        BY <2>5, <2>6, <4>5
      <4> QED  BY <3>2, <4>1, <4>3, <4>6 DEF SumStep
    <3> QED  BY <3>1, <3>2
  <2>8. Solves(g, m)
    BY <2>6, <2>7
  <2> QED  BY <2>2, <2>8
<1>2. Cardinality(S) \in Nat
  BY FS_CardinalityType
<1>3. PICK g : Solves(g, Cardinality(S))
  BY <1>1, <1>2
<1>4. Upto(Cardinality(S)) = SUBSET S
  BY FS_Subset
<1> QED  BY <1>3, <1>4 DEF Sums

\* Whichever element is taken first.
LEMMA SumsAdd ==
  ASSUME NEW S, IsFiniteSet(S), NEW w \in [S -> Nat], NEW g, Sums(g, w, S)
  PROVE  /\ g[{}] = 0
         /\ \A s \in SUBSET S : g[s] \in Nat /\ \A y \in s : g[s] = w[y] + g[s \ {y}]
<1> DEFINE Adds(s) == g[s] \in Nat /\ \A y \in s : g[s] = w[y] + g[s \ {y}]
           Wrong == {n \in Nat : \E s \in SUBSET S : Cardinality(s) = n /\ ~Adds(s)}
<1>1. \A s \in SUBSET S : g[s] = SumStep(g, w, s)
  BY DEF Sums
<1>2. g[{}] = 0
  BY <1>1 DEF SumStep
<1>3. ASSUME Wrong # {}
      PROVE  FALSE
  <2>1. Wrong \subseteq Nat
    OBVIOUS
  <2>2. PICK m \in Wrong : \A k \in Wrong : m <= k
    <3> HIDE DEF Wrong
    <3> QED  BY <1>3, <2>1, LeastNatural
  <2>3. PICK s \in SUBSET S : Cardinality(s) = m /\ ~Adds(s)
    BY <2>2
  <2>10. ASSUME NEW t \in SUBSET S, NEW k \in Nat, k = Cardinality(t), ~(m <= k)
         PROVE  Adds(t)
    <3>1. k \notin Wrong
      <4> HIDE DEF Wrong
      <4> QED  BY <2>2, <2>10
    <3> QED  BY <2>10, <3>1
  <2>4. ASSUME NEW x \in s
        PROVE  s \ {x} \in SUBSET S /\ Adds(s \ {x}) /\ Cardinality(s \ {x}) = m - 1
    <3>1. PICK t, k : t = s \ {x} /\ k = Cardinality(t)
      OBVIOUS
    <3>2. t \in SUBSET S /\ k \in Nat /\ ~(m <= k) /\ k = m - 1
      BY <2>3, <3>1, OneLess
    <3>3. Adds(t)
      BY <2>10, <3>1, <3>2
    <3> QED  BY <3>1, <3>2, <3>3
  <2>5. CASE s = {}
    BY <1>2, <2>3, <2>5
  <2>6. CASE s # {}
    <3>1. PICK x : x = Pick(s)
      OBVIOUS
    <3>2. x \in s /\ g[s] = w[x] + g[s \ {x}]
      BY <1>1, <2>6, <3>1 DEF Pick, SumStep
    <3>3. g[s \ {x}] \in Nat /\ w[x] \in Nat
      BY <2>4, <3>2
    <3>4. ASSUME NEW y \in s
          PROVE  g[s] = w[y] + g[s \ {y}]
      <4>1. CASE y = x
        BY <3>2, <4>1
      <4>2. CASE y # x
        <5>1. PICK r : r = (s \ {x}) \ {y}
          OBVIOUS
        <5>2. (s \ {y}) \ {x} = r /\ y \in s \ {x} /\ x \in s \ {y}
          BY <3>2, <4>2, <5>1
        <5>3. r \in SUBSET S /\ Adds(s \ {x}) /\ Adds(s \ {y})
          BY <2>4, <3>2, <5>1
        <5>4. g[s \ {x}] = w[y] + g[r] /\ g[s \ {y}] = w[x] + g[r]
          BY <5>1, <5>2, <5>3
        <5>5. w[y] \in Nat /\ g[s \ {y}] \in Nat
          BY <5>3
        <5>6. PICK a, b, c, d, e, z : /\ a = g[s] /\ b = g[s \ {x}] /\ c = g[s \ {y}]
                                      /\ d = w[x] /\ e = w[y] /\ z = g[r]
          OBVIOUS
        <5>7. z = g[r] /\ c = d + z /\ b = e + z /\ a = d + b
          BY <3>2, <5>4, <5>6
        <5>8. z \in Nat
          <6>1. PICK t, k : t = s \ {x} /\ k = Cardinality(r)
            OBVIOUS
          <6>2. t \in SUBSET S /\ y \in t /\ r = t \ {y} /\ Cardinality(t) = m - 1
            BY <2>4, <3>2, <5>1, <5>2, <6>1
          <6>3. k \in Nat /\ k = (m - 1) - 1 /\ m \in Nat
            BY <2>2, <6>1, <6>2, OneLess
          <6>5. ~(m <= k)
            BY <6>3
          <6>4. Adds(r)
            BY <2>10, <5>3, <6>1, <6>3, <6>5
          <6> QED  BY <5>6, <6>4
        <5> QED  BY <3>3, <5>5, <5>6, <5>7, <5>8
      <4> QED  BY <4>1, <4>2
    <3>5. g[s] \in Nat
      BY <3>2, <3>3
    <3> QED  BY <2>3, <3>4, <3>5
  <2> QED  BY <2>5, <2>6
<1>4. ASSUME NEW s \in SUBSET S
      PROVE  Adds(s)
  <2>1. Cardinality(s) \in Nat
    BY FS_Subset, FS_CardinalityType
  <2> QED  BY <1>3, <2>1
<1> QED  BY <1>2, <1>4

\* Two sums of the same weights.
Summed(g, w, S) == IsFiniteSet(S) /\ w \in [S -> Nat] /\ Sums(g, w, S)
SameWeights(b, w, S, v, T) ==
  /\ b \in [S -> T]
  /\ \A x, y \in S : b[x] = b[y] => x = y
  /\ \A x \in S : w[x] = v[b[x]]

\* By induction on the number of elements: one is taken from both sets.
LEMMA SumsEqual ==
  ASSUME NEW S, NEW w, NEW g, Summed(g, w, S), NEW T, NEW v, NEW h, Summed(h, v, T),
         NEW b, SameWeights(b, w, S, v, T), NEW R, R = {b[x] : x \in S}
  PROVE  g[S] = h[R]
<1> DEFINE Image(s) == {b[x] : x \in s}
           Wrong == {n \in Nat : \E s \in SUBSET S : Cardinality(s) = n /\ g[s] # h[Image(s)]}
<1>1. /\ g[{}] = 0
      /\ \A s \in SUBSET S : \A y \in s : g[s] = w[y] + g[s \ {y}]
  BY SumsAdd DEF Summed
<1>2. /\ h[{}] = 0
      /\ \A s \in SUBSET T : \A y \in s : h[s] = v[y] + h[s \ {y}]
  BY SumsAdd DEF Summed
<1>3. ASSUME Wrong # {}
      PROVE  FALSE
  <2>1. Wrong \subseteq Nat
    OBVIOUS
  <2>2. PICK m \in Wrong : \A k \in Wrong : m <= k
    <3> HIDE DEF Wrong
    <3> QED  BY <1>3, <2>1, LeastNatural
  <2>3. PICK s \in SUBSET S : Cardinality(s) = m /\ g[s] # h[Image(s)]
    BY <2>2
  <2>4. s # {}
    BY <1>1, <1>2, <2>3
  <2>5. PICK x : x \in s
    BY <2>4
  <2>6. PICK t, k : t = s \ {x} /\ k = Cardinality(t)
    OBVIOUS
  <2>7. t \in SUBSET S /\ k \in Nat /\ ~(m <= k)
    BY <2>3, <2>5, <2>6, OneLess DEF Summed
  <2>8. k \notin Wrong
    <3> HIDE DEF Wrong
    <3> QED  BY <2>2, <2>7
  <2>9. g[t] = h[Image(t)]
    BY <2>6, <2>7, <2>8
  <2>10. Image(s) \in SUBSET T /\ b[x] \in Image(s) /\ Image(s) \ {b[x]} = Image(t)
    BY <2>5, <2>6 DEF SameWeights
  <2>11. h[Image(s)] = v[b[x]] + h[Image(t)]
    <3>1. PICK r, y : r = Image(s) /\ y = b[x]
      OBVIOUS
    <3>2. r \in SUBSET T /\ y \in r /\ r \ {y} = Image(t)
      BY <2>10, <3>1
    <3>3. h[r] = v[y] + h[r \ {y}]
      BY <1>2, <3>2
    <3> QED  BY <3>1, <3>2, <3>3
  <2>12. g[s] = w[x] + g[t]
    BY <1>1, <2>5, <2>6 DEF SameWeights
  <2> QED  BY <2>3, <2>5, <2>9, <2>11, <2>12 DEF SameWeights
<1>4. Cardinality(S) \in Nat
  BY FS_CardinalityType DEF Summed
<1> QED  BY <1>3, <1>4

\* The size an index lists, as such a sum.
LEMMA TotalSizeSums ==
  ASSUME NEW files, NEW w, w = [i \in DOMAIN files |-> files[i].size],
         IsFiniteSet(DOMAIN files)
  PROVE  \E g : Sums(g, w, DOMAIN files) /\ TotalSize(files) = g[DOMAIN files]
<1>1. PICK g : Sums(g, w, DOMAIN files)
  BY SumsExist
<1> DEFINE Step(h) == [s \in SUBSET DOMAIN files |->
                         IF s = {} THEN 0
                         ELSE files[CHOOSE x \in s : TRUE].size + h[s \ {CHOOSE x \in s : TRUE}]]
<1>2. \A h : h = Step(h) <=> Sums(h, w, DOMAIN files)
  BY DEF Sums, SumStep, Pick
<1>3. TotalSize(files) = (CHOOSE h : h = Step(h))[DOMAIN files]
  BY DEF TotalSize, FoldFunction, FoldFunctionOnSet, MapThenFoldSet
<1> HIDE DEF Step
<1>4. \E h : h = Step(h)
  BY <1>1, <1>2
<1>5. PICK c : c = CHOOSE h : h = Step(h)
  OBVIOUS
<1>6. c = Step(c)
  BY <1>4, <1>5
<1> QED  BY <1>2, <1>3, <1>5, <1>6

\* The size of the files a report lists, as such a sum.
LEMMA ReportSizeSums ==
  ASSUME NEW files, NEW w, w = [f \in files |-> Doc[f.digest].size], IsFiniteSet(files)
  PROVE  \E g : /\ Sums(g, w, files)
                /\ MapThenSumSet(LAMBDA f : Doc[f.digest].size, files) = g[files]
<1>1. PICK g : Sums(g, w, files)
  BY SumsExist
<1> DEFINE Step(h) == [s \in SUBSET files |->
                         IF s = {} THEN 0
                         ELSE Doc[(CHOOSE x \in s : TRUE).digest].size
                                + h[s \ {CHOOSE x \in s : TRUE}]]
<1>2. \A h : h = Step(h) <=> Sums(h, w, files)
  BY DEF Sums, SumStep, Pick
<1>3. MapThenSumSet(LAMBDA f : Doc[f.digest].size, files) = (CHOOSE h : h = Step(h))[files]
  BY DEF MapThenSumSet, MapThenFoldSet
<1> HIDE DEF Step
<1>4. \E h : h = Step(h)
  BY <1>1, <1>2
<1>5. PICK c : c = CHOOSE h : h = Step(h)
  OBVIOUS
<1>6. c = Step(c)
  BY <1>4, <1>5
<1> QED  BY <1>2, <1>3, <1>5, <1>6

\* The files of a sequence that lists each once, whose sizes are those of their contents.
LEMMA SizesAgree ==
  ASSUME NEW files, files \in Seq(Range(files)),
         \A i, j \in DOMAIN files : files[i] = files[j] => i = j,
         \A f \in Range(files) : Doc[f.digest].size \in Nat /\ f.size = Doc[f.digest].size
  PROVE  /\ Cardinality(Range(files)) = Len(files)
         /\ TotalSize(files) = MapThenSumSet(LAMBDA f : Doc[f.digest].size, Range(files))
<1>1. DOMAIN files = 1..Len(files) /\ Len(files) \in Nat
  OBVIOUS
<1>2. PICK R, D, n : R = Range(files) /\ D = DOMAIN files /\ n = Len(files)
  OBVIOUS
<1>3. /\ files \in [D -> R]
      /\ \A f \in R : \E i \in D : files[i] = f
      /\ R = {files[i] : i \in D}
  BY <1>2 DEF Range
<1>4. IsFiniteSet(D) /\ Cardinality(D) = n
  <2>1. n \in Nat /\ D = 1..n
    BY <1>1, <1>2
  <2>2. IsFiniteSet(1..n) /\ Cardinality(1..n) = n
    BY <2>1, FS_Interval
  <2> QED  BY <2>1, <2>2
<1>5. files \in Bijection(D, R)
  BY <1>3 DEF Bijection, Injection, Surjection, IsInjective
<1>6. IsFiniteSet(R) /\ Cardinality(R) = n
  <2>1. \E b : b \in Bijection(D, R)
    BY <1>5
  <2> QED  BY <1>4, <2>1, FS_Bijection DEF ExistsBijection
<1>7. PICK w, v : /\ w = [i \in D |-> files[i].size]
                  /\ v = [f \in R |-> Doc[f.digest].size]
  OBVIOUS
<1>8. PICK g : Sums(g, w, D) /\ TotalSize(files) = g[D]
  BY <1>2, <1>4, <1>7, TotalSizeSums
<1>9. PICK h : Sums(h, v, R) /\ MapThenSumSet(LAMBDA f : Doc[f.digest].size, R) = h[R]
  BY <1>6, <1>7, ReportSizeSums
<1>12. \A x, y \in D : files[x] = files[y] => x = y
  BY <1>2
<1>10. w \in [D -> Nat] /\ v \in [R -> Nat] /\ \A i \in D : w[i] = v[files[i]]
  BY <1>2, <1>3, <1>7
<1>11. Summed(g, w, D) /\ Summed(h, v, R) /\ SameWeights(files, w, D, v, R)
  BY <1>3, <1>4, <1>6, <1>8, <1>9, <1>10, <1>12 DEF Summed, SameWeights
<1>13. g[D] = h[R]
  BY <1>3, <1>11, SumsEqual
<1> QED  BY <1>2, <1>3, <1>6, <1>8, <1>9, <1>13

-----------------------------------------------------------------------------
(* What a report rests on.                                                   *)

\* The documents read, and the payloads accepted against the index.
ClosureOK(c) ==
  /\ c.bytes # Empty => /\ IndexAccepted(c.index)
                        /\ \E raw \in Contents \X Contents : c.index = Decoded(raw)
  /\ DOMAIN c.bytes \subseteq DOMAIN c.inventory
  /\ \A p \in DOMAIN c.bytes \ {Index} : PayloadAccepted(Listed(c.index, p), c.bytes[p])
  /\ c.step \in AtPath /\ c.path = Index => c.bytes = Empty

\* What VerifyFS has staged.
StagedOK(c) ==
  /\ DOMAIN c.bytes \subseteq Paths
  /\ c.step \in {"verifyStaged", "checkStaged"} => c.first # Empty
  /\ c.first # Empty /\ c.step \notin {"next"} \cup AtPath => Index \in DOMAIN c.bytes
  /\ c.step = "checkStaged" => \E raw \in Contents \X Contents : c.index = Decoded(raw)

ClosedInv ==
  /\ ~VerifiesFS =>
       /\ ClosureOK(call)
       /\ call.bytes # Empty /\ call.step \in {"statHandle", "lstatAgain", "returned"}
            => PackageAccepted
  /\ VerifiesFS => StagedOK(call)
  /\ VerifiesFS /\ verdict = "verified" =>
       StagedAccepted /\ \E raw \in Contents \X Contents : call.index = Decoded(raw)

\* The checks read the index and the bytes alone.
LEMMA PackageKept ==
  ASSUME call'.index = call.index, call'.bytes = call.bytes
  PROVE  PackageAccepted => PackageAccepted'
<1>1. /\ Definition' = Definition
      /\ \A p : Payload(p)' = Payload(p) /\ Media(p)' = Media(p)
  BY DEF Definition, Payload, Media
<1>2. DefinitionAccepted => DefinitionAccepted'
  BY <1>1 DEF DefinitionAccepted
<1>3. StageUses' = StageUses
  BY <1>1 DEF StageUses
<1>4. \A p : DesiredFixturePath(p)' <=> DesiredFixturePath(p)
  BY <1>3 DEF DesiredFixturePath
<1>5. ContentAllowed => ContentAllowed'
  BY <1>1, <1>4 DEF ContentAllowed
<1>6. /\ \A p : FixtureFile(p)' <=> FixtureFile(p)
      /\ \A p, stage : Fits(p, stage)' <=> Fits(p, stage)
  BY <1>1 DEF FixtureFile, Fits
<1>7. ConformanceAccepted => ConformanceAccepted'
  BY <1>1, <1>6 DEF ConformanceAccepted
<1>8. NegativesAccepted => NegativesAccepted'
  BY <1>1, <1>6 DEF NegativesAccepted
<1> QED  BY <1>2, <1>5, <1>7, <1>8 DEF PackageAccepted

\* The checks of what is staged read no more than that.
LEMMA StagedKept ==
  ASSUME call'.index = call.index, call'.bytes = call.bytes
  PROVE  StagedAccepted => StagedAccepted'
<1>1. \A p : MaximumOf(p)' = MaximumOf(p)
  BY DEF MaximumOf
<1> QED  BY <1>1, PackageKept DEF StagedAccepted

\* A call of VerifyDirectory goes on.
LEMMA ClosedStep ==
  ASSUME ~VerifiesFS, NEW c, call' = c, entry' = entry, ClosureOK(c),
         c.bytes # Empty /\ c.step \in {"statHandle", "lstatAgain", "returned"} =>
           PackageAccepted /\ c.bytes = call.bytes /\ c.index = call.index
  PROVE  ClosedInv'
<1>1. ~VerifiesFS' /\ ClosureOK(call)'
  BY DEF VerifiesFS, ClosureOK
<1>2. call'.bytes # Empty /\ call'.step \in {"statHandle", "lstatAgain", "returned"}
        => PackageAccepted'
  BY PackageKept
<1> QED  BY <1>1, <1>2 DEF ClosedInv, Empty

\* It has read nothing.
LEMMA ClosedEmpty ==
  ASSUME ~VerifiesFS, entry' = entry, NEW c, call' = c, c.bytes = Empty
  PROVE  ClosedInv'
<1>1. DOMAIN c.bytes = {}
  BY DEF Empty
<1>2. ClosureOK(c)
  BY <1>1 DEF ClosureOK
<1> QED  BY <1>2, ClosedStep

\* It goes on with what it has read.
LEMMA ClosedGoto ==
  ASSUME ClosedInv, ~VerifiesFS, NEW c, call' = c, entry' = entry,
         c.bytes = call.bytes, c.index = call.index, c.inventory = call.inventory,
         c.step \in AtPath /\ c.path = Index /\ call.bytes # Empty =>
           call.step \in AtPath /\ call.path = Index,
         c.bytes # Empty /\ c.step \in {"statHandle", "lstatAgain", "returned"} => PackageAccepted
  PROVE  ClosedInv'
<1>1. ClosureOK(c)
  BY DEF ClosedInv, ClosureOK
<1> QED  BY <1>1, ClosedStep

\* A call of VerifyFS goes on, and returns no report.
LEMMA StagedGoto ==
  ASSUME VerifiesFS, entry' = entry, verdict' # "verified", NEW c, call' = c, StagedOK(c)
  PROVE  ClosedInv'
BY DEF ClosedInv, VerifiesFS, StagedOK

\* A refusal returns no bytes.
LEMMA ClosedRefuse ==
  ASSUME Refuse
  PROVE  ClosedInv'
<1>1. PICK c : c = [Idle EXCEPT !.step = "returned"]
  OBVIOUS
<1>2. c.step = "returned" /\ c.bytes = Empty /\ c.first = Empty
  BY <1>1 DEF Idle
<1>3. call' = c /\ entry' = entry /\ verdict' = "refused"
  BY <1>1 DEF Refuse
<1>4. StagedOK(c)
  BY <1>2 DEF StagedOK, Empty
<1> QED  BY <1>2, <1>3, <1>4, ClosedEmpty, StagedGoto

\* VerifyDirectory before it reads, and after.
LEMMA ClosedInventory ==
  ASSUME FenceInv, ClosedInv, ~VerifiesFS, OpenRootStable \/ Inventory \/ AssertRootStable
  PROVE  ClosedInv'
<1>1. /\ verdict = "none" /\ entry' = entry
      /\ call.step \in Opening \cup {"list", "walk", "statHandle", "lstatAgain"}
  BY DEF OpenRootStable, LstatRoot, OpenRoot, StatRoot, Inventory, ListRoot, ListSubdirectory,
         Inspect, InventoryTaken, AssertRootStable, StatHandle, LstatAgain, At, Check, Goto, Refuse,
         Opening
<1>2. DOMAIN call = CallFields /\ PathsOK(call)
  BY <1>1, CallFacts
<1>3. CASE StatHandle
  <2>1. PICK c : c = [call EXCEPT !.step = "lstatAgain"]
    OBVIOUS
  <2>2. Refuse \/ (call' = c /\ call.step = "statHandle")
    BY <1>3, <2>1 DEF StatHandle, Check, Goto, At
  <2>3. /\ c.step = "lstatAgain" /\ c.bytes = call.bytes /\ c.index = call.index
        /\ c.inventory = call.inventory
    BY <1>2, <2>1 DEF CallFields
  <2>4. call' = c => (c.bytes # Empty => PackageAccepted) \/ Refuse
    BY <2>2, <2>3 DEF ClosedInv
  <2> QED  BY <1>1, <2>2, <2>3, <2>4, ClosedGoto, ClosedRefuse DEF AtPath, Reading
<1>4. CASE LstatAgain
  <2>1. call.step = "lstatAgain"
    BY <1>4 DEF LstatAgain, At
  <2>2. CASE Refuse
    BY <2>2, ClosedRefuse
  <2>3. CASE ~Refuse /\ call.bytes = Empty
    <3>1. PICK c : c = [call EXCEPT !.path = Index, !.step = "lstat"]
      OBVIOUS
    <3>2. call' = c
      BY <1>4, <2>3, <3>1 DEF LstatAgain, Goto
    <3>3. c.bytes = Empty
      BY <1>2, <2>3, <3>1 DEF CallFields
    <3> QED  BY <1>1, <3>2, <3>3, ClosedEmpty
  <2>4. CASE ~Refuse /\ call.bytes # Empty
    <3>1. PICK c : c = [call EXCEPT !.step = "returned"]
      OBVIOUS
    <3>2. call' = c
      BY <1>4, <2>4, <3>1 DEF LstatAgain
    <3>3. /\ c.step = "returned" /\ c.bytes = call.bytes /\ c.index = call.index
          /\ c.inventory = call.inventory
      BY <1>2, <3>1 DEF CallFields
    <3>4. PackageAccepted
      BY <2>1, <2>4 DEF ClosedInv
    <3> QED  BY <1>1, <3>2, <3>3, <3>4, ClosedGoto DEF AtPath, Reading
  <2> QED  BY <2>2, <2>3, <2>4
<1>5. CASE OpenRootStable \/ Inventory
  <2>1. call.bytes = Empty
    <3>1. call.step \in Opening \cup {"list", "walk"}
      BY <1>5 DEF OpenRootStable, LstatRoot, OpenRoot, StatRoot, Inventory, ListRoot,
                  ListSubdirectory, Inspect, InventoryTaken, At, Opening
    <3> QED  BY <1>2, <3>1 DEF PathsOK
  <2>2. ASSUME NEW c, call' = c, DOMAIN c = CallFields, c.bytes = call.bytes
        PROVE  ClosedInv'
    BY <1>1, <2>1, <2>2, ClosedEmpty
  <2>3. CASE OpenRootStable
    <3>1. PICK c \in {[call EXCEPT !.root = RootInfo(at), !.step = "openRoot"],
                      [call EXCEPT !.held = at, !.step = "statRoot"],
                      [call EXCEPT !.step = "list"]} : call' = c \/ Refuse
      BY <2>3 DEF OpenRootStable, LstatRoot, OpenRoot, StatRoot, Check, Goto
    <3>2. DOMAIN c = CallFields /\ c.bytes = call.bytes
      BY <1>2, <3>1 DEF CallFields
    <3> QED  BY <2>2, <3>1, <3>2, ClosedRefuse
  <2>4. CASE ListRoot \/ ListSubdirectory
    <3>1. PICK w : w = call.walk \cup Present(TRUE)
      OBVIOUS
    <3>2. PICK c \in {[call EXCEPT !.walk = Present(FALSE), !.nested = TRUE, !.inventory = Empty,
                                   !.listed = at, !.step = "walk"],
                      [call EXCEPT !.walk = w, !.nested = FALSE]} : call' = c
      BY <2>4, <3>1 DEF ListRoot, ListSubdirectory, Goto
    <3>3. DOMAIN c = CallFields /\ c.bytes = call.bytes
      BY <1>2, <3>2 DEF CallFields
    <3> QED  BY <2>2, <3>2, <3>3
  <2>5. ASSUME NEW p \in call.walk, Inspect(p)
        PROVE  ClosedInv'
    <3>1. PICK found, c : /\ c = [call EXCEPT !.walk = call.walk \ {p}, !.inventory = found]
                          /\ call' = c \/ Refuse
      BY <2>5 DEF Inspect, Goto
    <3>2. DOMAIN c = CallFields /\ c.bytes = call.bytes
      BY <1>2, <3>1 DEF CallFields
    <3> QED  BY <2>2, <3>1, <3>2, ClosedRefuse
  <2>6. CASE InventoryTaken
    <3>1. PICK c : c = [call EXCEPT !.step = "statHandle"]
      OBVIOUS
    <3>2. call' = c \/ Refuse
      BY <2>6, <3>1 DEF InventoryTaken, Goto
    <3>3. DOMAIN c = CallFields /\ c.bytes = call.bytes
      BY <1>2, <3>1 DEF CallFields
    <3> QED  BY <2>2, <3>2, <3>3, ClosedRefuse
  <2> QED  BY <1>5, <2>3, <2>4, <2>5, <2>6 DEF Inventory
<1> QED  BY <1>3, <1>4, <1>5 DEF AssertRootStable

\* VerifyDirectory accepts what it has read before it goes on.
LEMMA ClosedRead ==
  ASSUME FenceInv, TypeInv, ClosedInv, ~VerifiesFS, NextFile \/ ReadFile
  PROVE  ClosedInv'
<1>1. /\ verdict = "none" /\ entry' = entry
      /\ call.step \in {"next"} \cup AtPath
  BY DEF NextFile, ReadFile, Lstat, OpenFile, StatFile, ReadHead, ReadTail, StatAfter, LstatAfter,
         At, Check, Goto, Refuse, AtPath, Reading
<1>2. DOMAIN call = CallFields /\ PathsOK(call) /\ IndexOK(call) /\ ClosureOK(call)
  BY <1>1, CallFacts DEF ClosedInv
<1>3. CASE NextFile
  <2>1. call.step = "next" /\ call.bytes # Empty
    BY <1>2, <1>3 DEF NextFile, At, PathsOK
  <2>2. CASE Refuse
    BY <2>2, ClosedRefuse
  <2>3. ASSUME NEW p \in ListedPaths(call.index),
               call' = [call EXCEPT !.path = p, !.step = "lstat"]
        PROVE  ClosedInv'
    <3>1. PICK c : c = [call EXCEPT !.path = p, !.step = "lstat"]
      OBVIOUS
    <3>2. p # Index
      BY <1>2, <2>1 DEF IndexOK
    <3>3. /\ c.step = "lstat" /\ c.path = p /\ c.bytes = call.bytes /\ c.index = call.index
          /\ c.inventory = call.inventory
      BY <1>2, <3>1 DEF CallFields
    <3> QED  BY <1>1, <2>3, <3>1, <3>2, <3>3, ClosedGoto
  <2>4. ASSUME PackageAccepted, call' = [call EXCEPT !.step = "statHandle"]
        PROVE  ClosedInv'
    <3>1. PICK c : c = [call EXCEPT !.step = "statHandle"]
      OBVIOUS
    <3>2. /\ c.step = "statHandle" /\ c.bytes = call.bytes /\ c.index = call.index
          /\ c.inventory = call.inventory
      BY <1>2, <3>1 DEF CallFields
    <3> QED  BY <1>1, <2>4, <3>1, <3>2, ClosedGoto DEF AtPath, Reading
  <2> QED  BY <1>3, <2>2, <2>3, <2>4 DEF NextFile, Check, Goto, Unread
<1>4. CASE Lstat \/ OpenFile \/ StatFile \/ ReadHead \/ ReadTail \/ StatAfter
  <2>1. PICK info, f, before, head, raw :
          /\ info = Info(tree[at][call.path]) /\ f = tree[call.held][call.path] /\ before = Handle
          /\ head = file[call.handle].content /\ raw = <<call.head, file[call.handle].content>>
    OBVIOUS
  <2>2. PICK c : /\ \/ c = [call EXCEPT !.before = info, !.step = "open"]
                    \/ c = [call EXCEPT !.handle = f, !.step = "stat"]
                    \/ c = [call EXCEPT !.before = before, !.step = "head"]
                    \/ c = [call EXCEPT !.head = head, !.step = "tail"]
                    \/ c = [call EXCEPT !.raw = raw, !.step = "statAfter"]
                    \/ c = [call EXCEPT !.step = "lstatAfter"]
                 /\ call' = c \/ Refuse
    BY <1>4, <2>1 DEF Lstat, OpenFile, StatFile, ReadHead, ReadTail, StatAfter, Check, Goto
  <2>3. /\ call.step \in AtPath
        /\ c.step \notin {"statHandle", "lstatAgain", "returned"} /\ c.path = call.path
        /\ c.bytes = call.bytes /\ c.index = call.index /\ c.inventory = call.inventory
    BY <1>2, <1>4, <2>2 DEF Lstat, OpenFile, StatFile, ReadHead, ReadTail, StatAfter, At, AtPath,
                            Reading, CallFields
  <2> QED  BY <1>1, <2>2, <2>3, ClosedGoto, ClosedRefuse
<1>5. CASE LstatAfter /\ ~Refuse
  <2>1. PICK index : index = (IF call.path = Index THEN Decoded(call.raw) ELSE call.index)
    OBVIOUS
  <2>2. PICK c, bytes : /\ c = [Read(call.raw) EXCEPT !.step = "next", !.index = index]
                        /\ bytes = Bytes(call.raw)
    OBVIOUS
  <2>3. [Read(call.raw) EXCEPT !.step = "next",
                               !.index = IF call.path = Index THEN Decoded(call.raw) ELSE @] = c
    BY <1>2, <2>1, <2>2 DEF Read, CallFields
  <2>4. call' = c /\ Accepted /\ call.step = "lstatAfter"
    BY <1>5, <2>3 DEF LstatAfter, Check, Goto, At
  <2>5. /\ c.step = "next" /\ c.bytes = bytes /\ c.index = index /\ c.inventory = call.inventory
        /\ DOMAIN bytes = DOMAIN call.bytes \cup {call.path} /\ bytes[call.path] = call.raw
        /\ \A p \in DOMAIN call.bytes : p # call.path => bytes[p] = call.bytes[p]
    BY <1>2, <2>2 DEF CallFields, Read, Bytes
  <2>6. call.raw \in Contents \X Contents /\ call.path \in DOMAIN call.inventory
    BY <1>2, <2>4 DEF TypeInv, CallTyped, PathsOK, Reading
  <2>7. CASE call.path = Index
    <3>1. IndexAccepted(index) /\ index = Decoded(call.raw)
      BY <2>1, <2>4, <2>7 DEF Accepted
    <3>2. call.bytes = Empty
      BY <1>2, <2>4, <2>7 DEF ClosureOK, AtPath, Reading
    <3>3. DOMAIN bytes = {Index}
      BY <2>5, <2>7, <3>2 DEF Empty
    <3>4. ClosureOK(c)
      BY <2>5, <2>6, <2>7, <3>1, <3>3 DEF ClosureOK, AtPath, Reading
    <3> QED  BY <1>1, <2>4, <2>5, <3>4, ClosedStep
  <2>8. CASE call.path # Index
    <3>1. PayloadAccepted(Listed(index, call.path), call.raw) /\ index = call.index
      BY <2>1, <2>4, <2>8 DEF Accepted
    <3>2. call.bytes # Empty
      BY <1>2, <2>4, <2>8 DEF PathsOK, Reading
    <3>3. \A p \in DOMAIN bytes \ {Index} : PayloadAccepted(Listed(index, p), bytes[p])
      <4> SUFFICES ASSUME NEW p \in DOMAIN bytes \ {Index}
                   PROVE  PayloadAccepted(Listed(index, p), bytes[p])
        OBVIOUS
      <4>1. CASE p = call.path
        BY <2>5, <3>1, <4>1
      <4>2. CASE p # call.path
        BY <1>2, <2>5, <3>1, <4>2 DEF ClosureOK
      <4> QED  BY <4>1, <4>2
    <3>4. ClosureOK(c)
      BY <1>2, <2>5, <2>6, <3>1, <3>2, <3>3 DEF ClosureOK, AtPath, Reading
    <3> QED  BY <1>1, <2>4, <2>5, <3>4, ClosedStep
  <2> QED  BY <2>7, <2>8
<1> QED  BY <1>3, <1>4, <1>5, ClosedRefuse DEF ReadFile

\* VerifyFS returns what it staged and verified.
LEMMA ClosedStaged ==
  ASSUME FenceInv, TypeInv, ClosedInv, VerifiesFS, Next, ~Edit
  PROVE  ClosedInv'
<1>1. DOMAIN call = CallFields /\ StepOK(call) /\ StagedOK(call) /\ CallTyped(call)
  BY DEF FenceInv, StepOK, ClosedInv, TypeInv
<1>2. verdict = "none"
  BY DEF Next, OpenRootStable, LstatRoot, OpenRoot, StatRoot, Inventory, ListRoot,
         ListSubdirectory, Inspect, InventoryTaken, AssertRootStable, StatHandle, LstatAgain,
         NextFile, ReadFile, Lstat, OpenFile, StatFile, ReadHead, ReadTail, StatAfter, LstatAfter,
         StageFails, ReadStaged, ReturnStaged, RefuseStaged, At
<1>3. ~OpenRootStable /\ ~AssertRootStable /\ ~Lstat /\ ~LstatAfter
  BY <1>1 DEF OpenRootStable, LstatRoot, OpenRoot, StatRoot, AssertRootStable, StatHandle,
              LstatAgain, Lstat, LstatAfter, At, StepOK, Opening
<1>4. CASE Refuse
  BY <1>4, ClosedRefuse
<1>5. ASSUME NEW c, call' = c, UNCHANGED <<entry, verdict>>, StagedOK(c)
      PROVE  ClosedInv'
  BY <1>2, <1>5, StagedGoto
<1>6. CASE ListRoot \/ ListSubdirectory
  <2>1. PICK w : w = call.walk \cup Present(TRUE)
    OBVIOUS
  <2>2. PICK c \in {[call EXCEPT !.walk = Present(FALSE), !.nested = TRUE, !.inventory = Empty,
                                 !.listed = at, !.step = "walk"],
                    [call EXCEPT !.walk = w, !.nested = FALSE]} : Goto(c)
    BY <1>6, <2>1 DEF ListRoot, ListSubdirectory
  <2>3. call.step \in {"list", "walk"}
    BY <1>6 DEF ListRoot, ListSubdirectory, At
  <2>5. c.step \in {"walk", call.step} /\ c.first = call.first /\ c.bytes = call.bytes
    BY <1>1, <2>2 DEF CallFields
  <2>4. StagedOK(c)
    BY <1>1, <2>3, <2>5 DEF StagedOK, AtPath, Reading
  <2> QED  BY <1>5, <2>2, <2>4 DEF Goto
<1>7. ASSUME NEW p \in call.walk, Inspect(p), ~Refuse
      PROVE  ClosedInv'
  <2>1. PICK found, c : c = [call EXCEPT !.walk = call.walk \ {p}, !.inventory = found] /\ Goto(c)
    BY <1>7 DEF Inspect
  <2>2. call.step = "walk" /\ c.step = "walk" /\ c.first = call.first /\ c.bytes = call.bytes
    BY <1>1, <1>7, <2>1 DEF Inspect, At, CallFields
  <2>3. StagedOK(c)
    BY <1>1, <2>2 DEF StagedOK, AtPath, Reading
  <2> QED  BY <1>5, <2>1, <2>3 DEF Goto
<1>8. ASSUME InventoryTaken, ~Refuse
      PROVE  ClosedInv'
  <2>1. CASE call.first = Empty
    <3>1. PICK c : c = [call EXCEPT !.first = call.inventory, !.step = "next"]
      OBVIOUS
    <3>2. call' = c /\ UNCHANGED <<entry, verdict>>
      BY <1>8, <2>1, <3>1 DEF InventoryTaken
    <3>3. c.step = "next" /\ c.bytes = call.bytes
      BY <1>1, <3>1 DEF CallFields
    <3> QED  BY <1>1, <1>5, <3>2, <3>3 DEF StagedOK
  <2>2. CASE call.first # Empty
    <3>1. PICK c : c = [call EXCEPT !.step = "verifyStaged"]
      OBVIOUS
    <3>2. Goto(c) /\ call.step = "walk"
      BY <1>8, <2>2, <3>1 DEF InventoryTaken, Check, At
    <3>3. c.step = "verifyStaged" /\ c.first = call.first /\ c.bytes = call.bytes
      BY <1>1, <3>1 DEF CallFields
    <3>4. StagedOK(c)
      BY <1>1, <2>2, <3>2, <3>3 DEF StagedOK, AtPath, Reading
    <3> QED  BY <1>5, <3>2, <3>4 DEF Goto
  <2> QED  BY <2>1, <2>2
<1>9. ASSUME NextFile, ~Refuse
      PROVE  ClosedInv'
  <2>1. call.step = "next" /\ call.first = call.inventory /\ Index \in DOMAIN call.inventory
    BY <1>1, <1>9 DEF NextFile, At, CallTyped
  <2>2. CASE \E p : call' = [call EXCEPT !.path = p, !.step = "open"]
    <3>1. PICK p, c : c = [call EXCEPT !.path = p, !.step = "open"] /\ call' = c
      BY <2>2
    <3>2. c.step = "open" /\ c.bytes = call.bytes
      BY <1>1, <3>1 DEF CallFields
    <3>3. StagedOK(c)
      BY <1>1, <3>2 DEF StagedOK, AtPath
    <3> QED  BY <1>5, <1>9, <3>1, <3>3 DEF NextFile, Goto, Check
  <2>3. CASE Unread(DOMAIN call.first) = {} /\ call' = [call EXCEPT !.step = "list"]
    <3>1. PICK c : c = [call EXCEPT !.step = "list"]
      OBVIOUS
    <3>2. c.step = "list" /\ c.first = call.first /\ c.bytes = call.bytes
      BY <1>1, <3>1 DEF CallFields
    <3>3. Index \in DOMAIN call.bytes
      BY <2>1, <2>3 DEF Unread
    <3>4. StagedOK(c)
      BY <1>1, <3>2, <3>3 DEF StagedOK
    <3> QED  BY <1>5, <1>9, <2>3, <3>1, <3>4 DEF NextFile, Goto, Check
  <2> QED  BY <1>9, <2>2, <2>3 DEF NextFile, Goto, Check
<1>10. ASSUME OpenFile \/ StatFile \/ ReadHead \/ ReadTail \/ StatAfter, ~Refuse
       PROVE  ClosedInv'
  <2>1. PICK f, before, head, raw :
          /\ f = tree[at][call.path] /\ before = Handle
          /\ head = file[call.handle].content /\ raw = <<call.head, file[call.handle].content>>
    OBVIOUS
  <2>2. PICK c : /\ \/ c = [call EXCEPT !.handle = f, !.step = "stat"]
                    \/ c = [call EXCEPT !.before = before, !.step = "head"]
                    \/ c = [call EXCEPT !.head = head, !.step = "tail"]
                    \/ c = [call EXCEPT !.raw = raw, !.step = "statAfter"]
                    \/ c = [Read(call.raw) EXCEPT !.step = "next"]
                 /\ Goto(c)
    BY <1>10, <2>1 DEF OpenFile, StatFile, ReadHead, ReadTail, StatAfter, Check
  <2>3. c.step \in {"next"} \cup AtPath
    BY <1>1, <2>2 DEF AtPath, Reading, CallFields, Read
  <2>5. call.path \in Paths
    BY <1>1, <1>10 DEF StepOK, Reading, OpenFile, StatFile, ReadHead, ReadTail, StatAfter, At
  <2>6. DOMAIN c.bytes \subseteq DOMAIN call.bytes \cup {call.path}
    BY <1>1, <2>2 DEF CallFields, Read, Bytes
  <2>4. StagedOK(c)
    BY <1>1, <2>3, <2>5, <2>6 DEF StagedOK, AtPath, Reading
  <2> QED  BY <1>5, <2>2, <2>4 DEF Goto
<1>11. CASE ReadStaged
  <2>1. PICK index : index = Decoded(call.bytes[Index])
    OBVIOUS
  <2>2. PICK c : c = [call EXCEPT !.index = index, !.step = "checkStaged"]
    OBVIOUS
  <2>3. Goto(c) /\ call.step = "verifyStaged"
    BY <1>11, <2>1, <2>2 DEF ReadStaged, At
  <2>4. /\ c.step = "checkStaged" /\ c.index = index
        /\ c.first = call.first /\ c.bytes = call.bytes
    BY <1>1, <2>2 DEF CallFields
  <2>5. call.first # Empty /\ Index \in DOMAIN call.bytes
    BY <1>1, <2>3 DEF StagedOK, AtPath, Reading
  <2>6. call.bytes[Index] \in Contents \X Contents
    BY <1>1, <2>5 DEF CallTyped
  <2>7. StagedOK(c)
    BY <1>1, <2>1, <2>4, <2>5, <2>6 DEF StagedOK
  <2> QED  BY <1>5, <2>3, <2>7 DEF Goto
<1>12. CASE ReturnStaged
  <2>1. PICK c : c = [call EXCEPT !.step = "returned"]
    OBVIOUS
  <2>2. call' = c /\ entry' = entry /\ StagedAccepted /\ call.step = "checkStaged"
    BY <1>12, <2>1 DEF ReturnStaged, At
  <2>3. /\ c.step = "returned" /\ c.first = call.first /\ c.bytes = call.bytes
        /\ c.index = call.index
    BY <1>1, <2>1 DEF CallFields
  <2>4. StagedOK(c) /\ \E raw \in Contents \X Contents : c.index = Decoded(raw)
    BY <1>1, <2>2, <2>3 DEF StagedOK, AtPath, Reading
  <2>5. StagedAccepted'
    BY <2>2, <2>3, StagedKept
  <2>6. StagedOK(call') /\ VerifiesFS'
    BY <2>2, <2>4 DEF VerifiesFS
  <2> QED  BY <2>2, <2>4, <2>5, <2>6 DEF ClosedInv, StagedOK
<1> QED
  BY <1>3, <1>4, <1>6, <1>7, <1>8, <1>9, <1>10, <1>11, <1>12
  DEF Next, Inventory, ReadFile, StageFails, RefuseStaged

\* Every step keeps the report closed.
LEMMA ClosedInvStep == FenceInv /\ TypeInv /\ ClosedInv /\ [Next]_vars => ClosedInv'
<1> SUFFICES ASSUME FenceInv, TypeInv, ClosedInv, [Next]_vars PROVE ClosedInv'
  OBVIOUS
<1>1. CASE UNCHANGED <<call, entry, verdict>>
  <2>1. (PackageAccepted => PackageAccepted') /\ (StagedAccepted => StagedAccepted')
    BY <1>1, PackageKept, StagedKept
  <2>2. call' = call /\ verdict' = verdict /\ (VerifiesFS' <=> VerifiesFS)
    BY <1>1 DEF VerifiesFS
  <2>3. ClosureOK(call') = ClosureOK(call) /\ StagedOK(call') = StagedOK(call)
    BY <2>2
  <2> QED  BY <2>1, <2>2, <2>3 DEF ClosedInv, ClosureOK, StagedOK, Empty
<1>2. Edit \/ UNCHANGED vars => UNCHANGED <<call, entry, verdict>>
  BY DEF Edit, SwapRoot, Rewrite, ChangeMode, Replace, Unlink, Edited, vars
<1>3. CASE VerifiesFS /\ Next /\ ~Edit
  BY <1>3, ClosedStaged
<1>4. CASE ~VerifiesFS /\ Next /\ ~Edit
  <2>1. ~StageFails /\ ~ReadStaged /\ ~ReturnStaged
    BY <1>4 DEF StageFails, ReadStaged, ReturnStaged, At, FenceInv, StepOK
  <2> QED  BY <1>4, <2>1, ClosedInventory, ClosedRead, ClosedRefuse DEF Next, RefuseStaged
<1> QED  BY <1>1, <1>2, <1>3, <1>4

\* Nothing has been read.
LEMMA ClosedInit == Init => ClosedInv
<1> SUFFICES ASSUME Init PROVE ClosedInv
  OBVIOUS
<1>1. /\ call.step \in {"list", "lstatRoot"} /\ verdict = "none"
      /\ call.bytes = Empty /\ DOMAIN call.bytes = {} /\ call.first = Empty
  BY DEF Init, Idle, Empty
<1> QED  BY <1>1 DEF ClosedInv, ClosureOK, StagedOK, AtPath, Reading

\* The files of an accepted index stand in the order of their paths.
LEMMA ListedOnce ==
  ASSUME NEW index, IndexAccepted(index), ListedPaths(index) \subseteq Paths,
         NEW n \in Nat, DOMAIN index.files = 1..n
  PROVE  \A i, j \in 1..n : index.files[i].path = index.files[j].path => i = j
<1> DEFINE R(i) == Rank(index.files[i].path)
<1>1. \A i \in 1..n : R(i) \in Int
  BY PathsAssumption DEF ListedPaths, Rank
<1>2. \A i \in 1..n : i > 1 => R(i - 1) < R(i)
  BY DEF IndexAccepted
<1>3. ASSUME NEW i \in 1..n, NEW j \in 1..n, i < j
      PROVE  R(i) < R(j)
  <2> DEFINE Wrong == {k \in 1..n : i < k /\ ~(R(i) < R(k))}
  <2>1. ASSUME Wrong # {}
        PROVE  FALSE
    <3>1. Wrong \subseteq Nat
      OBVIOUS
    <3>2. PICK m \in Wrong : \A k \in Wrong : m <= k
      <4> HIDE DEF Wrong
      <4> QED  BY <2>1, <3>1, LeastNatural
    <3>3. m \in 1..n /\ i < m /\ ~(R(i) < R(m)) /\ m - 1 \in 1..n /\ m > 1 /\ ~(m <= m - 1)
      BY <3>2
    <3>4. m - 1 \notin Wrong
      <4> HIDE DEF Wrong
      <4> QED  BY <3>2, <3>3
    <3>5. PICK a, b, c : a = R(i) /\ b = R(m - 1) /\ c = R(m)
      OBVIOUS
    <3>6. a \in Int /\ b \in Int /\ c \in Int /\ b < c /\ ~(a < c)
      BY <1>1, <1>2, <3>3, <3>5
    <3>7. i = m - 1 \/ a < b
      BY <3>3, <3>4, <3>5
    <3>8. a = b \/ a < b
      BY <3>5, <3>7
    <3> QED  BY <3>6, <3>8
  <2> QED  BY <1>3, <2>1
<1>4. ASSUME NEW i \in 1..n, NEW j \in 1..n, index.files[i].path = index.files[j].path
      PROVE  i = j
  <2>1. R(i) = R(j) /\ R(i) \in Int
    BY <1>1, <1>4
  <2>2. ~(i < j) /\ ~(j < i)
    BY <1>3, <2>1
  <2> QED  BY <2>2
<1> QED  BY <1>4

\* A document accepted as an index lists its files in a sequence.
LEMMA DecodedIndex ==
  ASSUME NEW raw \in Contents \X Contents, IndexAccepted(Decoded(raw))
  PROVE  Decoded(raw).files \in Seq(Range(Decoded(raw).files))
<1>1. PICK a, b : a = raw[1] /\ b = raw[2]
  OBVIOUS
<1>2. a \in Contents /\ b \in Contents
  BY <1>1
<1>3. Decoded(raw).kind = "index"
  BY DEF IndexAccepted
<1>4. CASE a = b
  <2>1. Decoded(raw) = Doc[a]
    BY <1>1, <1>4 DEF Decoded
  <2> QED  BY <1>2, <1>3, <2>1, ContentsAssumption
<1>5. CASE a # b /\ Doc[a].kind = "index" /\ Doc[b].kind = "index"
  <2>1. PICK x, y, d : x = Doc[b].definitionPath /\ y = Doc[b].formRef /\ d = Doc[a]
    OBVIOUS
  <2>2. Decoded(raw) = [d EXCEPT !.definitionPath = x, !.formRef = y]
    BY <1>1, <1>5, <2>1 DEF Decoded
  <2>3. "files" \in DOMAIN d /\ d.files \in Seq(Range(d.files))
    BY <1>2, <1>5, <2>1, ContentsAssumption
  <2>4. Decoded(raw).files = d.files
    BY <2>2, <2>3
  <2> QED  BY <2>3, <2>4
<1>6. CASE a # b /\ ~(Doc[a].kind = "index" /\ Doc[b].kind = "index")
  <2>1. Decoded(raw).kind = "junk"
    BY <1>1, <1>6 DEF Decoded
  <2> QED  BY <1>3, <2>1
<1> QED  BY <1>4, <1>5, <1>6

\* What a verified call has found true, by either entry.
Verified ==
  /\ IndexAccepted(call.index)
  /\ \E raw \in Contents \X Contents : call.index = Decoded(raw)
  /\ DOMAIN call.bytes \subseteq Paths
  /\ \A p \in DOMAIN call.bytes : call.bytes[p] \in Contents \X Contents
  /\ ListedPaths(call.index) = DOMAIN call.bytes \ {Index}
  /\ \A p \in ListedPaths(call.index) : PayloadAccepted(Listed(call.index, p), call.bytes[p])
  /\ PackageAccepted

\* A verified call has checked all of it, whichever entry it came by.
LEMMA VerifiedHolds ==
  ASSUME FenceInv, TypeInv, ClosedInv, verdict = "verified"
  PROVE  Verified
<1>1. \A p \in DOMAIN call.bytes : call.bytes[p] \in Contents \X Contents
  BY DEF TypeInv, CallTyped
<1>2. CASE VerifiesFS
  <2>1. /\ StagedAccepted /\ DOMAIN call.bytes \subseteq Paths
        /\ \E raw \in Contents \X Contents : call.index = Decoded(raw)
    BY <1>2 DEF ClosedInv, StagedOK
  <2> QED  BY <1>1, <2>1 DEF StagedAccepted, ClosureMatches, Verified
<1>3. CASE ~VerifiesFS
  <2>1. /\ call.step = "returned" /\ call.bytes # Empty /\ PathsOK(call) /\ IndexOK(call)
        /\ ClosureOK(call) /\ PackageAccepted
    BY <1>3 DEF FenceInv, EndOK, DirectoryOK, ClosedInv
  <2>2. ListedPaths(call.index) = DOMAIN call.bytes \ {Index}
    BY <2>1 DEF IndexOK, ClosureOK
  <2> QED  BY <1>1, <2>1, <2>2 DEF ClosureOK, PathsOK, Verified
<1> QED  BY <1>2, <1>3

\* The files of a report, and the payloads at their paths.
LEMMA VerifiedFiles ==
  ASSUME Verified, NEW files, files = Range(call.index.files)
  PROVE  /\ call.index.files \in Seq(files)
         /\ \A f, g \in files : f.path = g.path => f = g
         /\ {f.path : f \in files} = DOMAIN call.bytes \ {Index}
         /\ \A f \in files :
              /\ Listed(call.index, f.path) = f /\ Media(f.path) = f.media
              /\ f.path \in ListedPaths(call.index) /\ PayloadAccepted(f, call.bytes[f.path])
              /\ call.bytes[f.path] = <<f.digest, f.digest>> /\ Payload(f.path) = Doc[f.digest]
              /\ Doc[f.digest].size \in Nat /\ Doc[f.digest].size = f.size
         /\ \A i, j \in DOMAIN call.index.files : call.index.files[i] = call.index.files[j] => i = j
<1>1. PICK index : index = call.index
  OBVIOUS
<1>2. index.files \in Seq(files)
  <2>1. PICK raw \in Contents \X Contents : index = Decoded(raw)
    BY <1>1 DEF Verified
  <2> QED  BY <1>1, <2>1, DecodedIndex DEF Verified
<1>3. PICK n : n = Len(index.files)
  OBVIOUS
<1>4. n \in Nat /\ DOMAIN index.files = 1..n
  BY <1>2, <1>3
<1>5. \A i, j \in 1..n : index.files[i].path = index.files[j].path => i = j
  BY <1>1, <1>4, ListedOnce DEF Verified
<1>6. /\ \A i \in 1..n : index.files[i] \in files
      /\ \A f \in files : \E i \in 1..n : index.files[i] = f
  BY <1>1, <1>4 DEF Range
<1>7. \A f, g \in files : f.path = g.path => f = g
  BY <1>5, <1>6
<1>8. ListedPaths(index) = {f.path : f \in files}
  BY <1>4, <1>6 DEF ListedPaths
<1>9. ASSUME NEW f \in files
      PROVE  /\ Listed(index, f.path) = f /\ Media(f.path) = f.media
             /\ f.path \in ListedPaths(index) /\ PayloadAccepted(f, call.bytes[f.path])
             /\ call.bytes[f.path] = <<f.digest, f.digest>> /\ Payload(f.path) = Doc[f.digest]
             /\ Doc[f.digest].size \in Nat /\ Doc[f.digest].size = f.size
  <2>1. PICK l : l = Listed(index, f.path)
    OBVIOUS
  <2>2. l \in files /\ l.path = f.path
    BY <1>1, <2>1 DEF Listed
  <2>3. l = f
    BY <1>7, <2>2
  <2>4. f.path \in ListedPaths(index) /\ f.path \in DOMAIN call.bytes
    BY <1>1, <1>8 DEF Verified
  <2>5. PayloadAccepted(f, call.bytes[f.path]) /\ call.bytes[f.path] \in Contents \X Contents
    BY <1>1, <2>1, <2>3, <2>4 DEF Verified
  <2>6. PICK raw : raw = call.bytes[f.path]
    OBVIOUS
  <2>7. /\ raw = <<f.digest, f.digest>> /\ Doc[raw[2]].size = f.size /\ raw \in Contents \X Contents
    BY <2>5, <2>6 DEF PayloadAccepted, Length
  <2>8. f.digest \in Contents /\ raw[1] = f.digest /\ raw[2] = f.digest
    BY <2>7
  <2>9. Doc[f.digest].size \in Nat /\ Doc[f.digest].size = f.size
    BY <2>7, <2>8, ContentsAssumption
  <2>10. Media(f.path) = f.media /\ Payload(f.path) = Doc[f.digest]
    BY <1>1, <2>1, <2>3, <2>6, <2>8 DEF Media, Payload
  <2> QED  BY <2>1, <2>3, <2>4, <2>5, <2>6, <2>7, <2>9, <2>10
<1>10. \A i, j \in DOMAIN index.files : index.files[i] = index.files[j] => i = j
  BY <1>4, <1>5
<1> QED  BY <1>1, <1>2, <1>7, <1>8, <1>9, <1>10 DEF Verified

\* The one definition of a report.
LEMMA VerifiedDefinition ==
  ASSUME Verified, NEW files, files = Range(call.index.files)
  PROVE  /\ Definition.kind = "definition"
         /\ call.bytes[call.index.definitionPath][1] = call.index.formRef.digest
         /\ \A f \in files : f.media = "definition" <=> f.path = call.index.definitionPath
<1>1. PICK index, path : index = call.index /\ path = call.index.definitionPath
  OBVIOUS
<1>2. /\ path \in ListedPaths(index) /\ Media(path) = "definition" /\ Definition.kind = "definition"
      /\ call.bytes[path][1] = index.formRef.digest
  BY <1>1 DEF Verified, PackageAccepted, DefinitionAccepted
<1>3. /\ index.files \in Seq(files)
      /\ \A f \in files : f.path = path => f.media = "definition"
      /\ \A f, g \in files : f.path = g.path => f = g
  BY <1>1, <1>2, VerifiedFiles
<1>4. PICK S : S = {i \in DOMAIN index.files : index.files[i].media = "definition"}
  OBVIOUS
<1>5. Cardinality(S) = 1 /\ IsFiniteSet(S)
  <2>1. Cardinality(S) = 1
    BY <1>1, <1>4 DEF Verified, IndexAccepted
  <2>2. PICK n : n = Len(index.files)
    OBVIOUS
  <2>3. n \in Nat /\ S \subseteq 1..n
    BY <1>3, <1>4, <2>2
  <2>4. IsFiniteSet(1..n)
    BY <2>3, FS_Interval
  <2>5. IsFiniteSet(S)
    BY <2>3, <2>4, FS_Subset
  <2> QED  BY <2>1, <2>5
<1>6. \A i, j \in S : i = j
  <2>1. PICK x : S = {x}
    BY <1>5, FS_Singleton
  <2> QED  BY <2>1
<1>7. PICK k \in DOMAIN index.files : index.files[k].path = path
  BY <1>2 DEF ListedPaths
<1>8. /\ \A i \in DOMAIN index.files : index.files[i] \in files
      /\ \A f \in files : \E i \in DOMAIN index.files : index.files[i] = f
  BY <1>1 DEF Range
<1>9. k \in S
  BY <1>3, <1>4, <1>7, <1>8
<1>10. \A f \in files : f.media = "definition" => f.path = path
  BY <1>4, <1>6, <1>7, <1>8, <1>9
<1> QED  BY <1>1, <1>2, <1>3, <1>10

\* What a payload with a name that is not free is used for.
LEMMA VerifiedNames ==
  ASSUME Verified, NEW files, files = Range(call.index.files),
         NEW f \in files, Restricted(Doc[f.digest], f.media)
  PROVE  Doc[f.digest].words = "bounded" /\ DesiredFixturePath(f.path)
<1>1. PICK p, value : p = f.path /\ value = Doc[f.digest]
  OBVIOUS
<1>2. Media(p) = f.media /\ p \in ListedPaths(call.index) /\ Payload(p) = value
  BY <1>1, VerifiedFiles
<1>3. value.kind = "value" /\ IsJSON(f.media) /\ value.words # "none"
  BY <1>1 DEF Restricted
<1>4. p # call.index.definitionPath
  <2>1. Definition.kind = "definition"
    BY VerifiedDefinition
  <2> QED  BY <1>2, <1>3, <2>1 DEF Definition
<1>5. value.words = "bounded" /\ DesiredFixturePath(p)
  BY <1>2, <1>3, <1>4 DEF Verified, PackageAccepted, ContentAllowed
<1> QED  BY <1>1, <1>5

\* What a fixture names is listed, and serves the stage it is named for.
LEMMA VerifiedUses ==
  ASSUME Verified, NEW files, files = Range(call.index.files), NEW definition,
         definition = Definition, NEW u \in FixtureUses(definition)
  PROVE  \E f \in files : f.path = u[1] /\ UseHolds(u, Doc[f.digest], f.media, definition)
<1>1. PICK p, stage, fits : p = u[1] /\ stage = u[2] /\ fits = u[3]
  OBVIOUS
<1>2. /\ <<p, stage>> \in StageUses /\ FixtureFile(p) /\ stage \in definition.stages
      /\ fits <=> Fits(p, stage)
  <2>1. CASE \E f \in Range(definition.conformance) : \E s \in DOMAIN f : u = <<f[s], s, TRUE>>
    <3>1. PICK f \in Range(definition.conformance) : \E s \in DOMAIN f : u = <<f[s], s, TRUE>>
      BY <2>1
    <3>2. PICK s \in DOMAIN f : u = <<f[s], s, TRUE>>
      BY <3>1
    <3>3. p = f[s] /\ stage = s /\ fits = TRUE
      BY <1>1, <3>2
    <3>4. FixtureFile(f[s]) /\ s \in definition.stages /\ Fits(f[s], s)
      BY <3>1, <3>2 DEF Verified, PackageAccepted, ConformanceAccepted
    <3>5. <<f[s], s>> \in StageUses
      BY <3>1, <3>2 DEF StageUses
    <3> QED  BY <3>3, <3>4, <3>5
  <2>2. CASE \E f \in Range(definition.negative) : u = <<f.input, f.stage, FALSE>>
    <3>1. PICK f \in Range(definition.negative) : u = <<f.input, f.stage, FALSE>>
      BY <2>2
    <3>2. p = f.input /\ stage = f.stage /\ fits = FALSE
      BY <1>1, <3>1
    <3>3. FixtureFile(f.input) /\ f.stage \in definition.stages /\ ~Fits(f.input, f.stage)
      BY <3>1 DEF Verified, PackageAccepted, NegativesAccepted
    <3>4. <<f.input, f.stage>> \in StageUses
      BY <3>1 DEF StageUses
    <3> QED  BY <3>2, <3>3, <3>4
  <2>3. \/ \E f \in Range(definition.conformance) : \E s \in DOMAIN f : u = <<f[s], s, TRUE>>
        \/ \E f \in Range(definition.negative) : u = <<f.input, f.stage, FALSE>>
    BY DEF FixtureUses
  <2> QED  BY <2>1, <2>2, <2>3
<1>3. PICK f \in files : f.path = p
  <2>1. p \in ListedPaths(call.index) /\ ListedPaths(call.index) = {f.path : f \in files}
    BY <1>2, VerifiedFiles DEF FixtureFile, Verified
  <2> QED  BY <2>1
<1>4. PICK value : value = Doc[f.digest]
  OBVIOUS
<1>5. Media(p) = f.media /\ Payload(p) = value
  BY <1>3, <1>4, VerifiedFiles
<1>6. f.media = "json" /\ (fits <=> value.kind = "value" /\ ~value.heavy /\ stage \in value.fits)
  BY <1>2, <1>5 DEF FixtureFile, Fits
<1>7. ASSUME Restricted(value, f.media)
      PROVE  value.words = "bounded" /\ stage = "desired"
  <2>1. value.words = "bounded" /\ DesiredFixturePath(p)
    BY <1>3, <1>4, <1>7, VerifiedNames
  <2>2. stage \in {v[2] : v \in {w \in StageUses : w[1] = p}}
    BY <1>2
  <2> QED  BY <2>1, <2>2 DEF DesiredFixturePath
<1>8. UseHolds(u, value, f.media, definition)
  BY <1>1, <1>2, <1>6, <1>7 DEF UseHolds
<1> QED  BY <1>1, <1>3, <1>4, <1>8

\* A payload for the desired stage alone is one that a fixture names.
LEMMA VerifiedUsed ==
  ASSUME Verified, NEW p, DesiredFixturePath(p), NEW definition, definition = Definition
  PROVE  \E u \in FixtureUses(definition) : u[1] = p
<1>1. "desired" \in {v[2] : v \in {w \in StageUses : w[1] = p}}
  BY DEF DesiredFixturePath
<1>2. PICK v \in StageUses : v[1] = p
  BY <1>1
<1>3. CASE \E f \in Range(definition.conformance) : \E s \in DOMAIN f : v = <<f[s], s>>
  <2>1. PICK f \in Range(definition.conformance) : \E s \in DOMAIN f : v = <<f[s], s>>
    BY <1>3
  <2>2. PICK s \in DOMAIN f : v = <<f[s], s>>
    BY <2>1
  <2>3. PICK u : u = <<f[s], s, TRUE>>
    OBVIOUS
  <2>4. u \in FixtureUses(definition) /\ u[1] = p
    BY <1>2, <2>1, <2>2, <2>3 DEF FixtureUses
  <2> QED  BY <2>4
<1>4. CASE \E f \in Range(definition.negative) : v = <<f.input, f.stage>>
  <2>1. PICK f \in Range(definition.negative) : v = <<f.input, f.stage>>
    BY <1>4
  <2>2. PICK u : u = <<f.input, f.stage, FALSE>>
    OBVIOUS
  <2>3. u \in FixtureUses(definition) /\ u[1] = p
    BY <1>2, <2>1, <2>2 DEF FixtureUses
  <2> QED  BY <2>3
<1>5. \/ \E f \in Range(definition.conformance) : \E s \in DOMAIN f : v = <<f[s], s>>
      \/ \E f \in Range(definition.negative) : v = <<f.input, f.stage>>
  BY <1>2 DEF StageUses
<1> QED  BY <1>3, <1>4, <1>5

\* What was checked makes the report one closed package.
LEMMA VerifiedClosed ==
  ASSUME Verified, verdict = "verified"
  PROVE  ReportClosed
<1>1. PICK files, definition, index :
        files = Range(call.index.files) /\ definition = Definition /\ index = call.index
  OBVIOUS
<1>2. /\ index.files \in Seq(files)
      /\ \A f, g \in files : f.path = g.path => f = g
      /\ {f.path : f \in files} = DOMAIN call.bytes \ {Index}
      /\ \A i, j \in DOMAIN index.files : index.files[i] = index.files[j] => i = j
  BY <1>1, VerifiedFiles
<1>3. \A f \in files : /\ call.bytes[f.path] = <<f.digest, f.digest>>
                       /\ Doc[f.digest].size \in Nat /\ Doc[f.digest].size = f.size
  BY <1>1, VerifiedFiles
<1>4. /\ Cardinality(files) = Len(index.files)
      /\ MapThenSumSet(LAMBDA f : Doc[f.digest].size, files) <= MaxPackage
  <2>1. PICK list : list = index.files
    OBVIOUS
  <2>2. files = Range(list) /\ list \in Seq(Range(list))
    BY <1>1, <1>2, <2>1
  <2>3. /\ \A i, j \in DOMAIN list : list[i] = list[j] => i = j
        /\ \A f \in Range(list) : Doc[f.digest].size \in Nat /\ f.size = Doc[f.digest].size
    BY <1>2, <1>3, <2>1, <2>2
  <2>4. /\ Cardinality(Range(list)) = Len(list)
        /\ TotalSize(list) = MapThenSumSet(LAMBDA f : Doc[f.digest].size, Range(list))
    BY <2>2, <2>3, SizesAgree
  <2>5. TotalSize(list) <= MaxPackage
    BY <1>1, <2>1 DEF Verified, IndexAccepted
  <2> QED  BY <2>1, <2>2, <2>4, <2>5
<1>5. /\ call.bytes[index.definitionPath][1] = index.formRef.digest
      /\ \A f \in files : f.media = "definition" <=> f.path = index.definitionPath
  BY <1>1, VerifiedDefinition
<1>6. \A u \in FixtureUses(definition) :
        \E f \in files : f.path = u[1] /\ UseHolds(u, Doc[f.digest], f.media, definition)
  BY <1>1, VerifiedUses
<1>7. ASSUME NEW f \in files, Restricted(Doc[f.digest], f.media)
      PROVE  \E u \in FixtureUses(definition) : u[1] = f.path
  <2>1. DesiredFixturePath(f.path)
    BY <1>1, <1>7, VerifiedNames
  <2>2. PICK p : p = f.path
    OBVIOUS
  <2>3. \E u \in FixtureUses(definition) : u[1] = p
    BY <1>1, <2>1, <2>2, VerifiedUsed
  <2> QED  BY <2>2, <2>3
<1> QED  BY <1>1, <1>2, <1>3, <1>4, <1>5, <1>6, <1>7 DEF ReportClosed

\* A verified report is one closed package, whatever another process does to the
\* directory meanwhile: what it lists, what was read and what the definition names agree.
THEOREM ReportClosedAlways == Spec => []ReportClosed
<1>1. Init => TypeInv /\ FenceInv /\ ClosedInv
  BY TypeInvInit, InitStep, ClosedInit
<1>2. TypeInv /\ FenceInv /\ ClosedInv /\ [Next]_vars => TypeInv' /\ FenceInv' /\ ClosedInv'
  BY TypeInvStep, FenceStep, ClosedInvStep
<1>3. TypeInv /\ FenceInv /\ ClosedInv => ReportClosed
  <2>1. CASE verdict # "verified"
    BY <2>1 DEF ReportClosed
  <2> QED  BY <2>1, VerifiedHolds, VerifiedClosed
<1> QED  BY <1>1, <1>2, <1>3, PTL DEF Spec
=============================================================================
