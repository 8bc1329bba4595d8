----------------------------- MODULE PackageVerify -----------------------------
(***************************************************************************)
(* Verification of one Form Package (formpackage/verify.go, verify_fs.go,  *)
(* secure_open_unix.go) while another process edits its directory: what    *)
(* VerifyDirectory and VerifyFS list, open, read and compare, step by      *)
(* step, and the checks they make of what they have read.                  *)
(*                                                                         *)
(* The file system: two directories, one of which is at the package's      *)
(* path; files are never reused once unlinked.  Every change gives a file, *)
(* or the directory whose entries change, a modification time it never had *)
(* (only equality matters: the edits left serve).  A file is read in two   *)
(* parts.  A content stands for its bytes and is its own digest; what was  *)
(* read is the pair of its parts.                                          *)
(***************************************************************************)
EXTENDS Integers, Sequences, FiniteSets, FiniteSetsExt, Functions

CONSTANTS
  Paths,        \* relative paths of files
  PathInfo,     \* path -> [rank, ok, ext, sub]: order, syntax, extension, in the subdirectory
  SubRank,      \* where the subdirectory stands among the entries of the root
  Contents,     \* file contents
  Doc,          \* content -> what it decodes to; each has a kind and a size
  Packages,     \* the directories verified: path -> content, for the files there
  Beside,       \* package -> what the other directory holds: path -> content
  Edits,        \* package -> edits of the other process during one verification
  Rewrites,     \* path -> contents the other process may put there
  MaxFiles, MaxIndex, MaxDefinition, MaxJSON, MaxPayload, MaxPackage  \* the code's limits

Index == "package-index.json"
NoFile == 0
NoPath == "none"
Dirs == {1, 2}
Modes == {"plain", "executable", "link"}

ASSUME PathsAssumption ==
  /\ IsFiniteSet(Paths) /\ Index \in Paths /\ NoPath \notin Paths
  /\ \A p \in Paths : PathInfo[p].sub \in BOOLEAN /\ PathInfo[p].rank \in Int
  /\ \A p, q \in Paths : PathInfo[p].rank = PathInfo[q].rank => p = q
  /\ \A package \in Packages :
       /\ Edits[package] \in Nat
       /\ DOMAIN package \subseteq Paths /\ DOMAIN Beside[package] \subseteq Paths

\* Files hold contents, and an index among them lists its files in a sequence.
ASSUME ContentsAssumption ==
  /\ \A package \in Packages : Range(package) \cup Range(Beside[package]) \subseteq Contents
  /\ \A p \in Paths : Rewrites[p] \subseteq Contents
  /\ \A c \in Contents :
       /\ Doc[c].size \in Nat
       /\ Doc[c].kind = "index" =>
            /\ {"kind", "files", "definitionPath", "formRef"} \subseteq DOMAIN Doc[c]
            /\ Doc[c].files \in Seq(Range(Doc[c].files))

VARIABLES
  at,        \* the directory at the package's path
  tree,      \* directory -> path -> file
  times,     \* directory -> modification time
  file,      \* the files: a sequence of [content, mode, time]
  budget,    \* edits left
  entry,     \* "VerifyDirectory" or "VerifyFS"
  call,      \* the local variables of the call; "listed" is history: the directory listed
  staging,   \* the private directory of VerifyFS: "none", "present" or "left"
  verdict,   \* "none", "refused" or "verified"
  moment     \* history: the contents of the files found, when VerifyFS has found them

disk == <<at, tree, times, file, budget>>
vars == <<disk, entry, call, staging, verdict, moment>>

Now == budget

\* The order of sort.Strings.
Rank(p) == PathInfo[p].rank

-----------------------------------------------------------------------------
(* What an index, the payloads it lists and the definition among them have to *)
(* be.  Nothing here reads the disk.                                          *)

IsJSON(media) == media \in {"definition", "schema", "json"}
Limit(media) ==
  CASE media = "definition" -> MaxDefinition [] IsJSON(media) -> MaxJSON [] OTHER -> MaxPayload

\* The extensions a media type may have.
Extensions(media) ==
  CASE IsJSON(media) -> {".json"}
    [] media = "markdown" -> {".md"}
    [] media = "plain" -> {".txt"}
    [] OTHER -> {}

Length(raw) == Doc[raw[2]].size

\* The document in what was read: one part may be of an older version.
Decoded(raw) ==
  IF raw[1] = raw[2] THEN Doc[raw[1]]
  ELSE IF Doc[raw[1]].kind = "index" /\ Doc[raw[2]].kind = "index"
  THEN [Doc[raw[1]] EXCEPT !.definitionPath = Doc[raw[2]].definitionPath,
                           !.formRef = Doc[raw[2]].formRef]
  ELSE [kind |-> "junk", size |-> Doc[raw[2]].size]

ListedPaths(index) == {index.files[i].path : i \in DOMAIN index.files}
Listed(index, p) == CHOOSE f \in Range(index.files) : f.path = p

TotalSize(files) == FoldFunction(LAMBDA f, sum : f.size + sum, 0, files)

\* validateIndex and the loop over index.files.
IndexAccepted(index) ==
  /\ index.kind = "index" /\ index.supported
  /\ Len(index.files) <= MaxFiles
  /\ \A i \in DOMAIN index.files :
       LET f == index.files[i]
       IN /\ PathInfo[f.path].ok /\ f.path # Index
          /\ i > 1 => Rank(index.files[i - 1].path) < Rank(f.path)
          /\ f.size <= Limit(f.media)
          /\ PathInfo[f.path].ext \in Extensions(f.media)
  /\ TotalSize(index.files) <= MaxPackage
  /\ Cardinality({i \in DOMAIN index.files : index.files[i].media = "definition"}) = 1

\* Mutated form: listed files may be missing.
ClosureCovers(index, found) == found \ {Index} \subseteq ListedPaths(index)

\* The files found are exactly those listed, whose paths IndexAccepted has found sorted.
ClosureMatches(index, found) == ListedPaths(index) = found \ {Index}

\* A payload has the size and the digest listed and decodes as its media type.
PayloadAccepted(f, raw) ==
  /\ Length(raw) = f.size
  /\ raw = <<f.digest, f.digest>>
  /\ IF IsJSON(f.media) THEN Decoded(raw).kind \notin {"junk", "text"} ELSE Decoded(raw).kind # "junk"

\* A payload that was accepted, decoded.
Payload(p) == Doc[call.bytes[p][1]]
Media(p) == Listed(call.index, p).media
Definition == Payload(call.index.definitionPath)

\* validateDefinitionWithFamilyProfile and the comparison with the FormRef.
DefinitionAccepted ==
  LET path == call.index.definitionPath
      formRef == call.index.formRef
  IN /\ path \in ListedPaths(call.index) /\ Media(path) = "definition"
     /\ Definition.kind = "definition"
     /\ formRef.digest = call.bytes[path][1] /\ formRef.identity = Definition.identity

\* The uses of the payloads by fixtures: <<path, stage>>.
StageUses ==
  (UNION {{<<f[stage], stage>> : stage \in DOMAIN f} : f \in Range(Definition.conformance)})
    \cup {<<f.input, f.stage>> : f \in Range(Definition.negative)}

\* Mutated form: any use at the desired stage exempts a payload.
AnyDesiredFixturePath(p) == <<p, "desired">> \in StageUses

\* definitionDesiredFixturePaths: used at the desired stage and at no other.
DesiredFixturePath(p) == {u[2] : u \in {v \in StageUses : v[1] = p}} = {"desired"}

\* Field names: "none" of them forbidden, "bounded" (forbidden but for a desired
\* schema that proves them bounded) or "forbidden".
ContentAllowed ==
  \A p \in ListedPaths(call.index) \ {call.index.definitionPath} :
    IsJSON(Media(p)) /\ Payload(p).kind = "value" =>
      \/ Payload(p).words = "none"
      \/ Payload(p).words = "bounded" /\ DesiredFixturePath(p)

FixtureFile(p) == p \in ListedPaths(call.index) /\ Media(p) = "json"

\* validateFixtureAgainstSchema.
Fits(p, stage) == Payload(p).kind = "value" /\ ~Payload(p).heavy /\ stage \in Payload(p).fits

\* Every stage of a conformance fixture has a schema and a payload that fits.
ConformanceAccepted ==
  \A f \in Range(Definition.conformance) : \A stage \in DOMAIN f :
    FixtureFile(f[stage]) /\ stage \in Definition.stages /\ Fits(f[stage], stage)

\* The input of a negative fixture is refused, whatever for.
NegativesAccepted ==
  \A f \in Range(Definition.negative) :
    FixtureFile(f.input) /\ f.stage \in Definition.stages /\ ~Fits(f.input, f.stage)

\* What VerifyDirectory checks once every payload is read.
PackageAccepted ==
  DefinitionAccepted /\ ContentAllowed /\ ConformanceAccepted /\ NegativesAccepted

-----------------------------------------------------------------------------
(* The other process.                                                        *)

Editing == budget > 0 /\ verdict = "none"

Edited == budget' = budget - 1 /\ UNCHANGED <<entry, call, staging, verdict, moment>>

EntriesChanged(p) == IF PathInfo[p].sub THEN times ELSE [times EXCEPT ![at] = Now]

Rewrite(p) ==
  /\ Editing /\ tree[at][p] # NoFile
  /\ \E c \in Rewrites[p] :
       file' = [file EXCEPT ![tree[at][p]].content = c, ![tree[at][p]].time = Now]
  /\ Edited /\ UNCHANGED <<at, tree, times>>

ChangeMode(p) ==
  /\ Editing /\ tree[at][p] # NoFile
  /\ file' = [file EXCEPT ![tree[at][p]].mode = "executable"]
  /\ Edited /\ UNCHANGED <<at, tree, times>>

\* A new file at the path, moved over the one there.
Replace(p) ==
  /\ Editing
  /\ \E c \in Rewrites[p], mode \in {"plain", "link"} :
       file' = Append(file, [content |-> c, mode |-> mode, time |-> Now])
  /\ tree' = [tree EXCEPT ![at][p] = Len(file) + 1]
  /\ times' = EntriesChanged(p)
  /\ Edited /\ UNCHANGED at

Unlink(p) ==
  /\ Editing /\ tree[at][p] # NoFile
  /\ tree' = [tree EXCEPT ![at][p] = NoFile]
  /\ times' = EntriesChanged(p)
  /\ Edited /\ UNCHANGED <<at, file>>

\* The other directory takes the package's path.
SwapRoot ==
  /\ Editing
  /\ at' = 3 - at
  /\ Edited /\ UNCHANGED <<tree, times, file>>

-----------------------------------------------------------------------------
(* The call.                                                                 *)

\* fs.FileInfo of a file, and of a directory.
Info(f) == [id |-> f, mode |-> file[f].mode, size |-> Doc[file[f].content].size, time |-> file[f].time]
RootInfo(d) == [id |-> d, time |-> times[d]]

SameFile(a, b) == a.id = b.id

\* Mutated form: the modification time is not compared.
SameModeAndSize(a, b) == a.mode = b.mode /\ a.size = b.size

SameStableMetadata(a, b) == a.mode = b.mode /\ a.size = b.size /\ a.time = b.time

Empty == <<>>

Idle ==
  [step |-> "lstatRoot", held |-> 0, root |-> RootInfo(at), walk |-> {}, nested |-> FALSE, listed |-> 0,
   inventory |-> Empty, first |-> Empty, path |-> NoPath, before |-> Empty, handle |-> NoFile,
   head |-> NoPath, raw |-> Empty, bytes |-> Empty, index |-> Empty]

VerifiesFS == entry = "VerifyFS"

\* A return with an error; VerifyFS removes what it staged, which may fail too.
Refuse ==
  /\ verdict' = "refused"
  /\ staging' \in (IF staging = "present" THEN {"none", "left"} ELSE {staging})
  /\ call' = [Idle EXCEPT !.step = "returned"]
  /\ UNCHANGED <<disk, entry, moment>>

Goto(next) ==
  /\ call' = next
  /\ UNCHANGED <<disk, entry, staging, verdict, moment>>

Check(holds, next) == IF holds THEN Goto(next) ELSE Refuse

At(step) == verdict = "none" /\ call.step = step

\* openStablePackageRoot.
LstatRoot == At("lstatRoot") /\ Goto([call EXCEPT !.root = RootInfo(at), !.step = "openRoot"])
OpenRoot == At("openRoot") /\ Goto([call EXCEPT !.held = at, !.step = "statRoot"])
StatRoot ==
  /\ At("statRoot")
  /\ Check(call.root = RootInfo(call.held), [call EXCEPT !.step = "list"])

\* inventoryDirectory and inventoryImmutableFS: the entries of the root, those of
\* the subdirectory when the walk comes to it, and the metadata of each file when
\* it comes to that.
Present(sub) == {p \in Paths : PathInfo[p].sub = sub /\ tree[at][p] # NoFile}

ListRoot ==
  /\ At("list")
  /\ Goto([call EXCEPT !.walk = Present(FALSE), !.nested = TRUE, !.inventory = Empty,
                        !.listed = at, !.step = "walk"])

Earlier(p) == {q \in call.walk : Rank(q) < Rank(p)}
SubIsNext == call.nested /\ \A p \in call.walk : SubRank < Rank(p)

ListSubdirectory ==
  /\ At("walk") /\ SubIsNext
  /\ Goto([call EXCEPT !.walk = @ \cup Present(TRUE), !.nested = FALSE])

EntryAccepted(p) ==
  /\ tree[at][p] # NoFile
  /\ LET info == Info(tree[at][p])
     IN /\ info.mode = "plain" /\ PathInfo[p].ok /\ PathInfo[p].ext # "executable"
        /\ VerifiesFS =>
             /\ Cardinality(DOMAIN call.inventory) <= MaxFiles
             /\ info.size <= (IF p = Index THEN MaxIndex ELSE MaxPayload)
             /\ TotalSize(call.inventory) + info.size <= MaxPackage + MaxIndex

Inspect(p) ==
  /\ At("walk") /\ p \in call.walk /\ Earlier(p) = {} /\ ~SubIsNext
  /\ IF EntryAccepted(p)
     THEN Goto([call EXCEPT !.walk = @ \ {p},
                            !.inventory = [q \in DOMAIN @ \cup {p} |->
                              IF q = p THEN Info(tree[at][p]) ELSE call.inventory[q]]])
     ELSE Refuse

\* Mutated form: the modification time is not remembered.
AttributesNoTime(info) == [mode |-> info.mode, size |-> info.size]

\* What VerifyFS remembers of a file, and compares.
Attributes(info) == [mode |-> info.mode, size |-> info.size, time |-> info.time]

\* compareImmutableFSInventories.
SameInventories(first, second) ==
  /\ DOMAIN first = DOMAIN second
  /\ \A p \in DOMAIN first : Attributes(first[p]) = Attributes(second[p])

\* The walk has ended: VerifyDirectory compares the root, VerifyFS stages what it
\* has found, or compares what it finds afterwards.
InventoryTaken ==
  /\ At("walk") /\ call.walk = {} /\ ~call.nested
  /\ IF Index \notin DOMAIN call.inventory THEN Refuse
     ELSE IF ~VerifiesFS THEN Goto([call EXCEPT !.step = "statHandle"])
     ELSE IF call.first = Empty
     THEN /\ call' = [call EXCEPT !.first = call.inventory, !.step = "next"]
          /\ staging' = "present"
          /\ moment' = [p \in DOMAIN call.inventory |-> file[call.inventory[p].id].content]
          /\ UNCHANGED <<disk, entry, verdict>>
     ELSE Check(SameInventories(call.first, call.inventory), [call EXCEPT !.step = "verifyStaged"])

\* MkdirTemp, MkdirAll or a write fails.
StageFails == VerifiesFS /\ At("next") /\ Refuse

\* Mutated form: the identity of the root is compared and not its metadata.
SameRoot(d) == d = call.root.id

\* assertPackageRootStable: the directory is the one opened, its entries unchanged.
RootStable(d) == RootInfo(d) = call.root

\* The handle and then the path, after the inventory and before the return.
StatHandle ==
  /\ At("statHandle")
  /\ Check(RootStable(call.held), [call EXCEPT !.step = "lstatAgain"])

LstatAgain ==
  /\ At("lstatAgain")
  /\ IF ~RootStable(at) THEN Refuse
     ELSE IF call.bytes = Empty THEN Goto([call EXCEPT !.path = Index, !.step = "lstat"])
     ELSE /\ verdict' = "verified"
          /\ call' = [call EXCEPT !.step = "returned"]
          /\ UNCHANGED <<disk, entry, staging, moment>>

-----------------------------------------------------------------------------
(* readBoundedRegularFile, and readImmutableFSFile, which has no path to go   *)
(* back to and compares what the first inventory recorded.                    *)

Bytes(raw) == [p \in DOMAIN call.bytes \cup {call.path} |->
                 IF p = call.path THEN raw ELSE call.bytes[p]]
MaximumOf(p) == IF p = Index THEN MaxIndex ELSE Limit(Listed(call.index, p).media)
Inventoried == call.inventory[call.path]

Lstat ==
  /\ At("lstat")
  /\ LET f == tree[at][call.path]
     IN IF call.path \in DOMAIN call.inventory /\ f # NoFile /\ Info(f).mode = "plain"
           /\ SameFile(Inventoried, Info(f)) /\ Info(f).size <= MaximumOf(call.path)
        THEN Goto([call EXCEPT !.before = Info(f), !.step = "open"])
        ELSE Refuse

\* secureOpenRelative resolves the path below the directory held and follows no
\* link; an fs.FS resolves it below the path.
OpenFile ==
  /\ At("open")
  /\ LET f == tree[IF VerifiesFS THEN at ELSE call.held][call.path]
     IN IF f # NoFile /\ file[f].mode # "link"
        THEN Goto([call EXCEPT !.handle = f, !.step = "stat"])
        ELSE Refuse

Handle == Info(call.handle)

StatFile ==
  /\ At("stat")
  /\ Check(/\ Handle.mode = "plain"
           /\ IF VerifiesFS THEN Attributes(Inventoried) = Attributes(Handle)
              ELSE SameFile(Inventoried, Handle) /\ SameStableMetadata(call.before, Handle),
           [call EXCEPT !.before = Handle, !.step = "head"])

ReadHead == At("head") /\ Goto([call EXCEPT !.head = file[call.handle].content, !.step = "tail"])
ReadTail ==
  /\ At("tail")
  /\ Goto([call EXCEPT !.raw = <<call.head, file[call.handle].content>>, !.step = "statAfter"])

Read(raw) == [call EXCEPT !.bytes = Bytes(raw), !.path = NoPath, !.before = Empty, !.handle = NoFile,
                          !.head = NoPath, !.raw = Empty]

StatAfter ==
  /\ At("statAfter")
  /\ IF VerifiesFS
     THEN Check(Length(call.raw) = Inventoried.size /\ Attributes(Inventoried) = Attributes(Handle),
                [Read(call.raw) EXCEPT !.step = "next"])
     ELSE Check(SameStableMetadata(call.before, Handle), [call EXCEPT !.step = "lstatAfter"])

ReadIsStable ==
  LET f == tree[at][call.path]
  IN /\ f # NoFile
     /\ SameFile(call.before, Info(f)) /\ SameStableMetadata(call.before, Info(f))

\* What was read is accepted as the index, or as the payload the index lists.
Accepted ==
  IF call.path = Index
  THEN IndexAccepted(Decoded(call.raw)) /\ ClosureMatches(Decoded(call.raw), DOMAIN call.inventory)
  ELSE PayloadAccepted(Listed(call.index, call.path), call.raw)

LstatAfter ==
  /\ At("lstatAfter")
  /\ Check(ReadIsStable /\ Length(call.raw) <= MaximumOf(call.path) /\ Accepted,
           [Read(call.raw) EXCEPT !.step = "next",
                                  !.index = IF call.path = Index THEN Decoded(call.raw) ELSE @])

Unread(paths) == paths \ DOMAIN call.bytes

\* The next file: VerifyDirectory follows the index, VerifyFS its inventory.
NextFile ==
  /\ At("next")
  /\ LET left == Unread(IF VerifiesFS THEN DOMAIN call.first ELSE ListedPaths(call.index))
     IN \/ \E p \in left :
             /\ \A q \in left : Rank(p) <= Rank(q)
             /\ Goto([call EXCEPT !.path = p, !.step = IF VerifiesFS THEN "open" ELSE "lstat"])
        \/ /\ left = {}
           /\ IF VerifiesFS THEN Goto([call EXCEPT !.step = "list"])
              ELSE Check(PackageAccepted, [call EXCEPT !.step = "statHandle"])

\* VerifyDirectory of the private directory, which nobody else changes.
ReadStaged ==
  /\ At("verifyStaged")
  /\ Goto([call EXCEPT !.index = Decoded(call.bytes[Index]), !.step = "checkStaged"])

StagedAccepted ==
  /\ Length(call.bytes[Index]) <= MaxIndex
  /\ IndexAccepted(call.index) /\ ClosureMatches(call.index, DOMAIN call.bytes)
  /\ \A p \in ListedPaths(call.index) :
       /\ Length(call.bytes[p]) <= MaximumOf(p)
       /\ PayloadAccepted(Listed(call.index, p), call.bytes[p])
  /\ PackageAccepted

\* Mutated form: an error of the removal is not returned.
ReturnWhateverRemoved ==
  /\ At("checkStaged") /\ StagedAccepted
  /\ staging' \in {"none", "left"}
  /\ verdict' = "verified"
  /\ call' = [call EXCEPT !.step = "returned"]
  /\ UNCHANGED <<disk, entry, moment>>

\* The capability is returned once the private directory is gone.
ReturnStaged ==
  /\ At("checkStaged") /\ StagedAccepted
  /\ staging' = "none"
  /\ verdict' = "verified"
  /\ call' = [call EXCEPT !.step = "returned"]
  /\ UNCHANGED <<disk, entry, moment>>

\* The staged package is refused, or the private directory cannot be removed.
RefuseStaged == At("checkStaged") /\ Refuse

-----------------------------------------------------------------------------
\* A directory's files, in the order of their paths, and the place of one of them.
PlaceOf(contents, p) == Cardinality({q \in DOMAIN contents : Rank(q) <= Rank(p)})
FilesOf(contents, time) ==
  [i \in 1..Cardinality(DOMAIN contents) |->
    LET p == CHOOSE q \in DOMAIN contents : PlaceOf(contents, q) = i
    IN [content |-> contents[p], mode |-> "plain", time |-> time]]

Init ==
  /\ at = 1
  /\ \E package \in Packages :
       /\ file = FilesOf(package, -1) \o FilesOf(Beside[package], -2)
       /\ budget = Edits[package]
       /\ tree = [d \in Dirs |-> [p \in Paths |->
                    CASE d = 1 /\ p \in DOMAIN package -> PlaceOf(package, p)
                      [] d = 2 /\ p \in DOMAIN Beside[package] ->
                           Cardinality(DOMAIN package) + PlaceOf(Beside[package], p)
                      [] OTHER -> NoFile]]
  /\ times = [d \in Dirs |-> -1]
  /\ entry \in {"VerifyDirectory", "VerifyFS"}
  /\ call = [Idle EXCEPT !.step = IF VerifiesFS THEN "list" ELSE "lstatRoot"]
  /\ staging = "none"
  /\ verdict = "none"
  /\ moment = Empty

Edit == SwapRoot \/ \E p \in Paths : Rewrite(p) \/ ChangeMode(p) \/ Replace(p) \/ Unlink(p)

OpenRootStable == LstatRoot \/ OpenRoot \/ StatRoot
Inventory == ListRoot \/ ListSubdirectory \/ (\E p \in call.walk : Inspect(p)) \/ InventoryTaken
AssertRootStable == StatHandle \/ LstatAgain
ReadFile == Lstat \/ OpenFile \/ StatFile \/ ReadHead \/ ReadTail \/ StatAfter \/ LstatAfter

Next ==
  \/ Edit
  \/ OpenRootStable \/ Inventory \/ AssertRootStable \/ NextFile \/ ReadFile
  \/ StageFails \/ ReadStaged \/ ReturnStaged \/ RefuseStaged

Spec == Init /\ [][Next]_vars

-----------------------------------------------------------------------------
(* Properties.                                                               *)

\* The fences know what they fence.
TypeOK ==
  /\ at \in Dirs /\ tree \in [Dirs -> [Paths -> 0..Len(file)]]
  /\ \A i \in DOMAIN file : file[i].content \in Contents /\ file[i].mode \in Modes
  /\ entry \in {"VerifyDirectory", "VerifyFS"}
  /\ staging \in {"none", "present", "left"} /\ verdict \in {"none", "refused", "verified"}
  /\ DOMAIN call.inventory \subseteq Paths /\ call.handle \in 0..Len(file)
  /\ \A p \in DOMAIN call.bytes : call.bytes[p] \in Contents \X Contents
  /\ call.path # NoPath => call.path \in DOMAIN call.inventory
  /\ staging = "present" => VerifiesFS

\* What the fixtures of a definition are for: <<path, stage, whether it has to fit>>.
FixtureUses(definition) ==
  (UNION {{<<f[s], s, TRUE>> : s \in DOMAIN f} : f \in Range(definition.conformance)})
    \cup {<<f.input, f.stage, FALSE>> : f \in Range(definition.negative)}

\* A payload listed with this media type has a field name that is not free.
Restricted(value, media) == value.kind = "value" /\ IsJSON(media) /\ value.words # "none"

UseHolds(u, value, media, definition) ==
  /\ media = "json" /\ u[2] \in definition.stages
  /\ u[3] <=> value.kind = "value" /\ ~value.heavy /\ u[2] \in value.fits
  /\ Restricted(value, media) => value.words = "bounded" /\ u[2] = "desired"

\* A verified report is one closed package, whatever the directory went through
\* meanwhile: its payloads are whole and as the index says, together within the
\* limit; the one Definition is what the FormRef digests; every fixture it names is
\* a listed payload of a stage it declares and fits or fails as it should; and a
\* payload with a bounded name serves the desired stage alone.
ReportClosed ==
  verdict = "verified" =>
    \A files \in {Range(call.index.files)}, definition \in {Definition} :
      /\ Cardinality(files) = Len(call.index.files)
      /\ \A f, g \in files : f.path = g.path => f = g
      /\ {f.path : f \in files} = DOMAIN call.bytes \ {Index}
      /\ \A f \in files :
           call.bytes[f.path] = <<f.digest, f.digest>> /\ Doc[f.digest].size = f.size
      /\ MapThenSumSet(LAMBDA f : Doc[f.digest].size, files) <= MaxPackage
      /\ \A f \in files : f.media = "definition" <=> f.path = call.index.definitionPath
      /\ call.bytes[call.index.definitionPath][1] = call.index.formRef.digest
      /\ \A u \in FixtureUses(definition) :
           \E f \in files : f.path = u[1] /\ UseHolds(u, Doc[f.digest], f.media, definition)
      /\ \A f \in files :
           Restricted(Doc[f.digest], f.media) => \E u \in FixtureUses(definition) : u[1] = f.path

\* What a read yields is whole, and what the path holds at the moment the read is
\* accepted (the file opened, in an fs.FS): no edit passes between the fences.
ReadsAreCurrent ==
  [][\A p \in DOMAIN call'.bytes \ DOMAIN call.bytes :
       LET f == IF VerifiesFS THEN call.handle ELSE tree[at][p]
       IN f # NoFile /\ call'.bytes[p] = <<file[f].content, file[f].content>>]_vars

\* At the return of VerifyDirectory the package's path still names the directory it
\* opened, in whose root each file listed is the very file that was found first and
\* read; and nothing else is there, if that was the directory at the path when the
\* walk read its entries (the walk goes by the path, and another directory may have
\* had it for a moment).
RootAsListed ==
  verdict = "verified" /\ ~VerifiesFS =>
    /\ at = call.held
    /\ \A p \in DOMAIN call.bytes : ~PathInfo[p].sub => tree[at][p] = call.inventory[p].id
    /\ call.listed = at => Present(FALSE) \subseteq DOMAIN call.bytes

\* What VerifyFS verified were the contents of one moment.
FilesCoexisted ==
  verdict = "verified" /\ VerifiesFS =>
    \A p \in DOMAIN call.bytes : p \in DOMAIN moment /\ call.bytes[p] = <<moment[p], moment[p]>>

\* A capability is returned only when nothing is left of the private directory, and
\* every other return has tried to remove it.
CapabilityAfterCleanup ==
  /\ verdict = "verified" => staging = "none"
  /\ verdict = "refused" => staging # "present" /\ call.bytes = Empty
=============================================================================
