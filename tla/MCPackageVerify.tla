--------------------------- MODULE MCPackageVerify ---------------------------
(* Small packages and edits of PackageVerify for TLC.                        *)
EXTENDS PackageVerify, TLC

Form == "form.json"
Fixture == "fixtures/a.json"
Negative == "fixtures/n.json"
Notes == "notes.md"
Script == "run.sh"

MCPathInfo ==
  Fixture :> [rank |-> 1, ok |-> TRUE, ext |-> ".json", sub |-> TRUE]
  @@ Negative :> [rank |-> 2, ok |-> TRUE, ext |-> ".json", sub |-> TRUE]
  @@ Form :> [rank |-> 3, ok |-> TRUE, ext |-> ".json", sub |-> FALSE]
  @@ Notes :> [rank |-> 4, ok |-> TRUE, ext |-> ".md", sub |-> FALSE]
  @@ Index :> [rank |-> 5, ok |-> TRUE, ext |-> ".json", sub |-> FALSE]
  @@ Script :> [rank |-> 6, ok |-> TRUE, ext |-> "executable", sub |-> FALSE]
MCPaths == DOMAIN MCPathInfo

-----------------------------------------------------------------------------
(* Contents.                                                                 *)

Value(words, fits) == [kind |-> "value", size |-> 1, words |-> words, fits |-> fits, heavy |-> FALSE]
Def(conformance, negative) ==
  [kind |-> "definition", size |-> 2, identity |-> "form-1", stages |-> {"desired", "observed"},
   conformance |-> conformance, negative |-> negative]
Use(stage, path) == <<stage :> path>>
Neg(stage, path) == <<[stage |-> stage, input |-> path]>>

Values ==
  "fit" :> Value("none", {"desired", "observed", "output"})
  @@ "unfit" :> Value("none", {})
  @@ "bounded" :> Value("bounded", {"desired", "observed"})
  @@ "worded" :> Value("forbidden", {"desired"})
  @@ "heavy" :> [Value("none", {"desired"}) EXCEPT !.heavy = TRUE]
  @@ "text" :> [kind |-> "text", size |-> 1] @@ "text2" :> [kind |-> "text", size |-> 1]
  @@ "junk" :> [kind |-> "junk", size |-> 1] @@ "large" :> [kind |-> "text", size |-> 4]
  @@ "longer" :> [kind |-> "text", size |-> 3]

Definitions ==
  "plain" :> Def(<<>>, <<>>) @@ "other" :> Def(<<>>, <<>>)
  @@ "stranger" :> [Def(<<>>, <<>>) EXCEPT !.identity = "form-2"]
  @@ "desired" :> Def(Use("desired", Fixture), <<>>)
  @@ "observed" :> Def(Use("observed", Fixture), <<>>)
  @@ "both" :> Def(<<[desired |-> Fixture, observed |-> Fixture]>>, <<>>)
  @@ "output" :> Def(Use("output", Fixture), <<>>)
  @@ "notes" :> Def(Use("desired", Notes), <<>>)
  @@ "negative" :> Def(Use("desired", Fixture), Neg("desired", Negative))
  @@ "negative observed" :> Def(Use("desired", Fixture), Neg("observed", Fixture))
  @@ "negative output" :> Def(<<>>, Neg("output", Negative))

Entry(path, media, digest) ==
  [path |-> path, media |-> media, digest |-> digest, size |-> (Values @@ Definitions)[digest].size]
FormEntry(definition) == Entry(Form, "definition", definition)
Indexed(files, definition) ==
  [kind |-> "index", size |-> 2, supported |-> TRUE, files |-> files, definitionPath |-> Form,
   formRef |-> [digest |-> definition, identity |-> "form-1"]]
Basic(definition, fixture) ==
  Indexed(<<Entry(Fixture, "json", fixture), FormEntry(definition)>>, definition)
WithNegative(definition, negative) ==
  Indexed(<<Entry(Fixture, "json", "fit"), Entry(Negative, "json", negative), FormEntry(definition)>>,
          definition)
WithNotes(notes) ==
  Indexed(<<FormEntry("plain"), Entry(Notes, "markdown", notes)>>, "plain")

Indices ==
  "index" :> Basic("desired", "fit") @@ "index notes" :> WithNotes("text")
  @@ "index other" :> Indexed(<<FormEntry("plain"), Entry(Notes, "markdown", "text")>>, "other")
  @@ "index larger" :> WithNotes("longer") @@ "index too large" :> WithNotes("large")
  @@ "index unsupported" :> [Basic("desired", "fit") EXCEPT !.supported = FALSE]
  @@ "index itself" :>
       Indexed(<<FormEntry("plain"), [Entry(Index, "json", "fit") EXCEPT !.size = 2]>>, "plain")
  @@ "index twice" :> Indexed(<<FormEntry("plain"), FormEntry("plain")>>, "plain")
  @@ "index unsorted" :> Indexed(<<FormEntry("desired"), Entry(Fixture, "json", "fit")>>, "desired")
  @@ "index media" :> Indexed(<<Entry(Fixture, "plain", "fit"), FormEntry("desired")>>, "desired")
  @@ "index two" :> Indexed(<<Entry(Fixture, "definition", "plain"), FormEntry("plain")>>, "plain")
  @@ "index none" :> Indexed(<<Entry(Form, "json", "plain")>>, "plain")
  @@ "index path" :> [Basic("desired", "fit") EXCEPT !.definitionPath = Fixture]
  @@ "index ref" :> [Basic("desired", "fit") EXCEPT !.formRef.identity = "form-2"]
  @@ "index stranger" :> Basic("stranger", "fit")
  @@ "index many" :>
       Indexed(<<Entry(Fixture, "json", "fit"), Entry(Negative, "json", "fit"), FormEntry("plain"),
                 Entry(Notes, "markdown", "text")>>, "plain")
  @@ "index observed" :> Basic("observed", "bounded") @@ "index both" :> Basic("both", "bounded")
  @@ "index bounded" :> Basic("desired", "bounded") @@ "index worded" :> Basic("desired", "worded")
  @@ "index unused" :> Basic("plain", "bounded") @@ "index output" :> Basic("output", "fit")
  @@ "index unfit" :> Basic("desired", "unfit") @@ "index heavy" :> Basic("desired", "heavy")
  @@ "index text" :> Basic("desired", "text")
  @@ "index fixture notes" :> Indexed(<<FormEntry("notes"), Entry(Notes, "markdown", "text")>>, "notes")
  @@ "index unlisted" :> Indexed(<<FormEntry("desired")>>, "desired")
  @@ "index negative" :> WithNegative("negative", "unfit")
  @@ "index positive" :> WithNegative("negative", "fit")
  @@ "index negative heavy" :> WithNegative("negative", "heavy")
  @@ "index negative observed" :> Basic("negative observed", "fit")
  @@ "index negative output" :> WithNegative("negative output", "unfit")

MCDoc == Values @@ Definitions @@ Indices
MCContents == DOMAIN MCDoc

-----------------------------------------------------------------------------
(* Packages: the directory an index describes, and what can be wrong with it. *)

Directory(index) ==
  [p \in ListedPaths(MCDoc[index]) \cup {Index} |->
     IF p = Index THEN index ELSE (CHOOSE f \in Range(MCDoc[index].files) : f.path = p).digest]
Odd == {
  Directory("index") @@ Notes :> "text", Directory("index") @@ Script :> "text",
  Fixture :> "fit" @@ Form :> "desired", Directory("index notes") @@ Negative :> "fit",
  Index :> "index" @@ Form :> "desired", Index :> "junk" @@ Form :> "plain",
  Index :> "large" @@ Form :> "plain",
  Index :> "index" @@ Form :> "desired" @@ Fixture :> "unfit",
  Index :> "index" @@ Form :> "desired" @@ Fixture :> "text",
  Index :> "index" @@ Form :> "other" @@ Fixture :> "fit"}
MCPackages == {Directory(i) : i \in DOMAIN Indices} \cup Odd
\* Beside a package with a file too many is one without it.
Surplus == Directory("index") @@ Notes :> "text"
MCBeside == [p \in MCPackages |-> IF p = Surplus THEN Directory("index") ELSE <<>>]
MCEdits ==
  [p \in MCPackages |->
    IF p \in {Directory("index"), Directory("index notes"), Surplus} THEN 2 ELSE 0]

MCRewrites ==
  [p \in MCPaths |->
     CASE p = Index -> {"index other", "index larger"}
       [] p = Form -> {"other"}
       [] p = Notes -> {"text2", "longer"}
       [] p = Fixture -> {"fit", "unfit"}
       [] OTHER -> {}]
=============================================================================
