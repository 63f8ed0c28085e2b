---------------------------- MODULE MCBatchPath ----------------------------
(***************************************************************************)
(* Datasets of each kind with small images, for model checking BatchPath.  *)
(***************************************************************************)
EXTENDS BatchInvariants

CONSTANT Kinds \* the kinds of datasets to stream, and "probed" for the overrun

MCDtypeCells == [dt \in {"f32", "u8", "f16", "i64"} |-> IF dt = "i64" THEN 2 ELSE 1]

Img(id, h, w) == [id |-> id, h |-> h, w |-> w, damage |-> "none"]

NoData == [kind |-> "", files |-> << >>, archive |-> << >>, names |-> << >>, cap |-> 0, augmented |-> FALSE,
           pipe |-> << >>, dt |-> "f32", layouts |-> << >>, scripts |-> << >>, goesOn |-> FALSE, probe |-> 0]

\* Pipelines as their `then` calls build them.
Built(steps) ==
  LET after[k \in 0 .. Len(steps)] ==
        IF k = 0 THEN << << >> >> ELSE IF after[k - 1] = << >> THEN << >> ELSE Then(after[k - 1][1], steps[k])
  IN  after[Len(steps)]

Flip(p) == CHOOSE s \in Flips : s.arg = p
Norm == CHOOSE s \in Normalizes({3}, {3}) : TRUE
Jitter(k) == CHOOSE s \in Jitters : s.arg = k

Steps == {
  << >>,
  << Flip(1), Norm >>,
  << RandomCrop(1, 2), Flip(2), Jitter(0) >>,
  << Resize(2, 2), RandomCrop(1, 2), Norm >>,
  << Resize(1, 2), Resize(2, 1), Resize(2, 1), Flip(0) >>,
  << Resize(2, 2), Resize(3, 1) >>,
  << Resize(2, 1), Norm, RandomCrop(1, 1), Flip(1) >> }

Pipes == UNION { { Built(s)[k] : k \in DOMAIN Built(s) } : s \in Steps }

Sizes == << Img(1, 1, 2), Img(2, 2, 1), Img(3, 2, 2) >>

\* The folder of these images, and a file that is none.
FilesOf(images) ==
  << File(NoImage, FALSE, 5, TRUE) >> \o [k \in DOMAIN images |-> File(images[k], TRUE, images[k].id, FALSE)]

Unopenable == {
  << File(NoImage, FALSE, 1, FALSE), File(Sizes[1], TRUE, NoLabel, FALSE) >>,
  << File(Sizes[1], TRUE, 1, TRUE), File(NoImage, TRUE, 1, FALSE) >>,
  << File(Sizes[1], TRUE, 1, FALSE), File(NoImage, TRUE, 1, FALSE) >> }

Folders ==
  { [NoData EXCEPT !.kind = "folder", !.files = fs, !.probe = 1] : fs \in Unopenable } \union
  { [NoData EXCEPT !.kind = "folder", !.files = FilesOf(Sizes), !.probe = 3] } \union
  { [NoData EXCEPT !.kind = "folder", !.files = FilesOf(Sizes), !.probe = 3, !.augmented = TRUE, !.pipe = p] : p \in Pipes } \union
  { [NoData EXCEPT !.kind = "folder", !.files = FilesOf([Sizes EXCEPT ![2].damage = "body"]), !.probe = 3, !.dt = "u8",
                   !.augmented = TRUE, !.pipe = << Resize(2, 2), Norm >>],
    [NoData EXCEPT !.kind = "folder", !.files = FilesOf(Sizes), !.probe = 3, !.dt = "f16", !.augmented = TRUE,
                   !.pipe = << Resize(1, 2) >>] }

FileEntry(name, img)  == << HeaderBlock(name, "0", 1), DataBlock("", img) >>
In(prefix, name, img) == << FieldsBlock(name, prefix, "0", 1, FALSE), DataBlock("", img) >>
Entry(name)      == << HeaderBlock(name, "other", 0) >>
Long(name)       == << HeaderBlock("long", "L", 1), DataBlock(name, NoImage) >>

WholeArchive ==
  FileEntry("a", Sizes[1]) \o Long("b") \o FileEntry("cut", Sizes[3]) \o Entry("dir") \o In("dir", "c", Sizes[2]) \o << EndBlock >>

Archives == {
  WholeArchive,
  FileEntry("a", Sizes[1]) \o Long("dir") \o Entry("cut") \o FileEntry("b", Sizes[3]) \o << EndBlock >>,
  In(NotUtf8, "c", Sizes[2]) \o << HeaderBlock("b", "nul", 0) >> \o FileEntry("b", Sizes[3]) \o << HeaderBlock("c", "0", NotOctal) >>,
  FileEntry("a", Sizes[1]) \o Long(NotUtf8) \o << HeaderBlock(NotUtf8, "0", 1), DataBlock("", Sizes[2]) >> \o << EndBlock >>,
  FileEntry("b", Sizes[3]) \o FileEntry("a", Sizes[1]) \o << HeaderBlock("c", "0", 1) >>,
  FileEntry("b", Sizes[3]) \o << FieldsBlock("a", "", "0", 1, TRUE), DataBlock("", Sizes[1]), EndBlock >> }

TarOf(archive, pipe) ==
  [NoData EXCEPT !.kind = "tar", !.archive = archive, !.names = << << "", "a" >>, << "dir", "c" >>, << "", "b" >> >>, !.cap = 2,
                 !.augmented = pipe # << >>, !.pipe = pipe]

Tars ==
  { TarOf(a, << >>) : a \in Archives } \union
  { TarOf(WholeArchive, p) : p \in { << Resize(2, 2), RandomCrop(1, 2), Norm >>, << Jitter(1) >>, << Jitter(2), Jitter(3) >> } } \union
  { [TarOf(FileEntry("a", Sizes[1]) \o << EndBlock >>, << >>) EXCEPT !.probe = 2] }

Writes(key, n, says) == [key |-> key, cells |-> n, says |-> says, err |-> "none"]

TwoTensors == << Layout("mask", << 2, 2 >>, << 2, 1 >>, "u8"), Layout("label", << >>, << >>, "i64") >>

Scripts == {
  << << Writes("mask", 4, 4), Writes("label", 2, 2) >>, << Writes("mask", 1, 1), Writes("label", 2, 2) >>, << Writes("mask", 3, 3), Writes("label", 2, 2) >> >>,
  << << Writes("mask", 4, 4), Writes("label", 2, 2) >>, << Writes("mask", 4, 4) >>, << Writes("label", 2, 5), Writes("mask", 4, 4), Writes("label", 2, 2) >> >>,
  << << Writes("label", 2, 2), Writes("mask", 2, 2), Writes("mask", 4, 4) >>, << Writes("other", 1, 1) >>,
     << [Writes("mask", 2, 2) EXCEPT !.err = "Custom"], Writes("mask", 4, 4), Writes("label", 2, 2) >> >> }

Customs ==
  { [NoData EXCEPT !.kind = "custom", !.layouts = TwoTensors, !.scripts = s, !.goesOn = g, !.probe = 3] :
      s \in Scripts, g \in BOOLEAN } \union
  { [NoData EXCEPT !.kind = "custom", !.layouts = << Layout("mask", << 2, 2 >>, << 1 >>, "u8") >>,
                   !.scripts = << << Writes("mask", 4, 4) >>, << >>, << >> >>, !.probe = 3],
    [NoData EXCEPT !.kind = "custom", !.layouts = << Layout("mask", << 0 >>, << 1 >>, "u8") >>,
                   !.scripts = << << >>, << >>, << >> >>, !.probe = 0] }

\* A folder of which one image was probed.
Probed == { [NoData EXCEPT !.kind = "folder", !.files = FilesOf(<< Img(1, 1, 1), Img(2, 3, 3) >>), !.probe = 1] }

MCDatasets ==
  (IF "folder" \in Kinds THEN Folders ELSE {}) \union (IF "tar" \in Kinds THEN Tars ELSE {}) \union
  (IF "custom" \in Kinds THEN Customs ELSE {}) \union (IF "probed" \in Kinds THEN Probed ELSE {})

MCBatches == { << 1, 2 >>, << 3, 1 >>, << 2 >> }
=============================================================================
