------------------------------ MODULE Streams -------------------------------
(***************************************************************************)
(* Stream configuration: /api/stream-configs and /api/mediamtx/config-file *)
(* edit mediamtx.yml as text (internal/mediamtx/config_file.go), so that   *)
(* comments and unrelated settings survive. Every edit reads, changes and  *)
(* replaces the file under ConfigFile.mu; a rename (ApplySource with an    *)
(* existing name) is two such edits, or three when the second one fails.   *)
(*                                                                         *)
(* The file is a sequence of lines. What the editor tells apart is kept:   *)
(* the indentation class, whether a line is a key, and whose.              *)
(***************************************************************************)
EXTENDS Naturals, Sequences, SequencesExt

CONSTANTS
  Names,        \* path names that match managedPathNamePattern
  AllOthers,    \* the name "all_others"
  Sources,      \* the cameras of the catalog: type, and input or None
  HandFiles,    \* files an operator writes in the editor
  Requests,     \* POST and PATCH requests in progress at the same time
  None,         \* no name, no value
  MaxRequests,  \* bound: requests and saves in a behaviour
  MaxFaults     \* bound: failed writes and crashes in a behaviour

\* A line: a key or comment at column 0 ("top", "paths", "note"), a comment or
\* key of the paths mapping ("note", "mark", "path"), a deeper line ("opt"). A
\* line that is deeper in another section is a "note": nobody looks at it.
\* Two kinds are only found in untidy files: "odd", a path whose key has a comment
\* behind its colon, and "cut" at the very end, where the last line has no newline.
Line(kind, arg) == [kind |-> kind, arg |-> arg]
LineKinds == {"top", "paths", "note", "mark", "path", "opt", "blank"}

VARIABLES
  file,      \* mediamtx.yml
  bak,       \* mediamtx.yml.bak, or <<>>
  reqs,      \* the requests
  started,   \* requests and saves so far
  faults     \* failed writes and crashes so far

vars == <<file, bak, reqs, started, faults>>

\* had is history: whether the new name had an entry before SetPath.
NoRequest == [pc |-> "idle", new |-> None, old |-> None, update |-> <<>>, had |-> FALSE]

\* The options of a path that is fed from a camera; <<>> when the source is
\* refused. Only the input differs from camera to camera.
mediaMTXUpdate(source) ==
  IF source.input = None THEN <<>>
  ELSE CASE source.type = "ip"     -> <<source.input, "sourceOnDemand">>
         [] source.type = "analog" -> <<"publisher", source.input, "runOnDemandRestart",
                                        "runOnDemandStartTimeout", "runOnDemandCloseAfter">>

Updates == {mediaMTXUpdate(s) : s \in Sources} \ {<<>>}

-----------------------------------------------------------------------------
(* The text operations of config_file.go.                                   *)

\* The first index in a..b whose line satisfies T, b + 1 when there is none.
First(lines, a, b, T(_)) ==
  CHOOSE i \in a .. b + 1 :
    /\ i = b + 1 \/ T(lines[i])
    /\ \A j \in a .. i - 1 : ~ T(lines[j])

\* pathsSection: the index of the line "paths:" and of the last line before the
\* next top-level key. Files without exactly one such line are refused.
pathsStart(lines) == CHOOSE i \in DOMAIN lines : lines[i].kind = "paths"
pathsEnd(lines) ==
  First(lines, pathsStart(lines) + 1, Len(lines), LAMBDA l : l.kind \in {"top", "paths"}) - 1

\* validateConfigText: one paths section, which is a mapping and well nested:
\* when its first key is a path, at two columns, whatever is deeper belongs to a
\* path; otherwise all of its keys are deeper. Empty lines and comments may stand
\* anywhere, and keys that appear twice are not refused.
PathKeys == {"path", "odd"}
validateConfigText(lines) ==
  /\ \E i \in DOMAIN lines : lines[i].kind = "paths"
  /\ \A i \in DOMAIN lines : lines[i].kind = "paths" => i = pathsStart(lines)
  /\ LET section == pathsStart(lines) + 1 .. pathsEnd(lines)
         isPath(i) == lines[i].kind \in PathKeys
     IN  /\ \E i \in section : isPath(i) \/ lines[i].kind = "opt"
         /\ \A i \in section : lines[i].kind = "opt" =>
              \/ \E j \in pathsStart(lines) + 1 .. i : isPath(j)
              \/ \A j \in section : ~ isPath(j)

\* The line is the key name, at whatever depth.
IsKey(line, name) == line.kind \in {"path", "opt"} /\ line.arg = name

found(lines, name) ==
  \E i \in pathsStart(lines) + 1 .. pathsEnd(lines) : IsKey(lines[i], name)

\* Mutated form: a block only ends at an empty line or at column 0.
removePathBlock_Greedy(lines, name) ==
  LET index == First(lines, pathsStart(lines) + 1, pathsEnd(lines), LAMBDA l : IsKey(l, name))
      after == First(lines, index + 1, pathsEnd(lines), LAMBDA l : l.kind \in {"blank", "note"})
  IN  IF ~ found(lines, name) THEN lines
      ELSE SubSeq(lines, 1, index - 1) \o SubSeq(lines, after, Len(lines))

\* Mutated form: the comment above the block is left behind.
removePathBlock_KeepMark(lines, name) ==
  LET index == First(lines, pathsStart(lines) + 1, pathsEnd(lines), LAMBDA l : IsKey(l, name))
      after == First(lines, index + 1, pathsEnd(lines), LAMBDA l : l.kind \notin {"opt", "cut"})
  IN  IF ~ found(lines, name) THEN lines
      ELSE SubSeq(lines, 1, index - 1) \o SubSeq(lines, after, Len(lines))

\* The key, the deeper lines below it up to an empty line or a comment, and the
\* comment that marks the block as managed when it stands right above. The line
\* that is left last has a newline.
removePathBlock(lines, name) ==
  LET index == First(lines, pathsStart(lines) + 1, pathsEnd(lines), LAMBDA l : IsKey(l, name))
      begin == IF lines[index - 1] = Line("mark", name) THEN index - 1 ELSE index
      after == First(lines, index + 1, pathsEnd(lines), LAMBDA l : l.kind \notin {"opt", "cut"})
  IN  IF ~ found(lines, name) THEN lines
      ELSE SubSeq(lines, 1, begin - 1) \o SubSeq(lines, after, Len(lines))

OptionLines(update) == [i \in DOMAIN update |-> Line("opt", update[i])]

renderPathBlock(name, update) ==
  <<Line("mark", name), Line("path", name)>> \o OptionLines(update)

\* Before all_others, or at the end of the section.
insertIndex(lines) ==
  First(lines, pathsStart(lines) + 1, pathsEnd(lines),
        LAMBDA l : l.kind \in PathKeys /\ l.arg = AllOthers)

InsertBlock(lines, block) ==
  SubSeq(lines, 1, insertIndex(lines) - 1) \o block \o SubSeq(lines, insertIndex(lines), Len(lines))

\* The block would follow a line that has no newline.
NoNewline(lines) == insertIndex(lines) = Len(lines) + 1 /\ Last(lines).kind = "cut"

\* What becomes of a last line without newline when the marker is written behind
\* it: its key is not found any more, and spaces alone turn into the marker.
Glued(line, name) ==
  CASE line.kind = "path" -> Line("odd", line.arg)
    [] line.kind = "opt" /\ line.arg \in Names -> Line("opt", None)
    [] line.kind = "mark" -> Line("note", None)
    [] line.kind = "blank" -> Line("mark", name)
    [] OTHER -> line

\* Mutated form: the block that was there is not removed.
replacePathBlock_Twice(lines, name, update) == InsertBlock(lines, renderPathBlock(name, update))

\* The old block goes, the new one is put before all_others or at the end; there
\* the missing newline is only added for a path that was not in the file.
replacePathBlock(lines, name, update) ==
  LET without == removePathBlock(lines, name)
      block   == renderPathBlock(name, update)
      last    == Len(without) - 1
  IN  IF ~ NoNewline(without) THEN InsertBlock(without, block)
      ELSE IF ~ found(lines, name) THEN SubSeq(without, 1, last) \o block
      ELSE SubSeq(without, 1, last - 1) \o <<Glued(without[last], name)>> \o Tail(block)

-----------------------------------------------------------------------------
(* Tidy files.                                                              *)

\* Whatever a line of a file may name.
Args == Names \cup {None} \cup UNION {ToSet(u) : u \in Updates}
          \cup UNION {{f[i].arg : i \in DOMAIN f} : f \in HandFiles}
Lines == [kind : LineKinds, arg : Args]

NoPathTwice(lines) ==
  \A i \in DOMAIN lines : lines[i].kind = "path" => \A j \in 1 .. i - 1 : lines[j] # lines[i]

\* One section of paths, which holds the paths; deeper lines follow their path
\* without an empty line or a comment between, none of them is a bare key with the
\* name of a path, every path key ends with its colon, every line with a newline,
\* and no path is there twice. The section may be empty.
WellFormed(lines) ==
  /\ lines \in Seq(Lines)
  /\ \E s \in DOMAIN lines :
       /\ lines[s].kind = "paths"
       /\ \A i \in DOMAIN lines : lines[i].kind = "paths" => i = s
  /\ LET section == pathsStart(lines) + 1 .. pathsEnd(lines)
     IN  \A i \in DOMAIN lines : lines[i].kind \in {"path", "opt"} => i \in section
  /\ \A i \in DOMAIN lines :
       lines[i].kind = "opt" =>
         /\ lines[i].arg \notin Names
         /\ lines[i - 1].kind \in {"path", "opt"}
  /\ NoPathTwice(lines)

\* The operator's files are whatever ConfigFile.Write accepts, tidy or not; an
\* option the service renders has a value, so that it is never a bare key.
ASSUME StreamsAssumption ==
  /\ \A f \in HandFiles : validateConfigText(f)
  /\ \A s \in Sources : s.type \in {"ip", "analog"}
  /\ \A u \in Updates : ToSet(u) \cap Names = {}
  /\ AllOthers \in Names

-----------------------------------------------------------------------------

Init ==
  /\ file \in HandFiles
  /\ bak = <<>>
  /\ reqs = [r \in Requests |-> NoRequest]
  /\ started = 0
  /\ faults = 0

Begin == started < MaxRequests /\ started' = started + 1
Fault == faults < MaxFaults /\ faults' = faults + 1

\* backupConfigFile and the replacement of the file, each by a rename.
writeConfigFile(next) == bak' = file /\ file' = next /\ UNCHANGED faults

\* Either of the two fails, before or after the backup has been replaced.
WriteFails == Fault /\ bak' \in {bak, file} /\ UNCHANGED file

\* streamConfigsHandler, POST (old is None) and PATCH: the source is resolved
\* and turned into options; a request that fails in this changes nothing.
Apply(r, new, old, source) ==
  /\ reqs[r] = NoRequest
  /\ Begin
  /\ mediaMTXUpdate(source) # <<>>
  /\ reqs' = [reqs EXCEPT ![r] = [pc |-> "set", new |-> new, old |-> old,
                                   update |-> mediaMTXUpdate(source), had |-> FALSE]]
  /\ UNCHANGED <<file, bak, faults>>

\* SetPath for the new name; a rename goes on to the old one.
SetPath(r) ==
  /\ reqs[r].pc = "set"
  /\ \/ /\ writeConfigFile(replacePathBlock(file, reqs[r].new, reqs[r].update))
        /\ reqs' = [reqs EXCEPT ![r] =
                      IF @.old \in {None, @.new} THEN NoRequest
                      ELSE [@ EXCEPT !.pc = "delete", !.had = found(file, reqs[r].new)]]
     \/ WriteFails /\ reqs' = [reqs EXCEPT ![r] = NoRequest]
  /\ UNCHANGED started

\* DeletePath of the old name: it may be gone, or the write may fail.
DeleteOld(r) ==
  /\ reqs[r].pc = "delete"
  /\ \/ /\ found(file, reqs[r].old)
        /\ writeConfigFile(removePathBlock(file, reqs[r].old))
        /\ reqs' = [reqs EXCEPT ![r] = NoRequest]
     \/ /\ \/ ~ found(file, reqs[r].old) /\ UNCHANGED <<file, bak, faults>>
           \/ WriteFails
        /\ reqs' = [reqs EXCEPT ![r].pc = "undo"]
  /\ UNCHANGED started

\* The new name is deleted again, whatever it was before; errors are ignored.
UndoNew(r) ==
  /\ reqs[r].pc = "undo"
  /\ reqs' = [reqs EXCEPT ![r] = NoRequest]
  /\ \/ /\ found(file, reqs[r].new)
        /\ writeConfigFile(removePathBlock(file, reqs[r].new))
     \/ ~ found(file, reqs[r].new) /\ UNCHANGED <<file, bak, faults>>
     \/ WriteFails
  /\ UNCHANGED started

\* DeleteConfig: an unknown name and a failed write are errors.
DeleteConfig(n) ==
  /\ Begin
  /\ \/ found(file, n) /\ writeConfigFile(removePathBlock(file, n))
     \/ WriteFails
  /\ UNCHANGED reqs

\* ConfigFile.Write: the operator saves the whole file.
Write(lines) ==
  /\ Begin
  /\ validateConfigText(lines)
  /\ writeConfigFile(lines) \/ WriteFails
  /\ UNCHANGED reqs

\* mediaMTXConfigFileHandler, PUT: whatever the operator sends that is valid.
PutConfigFile == \E lines \in HandFiles : Write(lines)

\* The service stops between two edits of a request.
Crash ==
  /\ \E r \in Requests : reqs[r] # NoRequest
  /\ Fault
  /\ reqs' = [r \in Requests |-> NoRequest]
  /\ UNCHANGED <<file, bak, started>>

Next ==
  \/ \E r \in Requests :
       \/ SetPath(r) \/ DeleteOld(r) \/ UndoNew(r)
       \/ \E new \in Names, old \in Names \cup {None}, source \in Sources :
            Apply(r, new, old, source)
  \/ \E n \in Names : DeleteConfig(n)
  \/ PutConfigFile
  \/ Crash

Spec == Init /\ [][Next]_vars

-----------------------------------------------------------------------------
(* What a file means, read line by line and without the editor's search.    *)

PathNames(lines) == {l.arg : l \in {k \in ToSet(lines) : k.kind = "path"}}

\* The lines of these kinds, in their order.
OfKinds(lines, kinds) ==
  LET among[i \in 0 .. Len(lines)] ==
        IF i = 0 THEN <<>>
        ELSE IF lines[i].kind \in kinds THEN Append(among[i - 1], lines[i])
        ELSE among[i - 1]
  IN  among[Len(lines)]

\* The options of every path: the deeper lines up to the next key.
Table(lines) ==
  [n \in PathNames(lines) |->
     LET key  == CHOOSE i \in DOMAIN lines : lines[i] = Line("path", n)
         next == First(lines, key + 1, Len(lines), LAMBDA l : l.kind = "path")
     IN  OfKinds(SubSeq(lines, key, next - 1), {"opt"})]

\* Everything that is not an entry: settings, comments, empty lines.
RestKinds == LineKinds \ {"path", "opt", "mark"}
Rest(lines) == OfKinds(lines, RestKinds)

\* What the options of an update become, and what an operator may save.
Rendered == [u \in Updates |-> OptionLines(u)]
Saved    == {<<Table(f), Rest(f), WellFormed(f)>> : f \in HandFiles}

Promise == INSTANCE StreamTable
             WITH Options <- Rendered, Manual <- Saved, jobs <- reqs,
                  table <- Table(file), rest <- Rest(file), tidy <- WellFormed(file)

\* On a tidy file the edits of the text are edits of the table, and the file stays
\* tidy: a request changes the entries it names, in its order, and preamble,
\* comments and the other entries stay as they are, also when requests overlap,
\* fail half way or the service stops between two edits.
Implements == Promise!TableSpec

\* An edit of a tidy file, which SetPath and DeletePath do not validate, leaves a
\* tidy file that a manual save would accept. (The last entry may be deleted: the
\* section that is left empty is refused by a manual save.)
StaysValid ==
  [][WellFormed(file) =>
       \/ file' \in HandFiles
       \/ WellFormed(file') /\ (PathNames(file') # {} => validateConfigText(file'))]_vars

\* In a tidy file, a path that is added and deleted again leaves the file exactly
\* as it was: a failed rename to a free name is undone without a trace.
UndoIsExact ==
  WellFormed(file) =>
    \A n \in Names \ PathNames(file), u \in Updates :
      removePathBlock(replacePathBlock(file, n, u), n) = file

-----------------------------------------------------------------------------
(* What the documents say without exception, and the code does not do.      *)

\* FR-4 and AC-2 of docs/production-spec.md for every file the editor accepts:
\* an edit changes one entry and preserves comments and unrelated entries.
Strict == INSTANCE StreamTable
            WITH Options <- Rendered, Manual <- {<<s[1], s[2], TRUE>> : s \in Saved}, jobs <- reqs,
                 table <- Table(file), rest <- Rest(file), tidy <- TRUE

=============================================================================
