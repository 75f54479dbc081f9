----------------------------- MODULE Generator ------------------------------
(***************************************************************************)
(* The code generator of refl-cpp: it parses the translation units it is   *)
(* given, records every marked class definition it visits, sorts the       *)
(* records into output files by the name of their source file and writes   *)
(* these files.  It can be run again; what it wrote stays.                 *)
(*                                                                         *)
(* A translation unit is the sequence of class declarations a traversal    *)
(* meets in it, those of the headers it includes among them.  Strings are  *)
(* abstract: a path, the file name of a path and the output name made of a *)
(* file name are different values related by constant functions.           *)
(*                                                                         *)
(* Operators with an underscore in their name are faulty variants of the   *)
(* operator of that name, used to see that the properties notice the fault.*)
(***************************************************************************)
EXTENDS Naturals, Sequences, FiniteSets

CONSTANTS
  Classes,     (* qualified names of classes                               *)
  Paths,       (* the files classes are defined in                         *)
  NoPath,      (* the empty path clang gives for a name made by a macro    *)
  Projects,    (* the sequences of translation units to parse              *)
  FileName,    (* FileName[p]: the last component of a path                *)
  OutputName,  (* OutputName[f]: a file name with its extension replaced   *)
  Sorted,      (* the output names in the order of std::map                *)
  OutputDir,   (* the directory given with -o                              *)
  PercentS     (* the name "%s"                                            *)

Declarations == [class : Classes, complete : BOOLEAN, marked : BOOLEAN,
                 path : Paths \cup {NoPath}]

OutputNames == {Sorted[i] : i \in 1 .. Len(Sorted)}

ASSUME ProjectsAssumption == Projects \subseteq Seq(Seq(Declarations))
ASSUME NamesAssumption ==
  /\ NoPath \notin Paths
  /\ DOMAIN FileName = Paths
  /\ \A p \in Paths : OutputName[FileName[p]] \in OutputNames
  /\ Sorted \in Seq(OutputNames)
  /\ \A i, j \in 1 .. Len(Sorted) : Sorted[i] = Sorted[j] => i = j

VARIABLES
  project,     (* the translation units left to parse                      *)
  unit,        (* what is left of the one being traversed                  *)
  parsed,      (* what was got out of the units; kept for the properties   *)
  pc,          (* parse, group, write, done or crashed                     *)
  data,        (* G_ReflectData                                            *)
  next,        (* the next element of the loop of GenerateReflectionCode   *)
  groups,      (* file_to_types: positions in data for each output name    *)
  dirs,        (* the directories that exist                               *)
  files,       (* what is in the files, by directory and name              *)
  before       (* files when this run began; kept for the properties       *)

vars == <<project, unit, parsed, pc, data, next, groups, dirs, files, before>>

Ungrouped == [o \in OutputNames |-> <<>>]

-----------------------------------------------------------------------------
(* Parsing. *)

(* "%s" exists only if somebody made it. *)
Init ==
  /\ project \in Projects
  /\ unit = <<>> /\ parsed = <<>>
  /\ pc = "parse"
  /\ data = <<>>
  /\ next = 1
  /\ groups = Ungrouped
  /\ dirs \in {{}, {PercentS}}
  /\ files = <<>> /\ before = <<>>

(* ClangTool::run takes the next unit.  A unit with errors yields what     *)
(* stands before them (all, some or none of its declarations); main does   *)
(* not act on the error.                                                   *)
ParseUnit ==
  /\ pc = "parse" /\ unit = <<>> /\ project # <<>>
  /\ project' = Tail(project)
  /\ \E n \in 0 .. Len(Head(project)) : unit' = SubSeq(Head(project), 1, n)
  /\ parsed' = Append(parsed, unit')
  /\ UNCHANGED <<pc, data, next, groups, dirs, files, before>>

Marked_Declared(decl) == decl.marked
Marked(decl) == decl.complete /\ decl.marked

(* The traversal goes on after every declaration. *)
Remaining_FromUnmarked == IF Marked(Head(unit)) THEN Tail(unit) ELSE unit
Remaining == Tail(unit)

(* VisitCXXRecordDecl. *)
Visit ==
  /\ pc = "parse" /\ unit # <<>>
  /\ unit' = Remaining
  /\ data' = IF Marked(Head(unit))
             THEN Append(data, [class |-> Head(unit).class, path |-> Head(unit).path])
             ELSE data
  /\ UNCHANGED <<project, parsed, pc, next, groups, dirs, files, before>>

(* All units are done: create_directories(output_dir), which throws when   *)
(* the directory cannot be made; nobody catches it.                        *)
StartGenerating ==
  /\ pc = "parse" /\ unit = <<>> /\ project = <<>>
  /\ \/ pc' = "group" /\ dirs' = dirs \cup {OutputDir}
     \/ pc' = "crashed" /\ OutputDir \notin dirs /\ UNCHANGED dirs
  /\ UNCHANGED <<project, unit, parsed, data, next, groups, files, before>>

-----------------------------------------------------------------------------
(* Sorting the records into output files. *)

OutputOf(record) == OutputName[FileName[record.path]]

Added_InFront(group)  == <<next>> \o group
Added_FromZero(group) == Append(group, next - 1)
Added(group)          == Append(group, next)

(* A record without a source file is passed over. *)
Group ==
  /\ pc = "group" /\ next <= Len(data)
  /\ next' = next + 1
  /\ groups' = IF data[next].path = NoPath
               THEN groups
               ELSE [groups EXCEPT ![OutputOf(data[next])] = Added(@)]
  /\ UNCHANGED <<project, unit, parsed, pc, data, dirs, files, before>>

StartWriting ==
  /\ pc = "group" /\ next > Len(data)
  /\ pc' = "write"
  /\ next' = 1
  /\ UNCHANGED <<project, unit, parsed, data, groups, dirs, files, before>>

-----------------------------------------------------------------------------
(* Writing. *)

(* The keys of file_to_types, by their places in the order, and those to   *)
(* write from `next` on.                                                   *)
Keys == {k \in 1 .. Len(Sorted) : groups[Sorted[k]] # <<>>}
Left == {k \in Keys : k >= next}
First(keys) == CHOOSE k \in keys : \A j \in keys : k <= j

(* One include and one definition for each record of the group. *)
Content(group) ==
  [includes |-> [i \in DOMAIN group |-> FileName[data[group[i]].path]],
   defines  |-> [i \in DOMAIN group |-> data[group[i]].class]]

(* std::format("%s/%s", output_dir, filename): the format has no {}, so    *)
(* neither argument is used.                                               *)
OutputPath(dir, name) == [dir |-> PercentS, name |-> PercentS]

Written(path, content) ==
  [p \in DOMAIN files \cup {path} |-> IF p = path THEN content ELSE files[p]]

(* An ofstream truncates what is there.  In a directory that does not      *)
(* exist it does not open; everything written to it is lost.               *)
Opens_Unwritten(path) == path.dir \in dirs /\ path \notin DOMAIN files
Opens(path)           == path.dir \in dirs

WriteFile ==
  /\ pc = "write" /\ Left # {}
  /\ next' = First(Left) + 1
  /\ LET name == Sorted[First(Left)]
         path == OutputPath(OutputDir, name) IN
       files' = IF Opens(path) THEN Written(path, Content(groups[name])) ELSE files
  /\ UNCHANGED <<project, unit, parsed, pc, data, groups, dirs, before>>

Exit ==
  /\ pc = "write" /\ Left = {}
  /\ pc' = "done"
  /\ UNCHANGED <<project, unit, parsed, data, next, groups, dirs, files, before>>

Over == pc \in {"done", "crashed"}

(* A later build runs the generator on what the project has become. *)
RunAgain ==
  /\ Over
  /\ project' \in Projects
  /\ unit' = <<>> /\ parsed' = <<>>
  /\ pc' = "parse"
  /\ data' = <<>>
  /\ next' = 1
  /\ groups' = Ungrouped
  /\ before' = files
  /\ UNCHANGED <<dirs, files>>

Step == ParseUnit \/ Visit \/ StartGenerating \/ Group \/ StartWriting \/ WriteFile \/ Exit

Next == Step \/ RunAgain

Spec == Init /\ [][Next]_vars

FairSpec == Spec /\ WF_vars(Step)

-----------------------------------------------------------------------------
(* Properties. *)

TypeOK ==
  /\ project \in Seq(Seq(Declarations)) /\ parsed \in Seq(Seq(Declarations))
  /\ unit \in Seq(Declarations)
  /\ pc \in {"parse", "group", "write", "done", "crashed"}
  /\ data \in Seq([class : Classes, path : Paths \cup {NoPath}])
  /\ next \in 1 .. Len(data) + Len(Sorted) + 1
  /\ groups \in [OutputNames -> Seq(1 .. Len(data))]
  /\ dirs \subseteq {OutputDir, PercentS}

(* The loop over the records sorts as filtering would: the group of an     *)
(* output name has exactly the records seen so far that belong to it, in   *)
(* the order they were found, each once.                                   *)
Seen == IF pc = "group" THEN next - 1 ELSE IF pc \in {"parse", "crashed"} THEN 0 ELSE Len(data)

GroupsFilter ==
  \A o \in OutputNames :
    /\ {groups[o][k] : k \in DOMAIN groups[o]} =
         {i \in 1 .. Seen : data[i].path # NoPath /\ OutputOf(data[i]) = o}
    /\ \A j, k \in DOMAIN groups[o] : j < k => groups[o][j] < groups[o][k]

(* Once the records are sorted, a class has one definition for each unit   *)
(* in which clang met its marked definition in a file (so several if its   *)
(* header is included in several units), and none for a declaration, an    *)
(* unmarked class, or what stands behind an error.                         *)
Positions == UNION {{<<u, d>> : d \in DOMAIN parsed[u]} : u \in DOMAIN parsed}

Sighting(decl, c) ==
  decl.class = c /\ decl.path # NoPath /\ decl.complete /\ decl.marked

Sightings(c) == {s \in Positions : Sighting(parsed[s[1]][s[2]], c)}

Defines(o, c) == {k \in DOMAIN groups[o] : data[groups[o][k]].class = c}

Definitions(c) == UNION {{<<o, k>> : k \in Defines(o, c)} : o \in OutputNames}

DefinedPerSighting ==
  pc \in {"write", "done"} =>
    \A c \in Classes : Cardinality(Definitions(c)) = Cardinality(Sightings(c))

(* All groups go to one path, so after a run the only file is that of the  *)
(* last group.  If the directory does not exist, or if nothing was marked  *)
(* (because every unit failed, for instance), or if the run crashed, the   *)
(* files are as the previous run left them, definitions of classes that    *)
(* are gone included.                                                      *)
Last(keys) == CHOOSE k \in keys : \A j \in keys : k >= j

LastGroupStays ==
  Over =>
    IF Keys # {} /\ PercentS \in dirs
    THEN /\ DOMAIN files = {[dir |-> PercentS, name |-> PercentS]}
         /\ \A p \in DOMAIN files : files[p] = Content(groups[Sorted[Last(Keys)]])
    ELSE files = before

(* Every run of the generator ends. *)
RunEnds == ~Over ~> Over

(* "Generate a file for each source file": the classes recorded with a     *)
(* source file are defined in a file of the output directory that has the  *)
(* name made from that of the source file.                                 *)
FilePerSource ==
  pc = "done" =>
    \A i \in DOMAIN data : data[i].path # NoPath =>
      LET path == [dir |-> OutputDir, name |-> OutputOf(data[i])] IN
        /\ path \in DOMAIN files
        /\ \E k \in DOMAIN files[path].defines : files[path].defines[k] = data[i].class
=============================================================================
