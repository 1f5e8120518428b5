------------------------------- MODULE Skills -------------------------------
(***************************************************************************)
(* Skills of the tuning agent: the registry that walks the skill           *)
(* directories at startup (skill/registry.rs, skill/parser.rs), the        *)
(* catalog that lists skills within a budget of characters                 *)
(* (skill/catalog.rs) and the session that hands their contents to the     *)
(* reasoner (skill/session.rs).                                            *)
(*                                                                         *)
(* The file system is chosen initially and does not change. A directory    *)
(* below references/ is a node of a graph, because symbolic links are      *)
(* followed; a file is one unit of bytes, and everything about a file or a *)
(* SKILL.md that makes the load fail (not UTF-8, too large, not a regular  *)
(* file, outside its package, wrong name, tool dependencies) is "bad".     *)
(***************************************************************************)
EXTENDS Naturals, Sequences, FiniteSets, SequencesExt

CONSTANTS
  Names,        \* names of skills, in order
  Nil,
  Disks,        \* the file systems: sequences of entries of the configured roots
  Requests,     \* what activations request: sequences of names
  MaxSkills, MaxRegistryBytes, MaxReferences,   \* limits of SkillConfig
  MaxLoaded, MaxReads, MaxChars,
  DescriptionLimits   \* 1024, 512, ..., 64 of SkillCatalogView::build, scaled

ASSUME SkillsAssumption ==
  /\ \A disk \in Disks : \A i \in DOMAIN disk : disk[i].name \in Names
  /\ {MaxSkills, MaxRegistryBytes, MaxReferences, MaxLoaded, MaxReads, MaxChars} \subseteq Nat
  /\ Len(DescriptionLimits) > 0

VARIABLES
  disk,       \* entries <<[name, kind, implicit, size, description, tree]>>
  loader,         \* "entry", "visit", "loaded", "session", "failed"
  at,         \* index of the entry that is loaded
  stack,      \* visit_references: frames [dir, next]
  visited,    \* visited_directories
  references, \* references of the package that is loaded: logical paths
  packages,   \* name -> package
  bytes,      \* registry_bytes
  explicit, loaded, loadedReferences,   \* SkillSession
  sent        \* history: the contents returned to the reasoner, in order

skillVars == <<disk, loader, at, stack, visited, references, packages, bytes,
          explicit, loaded, loadedReferences, sent>>
walk == <<at, stack, visited, references>>
session == <<explicit, loaded, loadedReferences, sent>>

----------------------------------------------------------------------------
(* SkillRegistry::load: any error fails the whole load.                    *)

Fail == loader' = "failed" /\ UNCHANGED <<disk, at, stack, visited, references, packages, bytes, session>>

\* parse_skill: the file cannot be read, its metadata or its policy is not valid.
Unusable(entry) == entry.kind = "bad"

\* load_references: no references directory, or a walk that begins at it.
FirstFrame(entry) ==
  IF entry.tree = Nil THEN << >> ELSE <<[dir |-> entry.tree.root, next |-> 1]>>

\* Variant: a second package of the same name takes the place of the first.
RefusedByCount(entry) == Cardinality(DOMAIN packages) = MaxSkills

Refused(entry) == entry.name \in DOMAIN packages \/ Cardinality(DOMAIN packages) = MaxSkills

\* One entry of a root: not a package, or parsed and checked against what is loaded.
Entry ==
  /\ loader = "entry" /\ at <= Len(disk)
  /\ LET entry == disk[at] IN
     \/ /\ entry.kind = "other"
        /\ at' = at + 1
        /\ UNCHANGED <<disk, loader, stack, visited, references, packages, bytes, session>>
     \/ /\ Unusable(entry) \/ (entry.kind = "skill" /\ Refused(entry))
        /\ Fail
     \/ /\ entry.kind = "skill" /\ ~Refused(entry)
        /\ loader' = "visit"
        /\ stack' = FirstFrame(entry)
        /\ visited' = {FirstFrame(entry)[i].dir : i \in DOMAIN FirstFrame(entry)}
        /\ references' = {}
        /\ UNCHANGED <<disk, at, packages, bytes, session>>

----------------------------------------------------------------------------
(* load_references, visit_references: depth first, following links.        *)

Top == Last(stack)
Children == disk[at].tree.children[Top.dir]

\* The logical path of the entry the innermost frame is at.
Path == [i \in DOMAIN stack |-> stack[i].next]

Advanced == Front(stack) \o <<[Top EXCEPT !.next = @ + 1]>>

VisitFile ==
  /\ loader = "visit" /\ stack # << >> /\ Top.next <= Len(Children)
  /\ Children[Top.next].kind = "file"
  /\ IF Cardinality(references) = MaxReferences
       THEN Fail
       ELSE /\ references' = references \cup {Path}
            /\ stack' = Advanced
            /\ UNCHANGED <<disk, loader, at, visited, packages, bytes, session>>

\* read_utf8_bounded and the checks before it.
Unreadable(child) == child.kind = "bad"

VisitBad ==
  /\ loader = "visit" /\ stack # << >> /\ Top.next <= Len(Children)
  /\ Unreadable(Children[Top.next])
  /\ Fail

\* Variant: a directory is entered however often it was before.
VisitDirectoryAgain ==
  /\ loader = "visit" /\ stack # << >> /\ Top.next <= Len(Children)
  /\ Children[Top.next].kind = "dir"
  /\ stack' = Append(stack, [dir |-> Children[Top.next].dir, next |-> 1])
  /\ Len(stack) < 4
  /\ UNCHANGED <<disk, loader, at, visited, references, packages, bytes, session>>

\* Variant: a directory that was visited before is passed over.
VisitDirectoryOnce ==
  /\ loader = "visit" /\ stack # << >> /\ Top.next <= Len(Children)
  /\ Children[Top.next].kind = "dir"
  /\ LET dir == Children[Top.next].dir IN
     IF dir \in visited
       THEN stack' = Advanced /\ UNCHANGED visited
       ELSE stack' = Append(stack, [dir |-> dir, next |-> 1]) /\ visited' = visited \cup {dir}
  /\ UNCHANGED <<disk, loader, at, references, packages, bytes, session>>

\* A directory reached twice is a cycle or a duplicate traversal, and an error.
VisitDirectory ==
  /\ loader = "visit" /\ stack # << >> /\ Top.next <= Len(Children)
  /\ Children[Top.next].kind = "dir"
  /\ LET dir == Children[Top.next].dir IN
     IF dir \in visited
       THEN Fail
       ELSE /\ stack' = Append(stack, [dir |-> dir, next |-> 1])
            /\ visited' = visited \cup {dir}
            /\ UNCHANGED <<disk, loader, at, references, packages, bytes, session>>

VisitReturn ==
  /\ loader = "visit" /\ stack # << >> /\ Top.next > Len(Children)
  /\ stack' = LET callers == Front(stack) IN
              IF callers = << >> THEN callers
              ELSE Front(callers) \o <<[Last(callers) EXCEPT !.next = @ + 1]>>
  /\ UNCHANGED <<disk, loader, at, visited, references, packages, bytes, session>>

\* The package is added, unless the bytes of the registry exceed their limit.
Add ==
  /\ loader = "visit" /\ stack = << >>
  /\ LET entry == disk[at]
         total == bytes + entry.size + Cardinality(references) IN
     IF total > MaxRegistryBytes
       THEN Fail
       ELSE /\ bytes' = total
            /\ packages' = (entry.name :> [implicit |-> entry.implicit, size |-> entry.size,
                              description |-> entry.description, references |-> references,
                              entry |-> at]) @@ packages
            /\ loader' = "entry" /\ at' = at + 1
            /\ stack' = << >> /\ visited' = {} /\ references' = {}
            /\ UNCHANGED <<disk, session>>

Loaded ==
  /\ loader = "entry" /\ at > Len(disk)
  /\ loader' = "loaded"
  /\ UNCHANGED <<disk, walk, packages, bytes, session>>

----------------------------------------------------------------------------
(* SkillCatalogView::build. An entry costs one unit and its description.   *)

Smaller(a, b) == IF a < b THEN a ELSE b

RECURSIVE Cost(_, _)
Cost(names, limit) ==
  IF names = << >> THEN 0
  ELSE 1 + Smaller(packages[Head(names)].description, limit) + Cost(Tail(names), limit)

\* The names in the order of the maps they come from.
Sorted(set) == SelectSeq(SetToSortSeq(Names, LAMBDA a, b : a < b), LAMBDA n : n \in set)

\* The implicit skills that are not requested, from which the catalog drops the last.
Implicit(requested) == Sorted({n \in DOMAIN packages \ requested : packages[n].implicit})

\* Variant: the last candidate is dropped whether it was requested or not.
CatalogOfAll(requested) ==
  LET all == Sorted(requested) \o Implicit(requested)
      kept == {k \in 0 .. Len(all) : Cost(SubSeq(all, 1, k), Last(DescriptionLimits)) <= MaxChars}
  IN  IF kept = {} THEN Nil
      ELSE SubSeq(all, 1, CHOOSE k \in kept : \A j \in kept : j <= k)

\* Descriptions are shortened as far as needed, then implicit skills are dropped
\* from the back; Nil is the error that the requested ones do not fit.
Catalog(requested) ==
  LET first == Sorted(requested)
      rest == Implicit(requested)
      limits == {DescriptionLimits[i] : i \in DOMAIN DescriptionLimits}
      fits(k, limit) == Cost(first \o SubSeq(rest, 1, k), limit) <= MaxChars
      kept == {k \in 0 .. Len(rest) : fits(k, Last(DescriptionLimits))}
  IN  IF \E limit \in limits : fits(Len(rest), limit) THEN first \o rest
      ELSE IF kept = {} THEN Nil
      ELSE first \o SubSeq(rest, 1, CHOOSE k \in kept : \A j \in kept : j <= k)

----------------------------------------------------------------------------
(* SkillSession                                                            *)

\* SkillSession::new. The explicit skills are part of the first context.
Open(request) ==
  /\ loader = "loaded"
  /\ IsInjective(request)
  /\ ToSet(request) \subseteq DOMAIN packages
  /\ Len(request) <= MaxLoaded
  /\ loader' = "session"
  /\ explicit' = ToSet(request)
  /\ loaded' = ToSet(request)
  /\ sent' = [i \in DOMAIN Sorted(ToSet(request)) |-> <<Sorted(ToSet(request))[i], << >>>>]
  /\ UNCHANGED <<disk, walk, packages, bytes, loadedReferences>>

\* Variant: a skill that is loaded already is returned again.
LoadSkillAgain(name) ==
  /\ loader = "session"
  /\ name \in DOMAIN packages
  /\ packages[name].implicit
  /\ Cardinality(loaded) # MaxLoaded
  /\ loaded' = loaded \cup {name}
  /\ sent' = Append(sent, <<name, << >>>>)
  /\ UNCHANGED <<disk, loader, walk, packages, bytes, explicit, loadedReferences>>

LoadSkill(name) ==
  /\ loader = "session"
  /\ name \in DOMAIN packages \ loaded
  /\ packages[name].implicit
  /\ Cardinality(loaded) # MaxLoaded
  /\ loaded' = loaded \cup {name}
  /\ sent' = Append(sent, <<name, << >>>>)
  /\ UNCHANGED <<disk, loader, walk, packages, bytes, explicit, loadedReferences>>

\* Variant: references are served for every package.
LoadReferenceUnloaded(name, path) ==
  /\ loader = "session"
  /\ name \in DOMAIN packages /\ path \in packages[name].references
  /\ <<name, path>> \notin loadedReferences
  /\ Cardinality(loadedReferences) # MaxReads
  /\ loadedReferences' = loadedReferences \cup {<<name, path>>}
  /\ sent' = Append(sent, <<name, path>>)
  /\ UNCHANGED <<disk, loader, walk, packages, bytes, explicit, loaded>>

LoadReference(name, path) ==
  /\ loader = "session"
  /\ name \in loaded /\ path \in packages[name].references
  /\ <<name, path>> \notin loadedReferences
  /\ Cardinality(loadedReferences) # MaxReads
  /\ loadedReferences' = loadedReferences \cup {<<name, path>>}
  /\ sent' = Append(sent, <<name, path>>)
  /\ UNCHANGED <<disk, loader, walk, packages, bytes, explicit, loaded>>

\* The next episode: a session of its own on the same snapshot.
CloseSession ==
  /\ loader = "session"
  /\ loader' = "loaded"
  /\ explicit' = {} /\ loaded' = {} /\ loadedReferences' = {} /\ sent' = << >>
  /\ UNCHANGED <<disk, walk, packages, bytes>>

----------------------------------------------------------------------------
SkillInit ==
  /\ disk \in Disks
  /\ loader = "entry" /\ at = 1
  /\ stack = << >> /\ visited = {} /\ references = {}
  /\ packages = << >> /\ bytes = 0
  /\ explicit = {} /\ loaded = {} /\ loadedReferences = {} /\ sent = << >>

Load == Entry \/ VisitFile \/ VisitBad \/ VisitDirectory \/ VisitReturn \/ Add \/ Loaded

SkillNext ==
  \/ Load
  \/ \E request \in Requests : Open(request)
  \/ \E name \in Names : LoadSkill(name)
  \/ \E name \in DOMAIN packages : \E path \in packages[name].references : LoadReference(name, path)
  \/ CloseSession

SkillSpec == SkillInit /\ [][SkillNext]_skillVars

----------------------------------------------------------------------------
\* The logical paths of the files below a directory, up to a depth.
RECURSIVE FilesBelow(_, _, _)
FilesBelow(tree, dir, depth) ==
  LET entries == tree.children[dir]
      here == {<<i>> : i \in {j \in DOMAIN entries : entries[j].kind = "file"}}
      below(i) == {<<i>> \o path : path \in FilesBelow(tree, entries[i].dir, depth - 1)}
  IN  IF depth = 0 THEN {}
      ELSE here \cup UNION {below(i) : i \in {j \in DOMAIN entries : entries[j].kind = "dir"}}

\* What visit_references collects step by step is what the graph of directories
\* says: every file below references/ under every logical path that leads to it,
\* so that a catalog of references never has a gap where a link was met twice.
ReferencesAreComplete ==
  \A name \in DOMAIN packages :
    LET tree == disk[packages[name].entry].tree IN
    packages[name].references =
      IF tree = Nil THEN {} ELSE FilesBelow(tree, tree.root, Cardinality(DOMAIN tree.children) + 1)

\* SkillRegistry::load returns a snapshot only if every entry of every root went
\* well: nothing bad is passed over, and no package hides another of its name.
LoadIsAllOrNothing ==
  loader \in {"loaded", "session"} =>
    \A i \in DOMAIN disk :
      /\ disk[i].kind # "bad"
      /\ disk[i].kind = "skill" => disk[i].name \in DOMAIN packages /\ packages[disk[i].name].entry = i

\* A load that succeeds is complete: every package of every root, and every file that
\* its reference directories lead to (SkillRegistry::load, visit_references).
LoadIsComplete == LoadIsAllOrNothing /\ ReferencesAreComplete

\* The reasoner is shown contents of a skill, its instructions or a reference, only
\* if the activation requested the skill or its policy allows implicit invocation.
ShownIsAllowed ==
  \A i \in DOMAIN sent : sent[i][1] \in explicit \/ packages[sent[i][1]].implicit

\* A session returns every content once, however often it is asked for, and stays
\* within the limits for skills and for references, whatever was requested.
ContextIsBounded ==
  /\ IsInjective(sent)
  /\ Cardinality(loaded) <= MaxLoaded
  /\ Len(sent) <= MaxLoaded + MaxReads

\* The catalog fits its budget, lists every requested skill and no other one that
\* must be requested, and drops an implicit skill only if it would not fit even
\* with the shortest descriptions.
CatalogIsBest ==
  loader = "session" =>
    LET catalog == Catalog(explicit)
        limit == Last(DescriptionLimits)
    IN  IF catalog = Nil
        THEN Cost(Sorted(explicit), limit) > MaxChars
        ELSE /\ Cost(catalog, limit) <= MaxChars
             /\ explicit \subseteq ToSet(catalog)
             /\ \A n \in ToSet(catalog) \ explicit : packages[n].implicit
             /\ \A n \in DOMAIN packages \ ToSet(catalog) :
                  packages[n].implicit => Cost(Append(catalog, n), limit) > MaxChars
                                          \/ \E m \in DOMAIN packages \ ToSet(catalog) : m < n

\* What the reasoner is shown is as much as its limits and policies allow and no more:
\* the catalog and the loads of a session (catalog.rs, session.rs).
ContextIsBest == ShownIsAllowed /\ ContextIsBounded /\ CatalogIsBest

\* The walk over the directories ends, also where links form a cycle.
WalkEnds == <>(loader \notin {"entry", "visit"})
=============================================================================
