----------------------------- MODULE MCServices -----------------------------
(***************************************************************************)
(* The services around an episode: the client of the MCP servers, the      *)
(* start-up that loads the capability registry from them, the skills, and  *)
(* the directory of the transaction logs; and the benchmark that measures  *)
(* the schedulers: the settings of its host, the pairs of an experiment    *)
(* and a run. They share no state. A behaviour is one of a single subject, *)
(* the rest keeps an initial state.                                        *)
(***************************************************************************)
EXTENDS McpClient, Capability, Skills, TransactionStore, HostIsolation, PairPool, BenchTrial

CONSTANT Subjects   \* the components the run is about

VARIABLE subject

benchVars == <<isoVars, poolVars, trialVars>>
mcVars == <<subject, mcpVars, capVars, skillVars, storeVars, benchVars>>

----------------------------------------------------------------------------
(* McpClient: a good result, one the tool calls an error and one that      *)
(* decode_tool_result refuses; or one of every way it can end.             *)

Result(size, isError, structured, contents, output) ==
  [bytes |-> size, envelope |-> TRUE, isError |-> isError, structured |-> structured,
   content |-> contents, output |-> output]

FewResults ==
  {Result("fits", FALSE, TRUE, <<>>, "fits"), Result("fits", TRUE, FALSE, <<"text">>, "fits"),
   Result("fits", FALSE, FALSE, <<"json", "json">>, "fits")}

AllResults ==
  FewResults \union
    {Result("over", FALSE, TRUE, <<>>, "fits"), Result("fits", FALSE, FALSE, <<"json">>, "fits"),
     Result("fits", FALSE, FALSE, <<"other">>, "fits"), Result("fits", FALSE, TRUE, <<>>, "over"),
     [Result("fits", FALSE, TRUE, <<>>, "fits") EXCEPT !.envelope = FALSE]}

----------------------------------------------------------------------------
(* Capability: server "a" with capability "b/c" and server "a/b" with      *)
(* capability "c" make the same identifier; one local mutation is          *)
(* configured under the guardrail's identifier and one under an identifier *)
(* of server "a".                                                          *)

Meta(x, kind, class, role) ==
  [id |-> x, kind |-> kind, effect |-> RequiredEffect(kind), class |-> class,
   provider |-> <<class>>, role |-> role, described |-> TRUE, phases |-> ValidPhases(kind),
   idempotent |-> TRUE, deterministic |-> TRUE, schemas |-> TRUE, limits |-> TRUE]

MCLocalMetas ==
  <<Meta(TrustedGuardrail, "Measurement", "Builtin", "RuntimeSystemGuardrail"),
    Meta(<<"builtin", "comparison">>, "Comparison", "Builtin", "AgentSelectable"),
    Meta(TrustedGuardrail, "Mutation", "Local", "AgentSelectable"),
    Meta(<<"mcp", "a", "c">>, "Mutation", "Local", "AgentSelectable")>>

MCServers ==
  <<[id |-> <<"a">>, allowed |-> {}, mutations |-> TRUE],
    [id |-> <<"a", "b">>, allowed |-> {<<"c">>, <<"d">>}, mutations |-> FALSE]>>

MCPolicy == [allowed |-> {}, denied |-> {<<"mcp", "a", "b", "d">>}]

Raw(x, kind) ==
  [id |-> x, kind |-> kind, effect |-> RequiredEffect(kind), described |-> TRUE,
   phases |-> SetToSeq(ValidPhases(kind)), limits |-> TRUE, schemas |-> TRUE,
   deterministic |-> kind = "Comparison", idempotent |-> kind = "Mutation",
   operations |-> [op \in Operations(kind) |-> "t"]]

RawSet ==
  {Raw(<<"c">>, "Probe"), Raw(<<"c">>, "Mutation"), Raw(<<"b", "c">>, "Measurement"),
   Raw(<<"d">>, "Comparison"), Raw(<<"b", "d">>, "Mutation")}

\* One of every declaration that is refused.
FaultyRaw ==
  {[Raw(<<"d">>, "Comparison") EXCEPT !.deterministic = FALSE],
   [Raw(<<"d">>, "Mutation") EXCEPT !.idempotent = FALSE],
   [Raw(<<"d">>, "Probe") EXCEPT !.effect = "ReversibleMutation"],
   [Raw(<<"d">>, "Measurement") EXCEPT !.phases = <<"CommitPending", "CommitPending">>],
   [Raw(<<"d">>, "Measurement") EXCEPT !.operations = [op \in {"open"} |-> "t"]],
   [Raw(<<"d">>, "Probe") EXCEPT !.operations = [op \in {"probe"} |-> "absent"]]}

MCManifests ==
  {[version |-> 1, capabilities |-> <<x, y>>] : x \in RawSet, y \in RawSet \union FaultyRaw}
    \union {[version |-> v, capabilities |-> <<x>>] : v \in {1, 2}, x \in RawSet}

Tool(name, compiles) == [name |-> name, compiles |-> compiles, fault |-> FALSE]

MCPages ==
  {[tools |-> ts, next |-> n] :
     ts \in {<<>>, <<Tool("t", TRUE)>>, <<Tool("t", FALSE)>>,
             <<[Tool("u", TRUE) EXCEPT !.fault = TRUE]>>},
     n \in {"none", "bad", "p", "q"}}

----------------------------------------------------------------------------
(* Skills: two roots with up to four entries; reference directories that   *)
(* are plain, nested, shared by two links, cyclic or with a bad file.      *)

File == [kind |-> "file", dir |-> 0]
Bad == [kind |-> "bad", dir |-> 0]
Dir(d) == [kind |-> "dir", dir |-> d]
Tree(children) == [root |-> 1, children |-> children]

MCTrees ==
  { Nil,
    Tree(<< <<File>> >>),
    Tree(<< <<Dir(2), File>>, <<File>> >>),
    Tree(<< <<Dir(2), Dir(2)>>, <<File>> >>),
    Tree(<< <<File, Dir(2)>>, <<Dir(1)>> >>),
    Tree(<< <<File, Bad>> >>),
    Tree(<< <<Dir(2), Dir(3)>>, <<File>>, <<File, File>> >>) }

Skill(n, implicit, description, tree) ==
  [name |-> n, kind |-> "skill", implicit |-> implicit, size |-> 1,
   description |-> description, tree |-> tree]

Other(n, kind) == [Skill(n, TRUE, 1, Nil) EXCEPT !.kind = kind]

MCEntries(n) ==
  {Skill(n, implicit, d, tree) : implicit \in BOOLEAN, d \in {1, 3}, tree \in MCTrees}
    \cup {Other(n, "bad"), Other(n, "other")}

MCDisks ==
  {<<x, y>> \o rest :
     x \in MCEntries(1), y \in MCEntries(2),
     rest \in {<<Other(3, "other")>>, <<Skill(1, TRUE, 2, Nil)>>, <<Skill(3, TRUE, 3, Nil)>>,
               <<Skill(3, FALSE, 1, Tree(<< <<File>> >>))>>,
               <<Skill(3, TRUE, 1, Nil), Skill(4, TRUE, 1, Nil)>>}}

MCLimits == <<4, 3, 2>>

MCRequests == {<< >>, <<1>>, <<2, 3>>, <<2, 2>>, <<1, 2, 3>>}

----------------------------------------------------------------------------
(* PairPool: three pairs, on cores of equal or of unequal size. Some pairs *)
(* fit side by side, some only alone, some not at all.                     *)

MCDemand == {[vcpus |-> 2, memory |-> 1], [vcpus |-> 2, memory |-> 2], [vcpus |-> 4, memory |-> 1]}

MCExperiments ==
  [demands : [1..3 -> MCDemand], cores : {<<2, 2, 2>>, <<2, 1, 2>>, <<1, 1>>},
   memory : {1, 3}, parallel : 1..3]

FewExperiments ==
  [demands : [1..2 -> MCDemand], cores : {<<2, 2>>, <<2, 1, 2>>, <<1, 1>>}, memory : {3}, parallel : {1, 2}]

----------------------------------------------------------------------------
MCInit ==
  /\ subject \in Subjects
  /\ IF subject = "skills" THEN TRUE ELSE disk = CHOOSE d \in Disks : TRUE
  /\ IF subject = "pairs" THEN TRUE ELSE experiment = CHOOSE e \in Experiments : TRUE
  /\ IF subject = "trial" THEN TRUE
     ELSE trial = [scheduler |-> TRUE, treatment |-> TRUE, warmup |-> TRUE, destroy |-> TRUE]
  /\ McpInit /\ CapInit /\ SkillInit /\ StoreInit /\ IsoInit /\ PoolInit /\ TrialInit

MCNext ==
  /\ UNCHANGED subject
  /\ \/ subject = "mcp" /\ McpNext /\ UNCHANGED <<capVars, skillVars, storeVars, benchVars>>
     \/ subject = "startup" /\ CapNext /\ UNCHANGED <<mcpVars, skillVars, storeVars, benchVars>>
     \/ subject = "skills" /\ SkillNext /\ UNCHANGED <<mcpVars, capVars, storeVars, benchVars>>
     \/ subject = "store" /\ StoreNext /\ UNCHANGED <<mcpVars, capVars, skillVars, benchVars>>
     \/ /\ UNCHANGED <<mcpVars, capVars, skillVars, storeVars>>
        /\ \/ subject = "isolation" /\ IsoNext /\ UNCHANGED <<poolVars, trialVars>>
           \/ subject = "pairs" /\ PoolNext /\ UNCHANGED <<isoVars, trialVars>>
           \/ subject = "trial" /\ TrialNext /\ UNCHANGED <<isoVars, poolVars>>

MCSpec == MCInit /\ [][MCNext]_mcVars

\* A thread that can take a step takes it in the end, a timer that runs expires, and
\* a server that lives reads its input. The start-up and the load of the skills are
\* calls whose steps do not wait, except for the requests of the MCP client. The runs
\* of a benchmark have time limits, so a pair that runs ends, and the loop that
\* launches the pairs is a thread of its own.
MCFairSpec ==
  /\ MCSpec
  /\ \A c \in Callers : WF_mcpVars(subject = "mcp" /\ Proceed(c))
  /\ WF_mcpVars(subject = "mcp" /\ ReaderStep)
  /\ WF_mcpVars(subject = "mcp" /\ Serve)
  /\ WF_capVars(subject = "startup" /\ CapNext)
  /\ WF_skillVars(subject = "skills" /\ Load)
  /\ WF_poolVars(subject = "pairs" /\ PoolNext)

\* The loading of capabilities ends whatever pages a server lists (StartupEnds, in
\* the behaviours that are about the start-up).
StartupIsEnded == subject = "startup" => StartupEnds

\* The walk over the files of a skill ends, also where links form a cycle (WalkEnds,
\* in the behaviours that are about the skills).
WalkIsEnded == subject = "skills" => WalkEnds

\* The launching of the pairs ends, and has then run them all or says why not
\* (ExperimentEnds, in the behaviours that are about the pairs).
ExperimentIsEnded == subject = "pairs" => ExperimentEnds

\* Whatever the other side does, each of these comes to an end: a request of the MCP
\* client, the start-up, the walk of the skills, the pairs of an experiment.
EveryServiceEnds == RequestReturns /\ StartupIsEnded /\ WalkIsEnded /\ ExperimentIsEnded
=============================================================================
