------------------------------ MODULE Assembly ------------------------------
(***************************************************************************)
(* ASSEMBLY in `agentbridge coordinate`: before a run, every agent is      *)
(* asked what class of problem the goal is; AssemblySession keeps the last *)
(* opinion anybody had, and run() starts the driver of that class or       *)
(* refuses.  A text is what infer_pattern can tell about it: the names its *)
(* CLASS lines carry, in order, and how many keywords of each of the three *)
(* paper classes it holds.                                                 *)
(***************************************************************************)
EXTENDS Integers, Sequences, FiniteSets, FiniteSetsExt

CONSTANTS
  CrewSize,    \* number of agents
  Texts,       \* what an agent may reply, and what a goal may say
  NoClass      \* the None of an opinion or of a reply

Paper == {"Preference", "Cascade", "Resource"}
Patterns == Paper \cup {"Development", "Unmapped"}

\* A CLASS line carries a known name, a name parse_name does not know, or "".
Names == Patterns \cup {"stranger", ""}
Text == [class : Seq(Names), hits : [Paper -> Nat]]

ASSUME TextsAssumption ==
  /\ CrewSize \in Nat \ {0}       \* run() refuses to start without agents
  /\ Texts \subseteq Text /\ NoClass \notin Patterns /\ NoClass \notin Texts

VARIABLES
  seed,        \* --pattern
  assembly,    \* --assembly
  goal,
  inferred,    \* session.inferred, or NoClass
  replies,     \* the texts in order; NoClass for an agent that failed
  phase,
  pattern      \* the pattern run() goes on with, or NoClass

assemblyVars == <<seed, assembly, goal, inferred, replies, phase, pattern>>

-----------------------------------------------------------------------------

parse_name(name) == IF name \in Patterns THEN name ELSE "Unmapped"

\* The first CLASS line with a name on it; unknown names are Unmapped.
class_line(text) ==
  LET named == {k \in DOMAIN text.class : text.class[k] # ""} IN
  IF named = {} THEN NoClass ELSE parse_name(text.class[Min(named)])

\* The class with the most keywords, if there is one and only one.
keyword_scores(text) ==
  LET best == {c \in Paper : /\ text.hits[c] > 0
                             /\ \A d \in Paper : text.hits[d] <= text.hits[c]} IN
  IF Cardinality(best) = 1 THEN CHOOSE c \in best : TRUE ELSE NoClass

infer_pattern(text) ==
  IF class_line(text) # NoClass THEN class_line(text) ELSE keyword_scores(text)

\* Mutant: the first opinion stays.
FirstStays(opinion, old) == IF old # NoClass THEN old ELSE opinion

\* opinion.or(old)
Or(opinion, old) == IF opinion # NoClass THEN opinion ELSE old

is_converge_class(p) == p \in Paper

-----------------------------------------------------------------------------
AssemblyInit ==
  /\ seed \in Patterns /\ assembly \in BOOLEAN /\ goal \in Texts
  /\ inferred = NoClass /\ replies = <<>> /\ phase = "start" /\ pattern = NoClass

NeedsAssembly == assembly \/ seed = "Unmapped" \/ is_converge_class(seed)

SkipAssembly ==
  /\ phase = "start" /\ ~NeedsAssembly
  /\ phase' = "launch" /\ pattern' = seed
  /\ UNCHANGED <<seed, assembly, goal, inferred, replies>>

\* The session is seeded by a paper class only.
Seeded == IF is_converge_class(seed) THEN seed ELSE NoClass

BeginAssembly ==
  /\ phase = "start" /\ NeedsAssembly
  /\ inferred' = Seeded
  /\ phase' = "ask"
  /\ UNCHANGED <<seed, assembly, goal, replies, pattern>>

\* session.ingest; the next agent is asked.
Ingest(text) ==
  /\ phase = "ask" /\ Len(replies) < CrewSize
  /\ inferred' = Or(infer_pattern(text), inferred)
  /\ replies' = Append(replies, text)
  /\ UNCHANGED <<seed, assembly, goal, phase, pattern>>

AgentFails ==
  /\ phase = "ask" /\ Len(replies) < CrewSize
  /\ replies' = Append(replies, NoClass)
  /\ UNCHANGED <<seed, assembly, goal, inferred, phase, pattern>>

\* The goal itself is the last resort.
Settle ==
  /\ phase = "ask" /\ Len(replies) = CrewSize
  /\ pattern' = Or(Or(inferred, infer_pattern(goal)), "Unmapped")
  /\ phase' = "launch"
  /\ UNCHANGED <<seed, assembly, goal, inferred, replies>>

Launch ==
  /\ phase = "launch"
  /\ phase' = CASE is_converge_class(pattern) -> "converge"
             [] pattern = "Unmapped"       -> "refused"
             [] OTHER                      -> "development"
  /\ UNCHANGED <<seed, assembly, goal, inferred, replies, pattern>>

AssemblyNext ==
  \/ SkipAssembly \/ BeginAssembly
  \/ \E text \in Texts : Ingest(text)
  \/ AgentFails \/ Settle \/ Launch

AssemblySpec == AssemblyInit /\ [][AssemblyNext]_assemblyVars

-----------------------------------------------------------------------------
(* Properties *)

Opinions == {k \in DOMAIN replies : replies[k] # NoClass /\ infer_pattern(replies[k]) # NoClass}

\* Whatever is started is the last opinion of the crew: not an earlier one, and
\* never the seed or the goal while anybody had an opinion.  Without one it is
\* the seed when that is a paper class.  A CONVERGE run never starts without an
\* ASSEMBLY of the whole crew, and a class nobody named has a lead in keywords.
LastOpinionDecides ==
  /\ phase \in {"converge", "development", "refused"} /\ replies # <<>> =>
       /\ Opinions # {} => pattern = infer_pattern(replies[Max(Opinions)])
       /\ Opinions = {} /\ is_converge_class(seed) => pattern = seed
  /\ phase = "converge" => Len(replies) = CrewSize
  /\ \A k \in Opinions : class_line(replies[k]) = NoClass =>
       LET c == infer_pattern(replies[k]) IN
       \A d \in Paper \ {c} : replies[k].hits[d] < replies[k].hits[c]

=============================================================================
