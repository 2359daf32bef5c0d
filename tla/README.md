# A verification development of mdpsim

mdpsim simulates planning problems written in PPDDL (probabilistic PDDL). The
program `mdpsim` reads domains and problems and either plays a problem with
random actions or serves it over TCP: a client (`mdpclient`, `mtbddclient`, or
anybody's planner) asks for a session, plays rounds of the problem against the
server's simulation by exchanging XML messages, and gets a score.
It hosted planners in the first probabilistic track of the international
planning competition (README:218-222): what has to
be right is the bookkeeping of a session, the conversation between the two
programs, and the meaning of a problem text.

This directory holds TLA+ modules for these parts, TLC configurations that
check them on small instances, and TLAPS proofs about some of them for every
value of the constants. Source references are `file:line` in `src/`.

## 1. Inventory

| part | source | state it keeps | operations | interacts with |
|---|---|---|---|---|
| session thread | `mdpserver.cc` `host_problem` | limits, two timers, totals, round, turn, planning state, log file | one request/reply loop | client by socket, simulation by calls, other threads by shared memory |
| accept loop, identifiers | `mdpserver.cc` `run_server`, `new_id`, `write_log` | static counter, file `last_id`, descriptors, log files | accept, start a thread, issue an identifier, log | all session threads, later runs of the server |
| client library | `client.cc`, `mdpclient.cc`, `mtbddclient.cc` | remaining rounds, last state received | play the problems of the command line | server by socket |
| XML reader | `strxml.cc` | static put-back character, stack of open nodes | `read_node` | both programs, all threads |
| types | `types.cc` | triangular table of subtypes, unions | declare, compare | parser |
| terms, predicates, functions | `terms.cc`, `predicates.cc`, `functions.cc` | symbol tables, parameters, static flags | declare, look up | parser, instantiation |
| domains and problems | `domains.cc`, `problems.cc`, `requirements.cc` | tables by name, initial state, goal, reward, metric | define, instantiate | parser, server, simulator |
| semantic actions of the parser | `parser.yy` | stacks of scopes, symbol being parsed, domain/problem being defined | one handler per rule | all tables |
| numbers | `rational.cc` | - | arithmetic, reading, writing | expressions, effects, XML |
| expressions and conditions | `expressions.cc`, `formulas.cc` | interning tables | simplify, instantiate, test | actions, goals |
| effects | `effects.cc` | weights of outcomes | simplify, instantiate, sample | actions, initial states |
| action schemata | `actions.cc` | - | instantiate by backtracking, enabled, affect | problems |
| states | `states.cc`, `getState` of `client.cc` | atoms, fluents, goal flag | sample the initial state, step, print, read back | server, client, simulator |
| reference counts, interning | `refcount.h`, static sets | counts, sets | ref, deref, make | everything, from all threads |
| transition matrices | `mtbdd.cc`, `mtbddclient.cc` | state variables, static order of variables, diagrams, policy | convert actions, value iteration, decide | problems, client library |
| generated code, build files | `parser.cc`, `tokenizer.cc`, `getopt*.c` | - | - | - |

The hard behaviours are the following; `PROJECT.json` ("hazards") places each
at its line and names the properties that watch it.

* *Ordering and time.* The server reads the clock in several places, after
  blocking reads and before and after writes; the accounts of rounds and
  session must agree whatever passes in between.
* *Two programs, each with its own idea of the conversation.* Both count the
  rounds, both decide when a round is over, either may stop.
* *Threads without locks.* Session threads share the identifier counter, the
  XML reader's put-back character, the interning tables and the log files.
* *Crashes.* The server is stopped by killing it; the identifier file must
  survive that. Clients die at any point.
* *Once and for ever.* Actions and goals are instantiated once, before the
  first round, and tested in every later state; what was resolved too early
  stays wrong for the whole run.
* *Parser state.* Handlers push and pop shared stacks and static variables;
  what one rule leaves behind, another consumes.
* *Numbers.* Reduction, signs, weights over common denominators, `int`s.
* *Two semantics of one text.* The planner turns actions into matrices by code
  that shares nothing with the simulation; a plan is only worth something if
  both mean the same.
* *Limits.* Descriptors are never given back, threads may not be created, a
  write to a client that left kills the process.

What makes each part correct, in one line each: a session is a fair contest
(limits kept, books balanced, log replayable, summary computable); the client
always decides on the server's current state and both always part; identifiers
grow over restarts unless the counter was put in doubt; what is printed is what
is read; the type table is the closure of what was declared; a name means what
the text says; nothing is resolved that can still change, with one exception;
arithmetic is exact and reduced; instances and
effects mean what was written; every tuple of arguments is tried once; the
client sees all the server has, as far as its decisions depend on it; a log
file tells what every session that shared it did; the matrix is the
distribution of the simulation, and the policy is near the best there is.

## 2. Modules

`EXTENDS` goes downwards; the `MC` modules give constants for TLC, the
`...Proofs` modules hold theorems.

```
Session - SessionLog - MCSession          (Contest: abstract; SessionLog refines it)
   |          \---- SessionProofs
   \---- Protocol - MCProtocol            (Protocol composes Session and Client)
            \---- ProtocolProofs
SessionIds - Server - MCServer            (Server composes SessionIds with many sessions)
                \---- ServerProofs
XmlReader - XmlMessages - MCXmlMessages
                \---- XmlProofs
TypeTable, Scopes, Symbols, Domains - MCDeclarations
   |          \---- ScopesProofs
   \---- DeclarationProofs                (of TypeTable, Symbols, Domains)
Rational - Calculator - CalculatorProofs
   |            \------------------------\
   \- Expressions - Formulas - Effects - MCLanguage
                                        \- Actions - StateTransfer - Simulation - MCSimulation
                                               \- Mtbdd - Planner - MCPlanner
                                    (Planner composes Mtbdd and Simulation; MCPlanner extends MCSimulation)
                                               \- Interning - Instances - MCInstances
Odometer - OdometerProofs
                          (Instances composes Interning and an instance of Odometer)
```

### Session, SessionLog, Contest

`Session` is `host_problem`. `pc` names the places where the thread blocks or
where other things may happen in between: `read_session`, `round_head` (292),
`round_init` (between writing round-init and starting the round timer, 315),
`turn_head` (321), `read_act` (333), `check_time` (381), `returned`. The
code's local variables keep their names. Every `GetElapsedMilliseconds` is a
reading of `now` in the step that calls it; `Tick` may happen between any two
steps, so that a client may also stay silent for as long as the bound of the
clock lets it. The planning problem is abstract (states, enabled actions,
successors, metric).

The client is *any* program that writes messages of the README's vocabulary in
any order (`ClientWrites`), reads or does not read, and hangs up at any point
(`ClientCloses`: if replies are still unread, the requests not yet read may be
lost). A write to a closed connection is lost or raises SIGPIPE, which ends
the process (`alive`); the code's test `if (! write(...)) EXIT_ERROR` never
fires for such a write, which returns -1. `total_turns` is never initialised
(288): it starts with any member of `Garbage`. Messages whose elements are missing (an `act` without
`action`, 345; a request without a name or a problem, 226-238) are not in the
vocabulary.

`SessionLog` states what the log file shows, `Contest` is the abstract
specification of a session that knows nothing of timers or program counters
(announce the limits, report rounds within them, conclude with the summary
anybody can compute), and `ImplementsContest` says that the log, mapped by
`Announced`, `Reported` and `Concluded`, is such a contest.

### Client and Protocol

`Client` is the loop of `main` and the constructor of `XMLClient`, one action
per message written or read; `decideAction` is any action or none. `Protocol`
joins it to `Session` over the same two byte streams (in order, nothing lost
while both ends are open) and adds crashes of the client.

### SessionIds

`new_id` with its accesses as separate steps: the once-only initialiser (which
C++ makes other threads wait for), load and store of the counter, load of the
argument, truncating open of the file, flush, load of the result. Any number of
threads may be inside at once, for there is no lock; the file may fail to open,
for reading or for writing, and the code passes over it in silence; the server
may be killed at any of these steps and started again.

So identifiers are not unique, and no property here says that they are. Three
history variables, which no action of the code reads, follow what puts the
counter in doubt: `mingled` (calls have overlapped and not all have returned),
`unsaved` (the file was truncated or passed over and has not been written
since), and `suspect` (how many identifiers were issued before the last moment
of doubt: while calls were mingled, when a process ended `unsaved`, or when one
began without reading the file). `Observe` updates them in every step.
`IdsIncrease` and `FileRemembers` speak of the identifiers since then
(`Reliable`): kills at any other step, and an overlap once it is over, cost
nothing, and a counter in doubt is a sound one again for what follows. Without
any one of the three conditions the run `server` finds the properties violated.

### Server

The whole process: the accept loop of `run_server` (462-483), the threads it
starts, `new_id` by the actions of `SessionIds`, the descriptors and the log
files. `serving` is the place of the loop, `at[c]` that of the thread of
connection `c`; a thread that could not be created is `"lost"`: its client has
a connection that nobody reads. What the loop, the identifier file and the
logs can do to each other is here: `accept` needs a descriptor and gets it
reserved when it is called, no path of `host_problem` closes its socket (426),
`last_id` and the log need one each while they are open, `new_id` and
`host_problem` go on silently without (the first then reads 0 or writes nothing,
the second has no log). A log entry goes through the stream's buffer; one that
does not fit reaches the file in two parts (`LongEntries`). The process ends
when it is killed, when accept fails, and when a thread writes to a client
that left (SIGPIPE); then it may be started again, with the file and the logs as
they are. A round is one exchange here: what happens in it is module
`Session`'s.

### XmlReader, XmlMessages

`read_node`, `parse_node`, `do_node`, `next_token` and `PSink`, one step per
access to the socket or to the shared `last_char`, on words instead of
characters. `XmlMessages` has the messages as both programs print them: `Nodes`
are the texts and elements that messages consist of, `Shown` and `Wire` how one
is printed, `FromClient` and `FromServer` how messages follow each other.
`StreamsAssumption` says what may arrive on a socket: what one of the programs
printed, complete, broken off anywhere in a further message, or followed by
something the reader rejects.

### TypeTable, Scopes, Symbols, Domains

Four groups of tables that the parser fills. `TypeTable` walks
`add_supertype` cell by cell, because the code reads the table that it is
changing. `Scopes` follows frames and the list `quantified` through actions,
quantified formulas, quantified effects and goals; history variables hold what
each use of a name refers to in the text, and where in `quantified` the part of
each open scope begins. `Symbols` follows the static
variables that tell `make_term` and `add_term` which symbol is being parsed,
declared or not; its types are flat (the hierarchy is in `TypeTable`) and it
leaves out the reserved functions (they are in `Domains`). `Domains` follows
domains, problems, static flags of functions and the function `reward`; its
functions have no parameters, a metric names an existing function, and nothing
is explored after an error. The grammar only decides the order of handlers;
sections of a domain that commute are not ordered in the models.
None of the four reads what another keeps, which is why `MCDeclarations`
exercises one of them per behaviour.

### Rational, Calculator, Expressions, Formulas, Effects, Actions, StateTransfer, Simulation

Translations of the classes of the same names as operators over terms: how a
value, condition or effect is simplified when it is built, instantiated and
evaluated. Interned objects are values: identity is equality. `state_change`,
which samples, becomes the distribution over changes (`StateChange`): every
value of the random number counts for the outcome it selects. An exception is
the value `Throws`, handed on until it ends the program. `Calculator` is the life of
a number: read from a text, then changed by one update after the other.
`MCLanguage` builds such numbers, and
formulas and effects step by step beside a plain record of what was written,
and compares with a definition of the meaning that does none of the code's
rewriting. `Simulation` composes all of it into a round, with the action
chosen in the state itself (`LocalTurn`, mdpsim without a port) or in the
client's copy (`RemoteTurn`).

### Mtbdd, Planner

`Mtbdd` is the conversion of mtbdd.cc as operators: which atoms become state
variables (`CollectFormula`, `CollectEffect`), how many auxiliary variables
number the outcomes of an action, their levels, the diagrams of formulas
(`FormulaBdd`), the network of an effect (`EffectDbn`: where it sets and clears
an atom, with what chances, what it earns), the matrix and the reward vector
of an action, one round of value iteration (`Backup`). A diagram of the CUDD
library is what it denotes: a BDD the set of points where it is true, an ADD a
function; the doubles of the code are exact rationals. Where the code throws, the
operator returns `Throws`. The order in which actions are visited is that of their addresses:
any. `Planner` adds the state: `SolveProblem`, `Iterate` once per round of the
loop (888), `PolicyTurn` for `decideAction`, `NextProblem` for the next problem
of the same process, which finds the static `var_order` of the one before
(985). `initRound` plans when the first round begins; the model plans before it, which differs in time only.
`MCPlanner` compares with the simulation's own `StateChange` and `Affect`: the
two translations share `Expressions` and the terms of effects, nothing else.

### Odometer

The backtracking loop of `ActionSchema::instantiations`, with the stack of
partly instantiated preconditions and the vector of iterators; the quantifiers
of formulas.cc and effects.cc loop in the same way. A precondition is known here
only by the objects put into it, and by which of them make it a contradiction.

### Interning, Instances

`Formulas` and `Effects` take conditions and effects for values. In the code
they are objects that are counted (refcount.h), that hold each other, and that
are shared: ground atoms are interned (`Atom::make`), a state is a set of
addresses, and what an instantiation returns may be the formula itself, a part of
it, an atom somebody else made, or something new that nobody holds yet.
`Interning` has the same operations on a heap: `Ref`, `Deref` with the
destructors it runs, `MakeAtom`, the operators `&&` and `||` with what they keep
and drop, `InstanceOf` with the stack of a quantifier (`Expanded`), `Test`,
`Changes`. A heap remembers whether an object was used after it was deleted
(`dangling`); addresses are not used again, so that such a use is seen.

`Instances` is the life of one process over that heap: the parser's objects
(`Parsed`), the loop of `Odometer` as an instance (`Loop`) with the objects its
stack holds in `held`, the actions it makes (`made`), then a play as a server
(`StartServer`, `ServerTurn`: a state does not hold its atoms) or as a client
(`Receive`, `Decide`: the received atoms are held while the planner decides),
and the destructors of problem and domain (`Quit`). Numeric parts, equalities
and probabilistic effects, which are counted in the same way, are left out, and
so are several threads on one table.

## 3. Runs

Deadlock is not checked where the program really stops: sessions end,
readers end, texts end.

| run | module | what it asks | bounds |
|---|---|---|---|
| `session` | MCSession | `TypeOK`; `TimeBudget`: no more time is charged than the session has, or has passed; `Limits`; `PathsReplay`: the log is an execution, but for one action that was logged and cut off by time; `Ledger`: what a client is told about its time adds up; `ImplementsContest` | three states, two actions (one with two outcomes), clock to 3, one pending request; four problems: one with room for two rounds of two turns, one with defaults, one with limits 0 and -1, one with round limit -1; one unknown name |
| `protocol` | MCProtocol | `DecidesOnCurrentState`; `CutOffOnlyAfterHangUp`; `ExitsInformed`; liveness: `ServerReleases`, `ClientExits` | two states, an action that is never enabled so that the planner errs, clock to 2; a problem that is played, one with negative limit, one unknown |
| `server` | MCServer | `IdsIncrease`: an identifier repeats only if it was issued before calls stopped overlapping, or before a process lost its counter with a kill inside `write_last_id` or a file that could not be opened; `FileRemembers`: otherwise the file has the counter, after a kill too; `LogsTell`: the log tells of every session what it did and all that its client was told; liveness: `Answered` | the whole process: two connections, two starts, four descriptors, so that `last_id`, the log and accept fail; summaries that exceed the buffer; a known and an unknown problem, malformed and missing requests; and `new_id` alone: two threads that call it again and again, any number of kills, four identifiers in number and in value |
| `xml_messages` | MCXmlMessages | `RoundTripAlone` (a sequence of messages is read back), `NothingLost` (all complete messages are, before the end or an error is reported; the depth is the height of the stack, also under races), `ReadersEnd` | streams of up to three messages, cut off and malformed ones; two threads, one after the other on all streams, at once on three short ones |
| `declarations` | MCDeclarations | types: `TableIsSound` (`InBounds`, `NoCycle`), `ClosureOfDeclared`, `RefusalJustified`; variables: `ScopesAreLexical` (`BoundWhereWritten`, `ParametersAreOwn`, `NothingIsLeft`); symbols: `WellFormed`; definitions: `ProblemsStand` (`ResolvedStays`, `RewardIsOne`) | four types and two unions in any order of declarations; three nested scopes, two names, four variables; one predicate, function and object with up to two parameters and terms; two domains and two problems |
| `language` | MCLanguage | `Arithmetic` (exact, in lowest terms, ordered, no needlessly large products, positive values arrive); `FormulasAreFaithful` (instances, and goals that can be tested); `EffectsAreFaithful` (changes, and the range of weights) | numbers: chains of operations with numerators to 60 and denominators to 12; formulas and effects: two constructors over every leaf; two objects, three variables, one of them over an empty type |
| `instances` | MCInstances | loop: `AllAndOnly`, `InStep`; liveness: `Returns`; heap: `HeapIsSound` (nothing deleted is used or kept; every count is the number of holders; no ground atom twice); `InstancesDenote` (the stack, the actions, tests and changes mean what `Formulas` and `Effects` compute for the same text) | 708 problems for the loop: up to three parameters over lists of up to three objects, some empty, and six rules a precondition may exclude tuples by; 528 problems that are played for two turns: quantified conditions over one or two variables in an action, an effect or the goal |
| `planner` | MCPlanner | simulation: `ActionsAreLegal`, `Accounts`, `ClientMissesNothing`; matrices: `MatrixIsFaithful`, `RewardIsExpected`; plan: `StopsInTime` (no more rounds than the discount needs), `PlanIsNearOptimal` (within the tolerance of the best, computed from the simulation alone), `PlanIsLegal` | the problems of MCSimulation (two places, static and changing atoms, sampled initial effects, rewards, missing values), four more with nested chances, and processes of two problems, the second with no more variables than the first; discount and tolerance one half; four turns |

Why these bounds are enough to be of use. In `session` every branch of the
thread is taken before the clock stops, the time runs out at every point of a
round, and a second round follows a round that was cut short. In
`declarations`, a fourth type gives chains and diamonds whose parts are joined
by a later declaration in either order, and a third scope puts a shadowed name
between two others. In `language` two constructors nest every pair of
them: a quantifier in a negation, a probability in a conditional, a
probability in a probability. In `instances` three parameters are the fewest for which the
loop turns back over several at once; two played turns add an atom, delete it and
test what quantifies over it, before and after. The conditions there are those
whose instances depend on the quantified variable; for the others see
`dangling_instance` below. In `server` two connections over two starts are
the fewest for which a log file is shared within one life of the process, or
written to again in the next. A connection takes one identifier only, which is
too few to see what a doubt does to later calls; so behaviours of `new_id` alone
are explored beside those of the process (`what` in MCServer), with four
identifiers: two for a doubt of any kind, and two after it. In `planner` four turns reach the
goal, leave it and reach it again, and value iteration is compared with the best
plan of six steps, after which the discount leaves less than the tolerance.
Every property of these runs was also seen
to fail when one definition of the model is changed the way a slip in the code
would (`PROJECT.json`, "mutants").

The constraint `Few` of `declarations` keeps unions to three types and stops
after an error. `VIEW MCView` of `session` identifies states that differ only
in the replies the client has not read, which no action of the server and no
property of that run reads (`ClientCloses` reads only whether there are any,
and both values are explored).

### Fairness

`FairSpec` of `Protocol` assumes weak fairness of the server thread and of the
client process: both are sequential programs that block only in `read_node`
and that the operating system runs when they can run. Nothing is assumed of
crashes or of the clock. `FairServerSpec` of `Server` assumes it of the accept
loop and of every thread, and of nothing else: clients may never ask, the
process may be killed and need not be started again. The threads of `XmlReader`
and the loop of `Odometer` are weakly fair for the same reason. In `Instances` the same
assumption is written `Running`: the loop takes steps for ever or has returned,
which says as much because a step of it is possible until then; nobody has to
play. `ReadersEnd` supposes that the peer has closed its end, which is how
the streams of the model are given: no read of the code has a timeout, so a
silent client holds its thread for ever.

### Where code and documents disagree

Four runs end in a counterexample:

* `xml_shared` (`RoundTrip`): `last_char` (strxml.cc:46) is one variable for
  all threads. Two sessions that read at the same time take each other's
  brackets, and messages are misread or rejected.
* `dangling_instance` (`NothingDangles`): "Returns an instantiation of this
  formula." (formulas.cc:880) - but when what is left of a quantified condition
  does not depend on the quantified variable, as in
  `(exists (?z) (and (wet ?x) (road ?x ?z)))` with `road` static, the result is
  a part of what the loop's own stack holds. Emptying the stack (formulas.cc:941)
  deletes it unless somebody else holds it, and the caller (actions.cc:92) goes on
  to use it. The next allocation may take its place.
* `quantified_goals` (`GoalsHold`): a goal is tested by instantiating its
  quantifiers with the state, but atoms over constants and comparisons below
  a quantifier stay unresolved (formulas.cc:311), so such a goal never holds.
* `expected_reward` (`RewardIsExpected`): the reward vector (README:228) gives
  the reward of the last outcome an effect names the chance of no outcome,
  whenever that is positive (mtbdd.cc:655); the simulation does not.

### Further configurations

These are kept beside the listed runs, each with the expected outcome a
violation; run them by hand with `tlc -config <cfg> <module>`.

| configuration | property | what it shows |
|---|---|---|
| MCProtocolTwo.cfg | `ClientExits` | the server plays one problem per connection, the client sends all of its problems over one (mdpclient.cc:267, README:29): the second waits for ever |
| MCSimulationConstants.cfg | `ClientPlaysLegally` | an instance keeps a static atom over constants (formulas.cc:311) that is not sent to the client (states.cc:95): the client takes a disabled action for enabled |

The following are one change of a listed configuration away:

| configuration, changed | property | what it shows |
|---|---|---|
| MCSession.cfg, `Garbage = {0, 7}` | `TurnAverage` | the turn average sent depends on what `total_turns` held before (mdpserver.cc:288) |
| MCSession.cfg | `RoundReplies` (a temporal property) | an error is written besides the end-round (mdpserver.cc:354), README:155 knows state and end-round only |
| MCLanguage.cfg, `Kinds <- OnlyNumbers` | `ValueArrives` | the constructor of a number from a text has no case for a minus sign (rational.cc:72) and reads -30 as -270; README:93 shows that value being sent |
| MCServer.cfg | `UniqueIds` | two threads in `new_id` may get the same identifier (mdpserver.cc:114); killed between truncating and writing `last_id`, or with all descriptors leaked, the server forgets the counter (mdpserver.cc:104, 426) |
| MCServer.cfg, `MaxThreads = 1` | `Answered` | when no thread can be created the connection is neither served nor closed (mdpserver.cc:474) |
| MCServer.cfg | `EntriesStand` | entries that exceed the buffer are mixed with those of another session (mdpserver.cc:258) |
| MCDeclarations.cfg | `GoalRewardHasBase` | with `:rewards` in the problem only, the goal reward is added to a value that was never set (parser.yy:928) |
| MCDeclarations.cfg, `Tables <- OnlyScopes`, `GoalNames = {"x"}` | `FreeVariablesAreReported` | a free variable in a goal outside quantifiers is put into a frame that does not exist (parser.yy:1005) |
| MCDeclarations.cfg, `Tables <- OnlyTypes` | `RefusedMeansSubtype` | a refused union supertype may leave some of its components declared (types.cc:84, types.h:98) |
| MCDeclarations.cfg, `Tables <- OnlyDomains` | `DomainIsThere` | defining a domain's name again deletes the first one (domains.cc:64) under the problems that refer to it |
| MCPlannerGamble.cfg, `Processes <- BrokenProcesses` | `PlanIsLegal` | an atom that only a condition mentions is no state variable (mtbdd.cc:298): the policy may name an action that is not enabled |
| MCPlannerGamble.cfg, `Processes <- GrowingProcesses` | `MatrixIsFaithful` | the static `var_order` of the problem before (mtbdd.cc:985) shifts the variables of the next |

Other observations: a deleted atom with variables looks itself up in the table of
ground atoms and reads what `find` returned, the end of the table (formulas.cc:229;
the model takes it for another atom). `Exists::holds`, `Forall::holds` and conditional effects whose
condition is a contradiction never give back what they instantiate (the objects
stay in the heap with a count of zero, which `CountsAreHolders` accepts). From
reading, not modelled: `(either object t)` drops
`object` and `(either object)` is reported as an empty union; an object that is
declared twice gets the union of its types, which is a subtype of neither;
`reward` may be read in the operand of an update; the cache of
`compatible_objects` is never filled; a domain with `:rewards` in which nothing
earns a reward has a static `reward`, and its default metric throws at
instantiation.

## 4. Proofs

All theorems hold for every value of the constants that meets the named
assumption of the module (for the odometer, a hypothesis of each theorem, since
`Instances` uses it with constants of its own).

**SessionProofs** (from `SessionAssumption`: sets and functions have the
obvious types, every enabled action has a successor). `TypeCorrect`,
`TimeIsBudgeted` and `LimitsAreKept` prove `TypeOK`, `TimeBudget` and `Limits`
for every problem, configuration, client and clock. None of the three is
inductive. `Accounting` adds what makes the time argument go through: while a
round is open, the time already charged plus what this round may still be
charged is within the limit, and the round's timer started no earlier than the
time already accounted for. `Counting` adds the guards that were passed on the
way to each place. `IInv` is their conjunction; `Inductive` proves it, with a
step lemma for types, one for the counts and one for the accounts, and in each
a case per action of the thread.

The second half of the module is about the log file as a whole.
`LedgerAddsUp` proves `Ledger`. Two announcements can be far apart in the log,
so the invariant `LedgerInv` relates every entry to the present: what is left
now is a bound of everything that was announced or left over before (`Past`),
and what the open round may still be charged is tied to its announcement, the
last one (`Present`). `PathsAreReplayed` proves `PathsReplay`; its invariant
(`Trail` in `PathInv`) says for each place of the thread what the last entries
are and how many actions the round has, a round that was stopped included.
`SessionImplementsContest` is the refinement: every step of the thread or the
client is a step of `Contest` or leaves the three mapped variables alone.
`ContestInv` says that the thread's totals are the sums over the reported
rounds and that all rounds together, also the unsuccessful ones, were charged
no more than the limit. Sums and lists of results are recursive functions; what a step
adds to them follows from two lemmas about runs of a recursive function
(`RunExists`, `RunUnique`), which are proved by an induction that is stated for sets
of numbers (`SetInduction`, from the well-foundedness of the naturals).

**ProtocolProofs** (from `SessionAssumption` and `ProtocolAssumption`: the
command line names problems, at least one). `ProtocolIsSession`: the
composition with the client is a session as above, so that all of its theorems
hold of it, and `DialogueInv` holds. This invariant lists the situations that the two
programs can be in together: `Fresh` (nothing asked, or only a session),
`Talking` (for each place of the client: where the thread may be, what is in
flight each way, and which side is ahead in counting rounds), `Finished`,
`Troubled` (an error was reported; only what can still be in flight is
known) and the crash of the client, after which nothing is claimed.
`DecisionsAreCurrent` and `ExitIsInformed` follow from it, for any lists of
problems on one connection. `NobodyIsCutOff` needs the hypothesis `OneProblem` (every
list has one problem): with two the property fails, since the second
request reaches a thread that expects a round (see MCProtocolTwo.cfg).

**ServerProofs** (from `SessionIdsAssumption`, the empty file holds no
number; no other hypothesis). `IdsOnlyRepeatInDoubt` and
`FileRemembersUnlessInDoubt` prove `IdsIncrease` and `FileRemembers` for any
number of threads, calls, kills and restarts, with overlaps and failing opens.
That an overlap once it is over does no harm is the point of the invariant
`IInv`: as long as calls are mingled nothing issued counts as reliable, so that
nothing need be known of the counter and the registers; when the last of them
returns, one thread at most is inside until calls overlap again, and `Carries` and `Beyond`
say what its register, the counter, the file and the reliable identifiers are
to each other at each place of it. `Started` is what makes a second
initialisation impossible.

The rest of the module carries both over to the whole process.
`ServerImplementsIds`: every step of the accept loop, of a session, of a client,
and every end of the process, wherever its threads are, is a step of
`SessionIds` or leaves its variables alone, for any number of connections,
starts and descriptors. The end of a process is `KillAndRestart` (`EndIsKill`), and a
step that leaves the counter alone observes nothing (`NothingObserved`), for
which `Started` is needed: a step outside `new_id` while calls are mingled must
find everything issued in doubt already.
`ServerIdsOnlyRepeatInDoubt` and `ServerFileRemembersUnlessInDoubt` follow.
`LogsTellAll` proves `LogsTell`, with threads that
overlap, descriptors that run out and a process that ends at any step; it supposes only that
the limits of known problems are integers (`Limited`). `LogInv` says of each thread
which entry of its story comes next, and of each file that its lines about a
session are that story so far.

**DeclarationProofs** has three parts, one for each of the modules it extends.
The first is the type table (from `TypeTableAssumption`). `TableIsBounded` (every cell that is set was allocated),
`HierarchyIsAcyclic` (no two types are subtypes of each other, also in the
middle of `add_supertype`), the two together as `TableStaysSound`, and `TableIsClosure` (between declarations the table
is the closure of what was accepted), for any number of types. The heart of
the invariant is `Walking`: during the walk over the types the table is the
order as it was *before* plus the pairs added for the types visited so far,
which is what makes reading the table while changing it harmless. Below it are
lemmas on the arithmetic of the triangular table: two pairs of types never
share a cell, and every pair has one. That the table is the *least* closed relation
follows from `Justified`: everything in it is in every order that contains
what was declared. `RefusalsAreJustified`: what was refused would have closed a
cycle; `RefusalInv` adds that the components still to be visited are those of
the type being declared, and that a refused declaration names types there are,
so that later ones do not change what it meant.

The second part proves `BuiltIsWellFormed` (`WellFormed`: everything that was
built without an error has as many terms as its symbol has parameters, each of
a subtype of the parameter's type), for any names and types (from
`SymbolsAssumption`, no symbol has the name that stands for none). The static
variables of the parser are global, so the invariant `SymbolsSound` says what
they stand for: while an atom or fluent is read (`Reading`), its symbol is in
the table its kind belongs to, an undeclared symbol has as many parameters as
terms were read, and nothing built so far uses it. `Declaring`
is why parameters are added to no symbol in use: what is declared is declared
before anything is built. `ObjectsApart` and `Settled` are why the type of an
object cannot change under a term that names it.

The third part proves `ResolvedFunctionsStand`, without a hypothesis: `ProblemsStand`
for any domains and problems, whichever of them require `:rewards`. What was
resolved to its initial value at instantiation is changed by no initial effect
and by no action, with the exception that `MadeStatic` names: a problem that
requires `:rewards` when its domain does not makes the domain's function
`reward` static whatever its actions do to it (functions.cc:79), and a later
problem of that domain, which may give it a value, resolves it. The run
`declarations` reaches that case. The invariant `DomainsSound` holds until an
error is reported or an exception ends the program: numbers of functions are
never reused, over all domains there ever were (`Numbered`); a function an
action updates is not static, except the reward of a domain that some problem
is scored by (`UpdatesDynamic`); a problem that is scored by it has not given
it a value (`InProblem`), so that this problem itself ends with an exception
where it would resolve it; a problem has values for what its domain counts on
(`ProblemsRefer`), and no problem refers to a domain that is still being
read (`InDomain`).

**ScopesProofs** has no assumption at all. `NamesMeanWhatIsWritten` proves
`ScopesAreLexical` for any names, any nesting and any number of actions and
goals. Its invariant: `Nested` says how the open scopes of the text lie in the
two stacks (a frame for each scope; for each but the action a marker in
`quantified`, followed by one variable for each name, up to where the next
scope begins; the action's variables are in `parameters`), `Numbered` that history numbers
identify scopes, `Apart` that no two declarations share a variable, and `Fits`,
as long as there is no error, that a frame maps the names of its scope to
just these variables and that every use so far knows the right one. `Nested`
and `Apart` hold after errors too, which is why nothing is left behind.

**OdometerProofs** (from `OdometerAssumption`, the lists are lists of objects,
which TLC checks of the instance in `Instances`). `InstantiationIsComplete`: for any schemata, lists of
objects and preconditions, the loop returns an action for every tuple of
arguments no initial part of which makes the precondition a contradiction, and
for no other. The invariant `Decided` says that the
tuples before the current one, in the order of the odometer, are the ones
decided. `OdometerInStep`: bindings and stack hold exactly the parameters
before the current one. The run `instances` checks the same two invariants of its
instance of the loop (`Loop`).

**CalculatorProofs** (from `CalculatorAssumption`: texts are numerals, operands
are pairs with a nonzero second part). `ArithmeticIsExact` proves `Arithmetic`
for all integers, all texts and any number of updates: results are right and
in lowest terms, comparisons order them, a product or quotient is computed from factors no greater than
its result (`ProductsFit`, the statement about overflow, from `Fits` in
`ProductsAreExact`), and what is written is read back unless it is negative
(`WrittenIsRead`). The recursive functions of `Rational` (Euclid's algorithm,
the digits of a number both ways, powers of ten) are defined by `CHOOSE`; that
they satisfy their equations is proved from a witness for each length, and
what they compute from a least counterexample (`Least`).

**XmlProofs**. From `XmlReaderAssumption` alone, `DepthCountsTheStack` proves `DepthIsHeight`,
which is half of `NothingLost`: for any number of threads that take each other's
`last_char`, and whatever arrives on their sockets, `depth` in `parse_node` is
the height of the stack, so that no node is returned open. `HeightInv` adds that each
thread's stack is a sequence; every kind of token changes both alike.

The rest of the module (from `NodesAssumption`, `WordsAssumption` and
`StreamsAssumption`: what the programs print, and how a stream may break off)
proves that the reader is the inverse of the printer.
`ReadingUndoesPrinting` proves `RoundTripAlone` and `NoMessageIsLost` proves
`NothingLost`, for messages of any shape, streams of any length and any number of
threads that read one at a time. The argument has four parts:

* *Layout.* `Shown` is a recursive function; `ShownIs` proves its equation by
  induction on the height of a node, from `CHOOSE` and a witness for each height.
  A printed element stands in a text as its two tags with the printed children,
  one after the other, between them (`ElementLaidOut`).
* *Scripts.* `Script` says of a text where each message starts and ends, how much
  of it arrives, and what comes after. `StreamsAreScripts` derives it from
  `StreamsAssumption` for every way a stream may end: after a message, before
  the line feed of the last, within the next, at a malformed tag.
* *Places.* `Standing` relates PSink's stack to a position in the text: there is a path
  of open elements through the message being read (`Opened`), each node on the stack holds the
  children that stand before the position, and what is left of the text closes
  what is open. `Place` extends it to the calls of `next_token` in
  `parse_node`, and `PlaceMoves` proves that a token leads from one place to the next, to a
  complete message at its end, or to a failure where the script ends.
* *Symbols.* `Layer` says what `last_char` and `res` hold while a token is read,
  and `Stray` what a failed call has left in `last_char`, which the next thread
  finds there: a '>' that `read_node` takes for text before a message and that
  does no harm (`TestReads`). `AloneInv` joins the four; every step of
  the one active thread keeps it (`StepKeepsAlone`), and nobody else is disturbed (`OthersStay`).

`AloneInv` is needed because `RoundTripAlone` speaks of whole messages only: it says nothing of
half a message on the stack, nor of the bracket in `last_char` that belongs to the next one.
That reading *together* fails is shown by `xml_shared`: `Alone` is the
conjunct that two readers break.

Only model-checked: all liveness (`ServerReleases`, `ClientExits`,
`ReadersEnd`, `Answered`, `Returns`) and `ENABLED`, which the prover does not handle;
everything about Formulas, Effects, Expressions, Actions, Simulation,
Mtbdd, Planner, Interning and Instances, whose definitions are `RECURSIVE`
operators over formulas and effects, which the prover cannot reason about. A
recursive function would need a set of formulas as its domain that contains what
instantiation makes of each of them. For messages such a set is easy to give
(`Nodes`): printing looks only at the children of a node.

## 5. Not modelled

* Several threads on the interning tables and counters (states.cc:81): a data
  race on `std::set` has no finite list of outcomes. In one thread, the counts of
  expressions, fluents, updates, comparisons, equalities and probabilistic
  effects; they follow the pattern of those that are modelled.
* The CUDD library, whose diagrams are functions here, and rounding: chances and
  values are exact.
* The automata and tables that Bison and Flex generate (most of parser.cc and
  tokenizer.cc), printing, option parsing, socket set-up: input and output
  without state of their own that a property could relate. What the authors
  wrote in parser.yy stands in parser.cc again, where the map names it.
* Overflow of `int`: numbers are unbounded. `ProductsFit` (part of `Arithmetic`) shows that products,
  quotients and weights never need more room than their result; sums may
  (rational.cc:155).

## 6. Plan

Done, in this order: the session and its log; its proofs; the conversation;
identifiers; the reader; the type table; the language bottom up; instantiation
and simulation; the parser's tables; the matrices and the plan; the server as a
whole and its proof; counted and interned objects.

Since then proved: the log, its refinement of `Contest`, the dialogue, the log
files of the server process, refused declarations, the scopes, numbers, symbols and
domains, the depth of the XML reader, and that it gives back what was printed.

Next:

1. `Interning` with expressions and fluents, and `HeapIsSound` for `Problem`
   definitions that replace each other.
2. `Symbols` with the hierarchy of `TypeTable` in place of flat types.
