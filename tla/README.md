# Fly-lang: models, checks and proofs

Fly is a Python dialect with eight safety keywords (`safe`, `only`, `lock`,
`mask`, `cage`, `guard`, `seal`, `trace`). The repository holds a command line
and language server in Rust (`src/`), a checker and compiler in Go
(`internal/`, served by `cmd/fly-checkd`), two process sandboxes
(`cmd/fly-sandboxd` in Go, `fly-sandboxd/` in Rust) and a Python runtime
library that is injected into generated programs. This directory holds the
TLA+ modules of its concurrent, fault-prone and stateful parts and of its
compiler, what TLC checks about them, and what TLAPS proves.

Run a check with `tlc -config <Run>.cfg <module>`, a proof with
`tlapm <Module>Proofs.tla` (and `tlapm DataLemmas.tla`). `PROJECT.json` lists runs, mapped source lines,
faulty variants, hazards, findings and theorems.

## 1. Inventory

| Component | State it keeps | Operations | Talks to | What is hard | What makes it correct |
|---|---|---|---|---|---|
| Language server (`src/lsp.rs`) | documents and versions, pending map, worker flag, fly-checkd session, output channel, shutdown flag | open, change, save, close, requests, shutdown, exit; debounce worker; writer | editor over stdio; fly-checkd over pipes | three threads, one pipe under a mutex, checks slower than edits, a checker that dies | answers go to the question that was asked; an idle server shows the current text; replies are written before exit; exit returns |
| fly-checkd client and service (`src/checkd.rs`, `cmd/fly-checkd`) | one child process, two bounded pipes, what was read of a frame | spawn, check, serve, length-prefixed frames | language server, `fly check`, compiler | short reads, full pipes, death inside a frame, lengths at the limit | the diagnostics of the source that was sent, or an error with a cause; every call returns |
| `fly check` (`src/main.rs`) | counting semaphore, one thread per file, outcomes | spawn, acquire, check, release, join, report | fly-checkd, one process per file | lost wake-ups, spurious wake-ups, join order | bounded number of processes, every file once, exit status |
| `fly update` (`src/update.rs`, `src/main.rs`) | files of the installation | ask, download, verify, write, chmod, rename; sudo | release server, file system | kills between system calls, concurrent updates, three files and no transaction | one run after another, installed files are whole and signed; reports are true |
| Sandbox, Go (`cmd/fly-sandboxd`) | process group, wait goroutine, deadline | start, confine in stages, wait, kill | kernel | exit racing deadline, failure in any stage | 124 or the script's code; nothing survives; returns |
| Sandbox, Rust (`fly-sandboxd/`) | three processes, one pipe, deadline | fork, report pid, wait, poll, kill | kernel | inherited pipe ends, kill racing report | the same |
| seccomp programs | BPF code | built once, run per system call | kernel | 8-bit relative jumps | each call gets the verdict of the list |
| Runtime: `cage` (`internal/runtime/fly_runtime.py`) | signal handler, timer, RLIMIT_AS of the process | enter, run, leave | CPython signals | an exception between any two bytecodes, cleanup included; nesting | limits hold in the body; nothing left armed |
| Runtime: `only`, `mask`, `seal`, taint | patched builtins, wrappers | enter, leave, call | the interpreter | process-wide builtins and threads | builtins are restored |
| Lexers, Go and Rust | indentation stack, bracket depth, line flags, queue | next token | parser, formatter | layout state against brackets, continuations, ends of file | a balanced token stream that ends |
| Parsers | token position, first error | recursive descent | lexer, checker, generator | branches, inline suites and `;` share one position | nothing of the source is lost; the tree of the grammar |
| Checker (`internal/checker`) | scopes, taint, locks, seals, error list | passes over the tree | compiler | the order of passes, branches without a join, at most 20 errors | rules R1-R5 of `docs/THREAT-MODEL.md` |
| Type inference (`src/typeinfer.rs`) | types of variables, parameters and results | rounds over functions, calls and assignments | generator | a fixed number of rounds, order of functions | the types hold for every value stored |
| Generators (`src/gen.rs`, `internal/gen`) | output buffer, indent, inferred types | emit a statement or expression, inject helpers | parser, type inference | precedences, operands evaluated twice, helpers needed deep inside blocks | the Python text means what the source means and defines what it calls |
| HTTP client (`src/http.rs`) | connection, bytes received, current URL, hops | connect, SOCKS5 and CONNECT handshakes, TLS, get, redirects, framings | `fly update` | a stream that ends anywhere, three framings, proxies that answer anything | the page the servers meant, whole; or an error with a cause |
| JSON (`src/json.rs`) | none that lasts | parse, print | update, language server | | the value that was sent |
| Formatter, analyzer, error texts, editor extension | none that lasts | transform text | | | |

The components interact as follows. `fly lsp` and `fly check` start fly-checkd,
which runs lexer, parser and checker. `fly run` and `fly build` compile with
the same passes and inject the runtime library. `fly sandbox` starts the
fly-sandboxd it finds. `fly update` replaces `fly`, `fly-checkd` and
`fly-sandboxd`.

## 2. Modules and how they correspond to the code

| Module | Role |
|---|---|
| `LspServer` | language server with its session and fly-checkd |
| `LspServerProofs` | its theorems |
| `CheckCommand` | `fly check`: semaphore, threads, main |
| `BoundedPool` | abstract specification that `CheckCommand` implements |
| `Updater` | `fly update` by system calls |
| `UpdaterProofs` | its theorems |
| `CheckdProtocol` | the frames between the commands and fly-checkd, byte by byte |
| `CheckProofs` | theorems about `CheckCommand` and `CheckdProtocol` |
| `HttpClient` | `HttpClient::get` with its proxies, framings and redirects |
| `HttpProofs` | its theorems |
| `DataLemmas` | induction over numbers, recursive functions, parts and concatenations of sequences, digits: what the proofs about data share |
| `SandboxGo`, `SandboxRust` | the two sandboxes |
| `Supervisor` | abstract specification that `SandboxGo` implements |
| `Sandbox` | `fly sandbox` with whichever build is installed; composes the two |
| `SeccompFilter` | both BPF programs and the machine that runs them |
| `SandboxProofs` | theorems about both sandboxes and the programs, and the refinement of `Supervisor` |
| `Cage` | the `cage` decorator |
| `CageProofs` | its theorems |
| `Lexer` | both lexers |
| `TokenStream` | abstract specification that `Lexer` implements |
| `LexerProofs` | its theorems |
| `Parser` | the Rust parser: one operator per production |
| `TypeInfer` | the type inference on the trees of `Parser` |
| `Gen` | the Rust generator: from trees to lines of Python tokens |
| `Meaning` | what a tree says, the same for a Fly source and for Python text read back |
| `Compiler` | `fly build`, composed of the three, on programs that grow from the inside out |
| `MC...` | values of the constants for TLC; `MCCheckCommand`, `MCUpdater` and `MCSandbox` also hold the components that belong to the first one (the frames and the lexer behind a check; the HTTP client; the filters and `cage`), in behaviours of their own (variable `part`) |

Definitions called "Faulty variant of X" are plausible bugs of X. No
specification uses them; they show which property notices which bug.

**LspServer.** One action is one critical section or system call.
`DidOpen`, `DidChange`, `DidSave`, `DidClose`, `Request`, `Shutdown` and
`ExitMsg` start the handlers of main; `Enqueue` and `EnsureWorker` are the two
halves of `did_change`; `CopyText`, `Session`, `Write`, `Read` and `Publish`
are the stages of `check_uri`, which main and worker both execute;
`Drain`, `NextJob` and `Sleep` are the loop of the debounce thread;
`Deliver` is the writer; `Serve` is fly-checkd. `CheckdDies`, `SpawnFails` and
`WriteFails` are the failures. Texts and lists of diagnostics are model
values; the checker is the constant function `CheckSource`. `closed` and
`asked`/`answered` are history variables. Texts and URIs are those the code
can slice: two panics on text that is not ASCII are listed in section 4.

**CheckCommand.** `Acquire` is the mutex-protected body of `acquire()` up to
taking a permit or sleeping; `Release` returns the permit and notifies one
sleeper; `SpuriousWakeup` is what the standard library allows. `Spawn`, `Join`
and `Exit` are main. The check of a file is one step with a free verdict.

**CheckdProtocol.** What that step consists of. Two processes and two bounded
pipes; reading or writing one byte is a step, and `Killed` may come between any
two. Mode `once` is `check_src` (`Written` closes stdin, `Read` runs to the end
of the output, `Reap` looks at the exit status and at the announced length);
mode `session` is `CheckdSession` (`Complete` and `Answer` after the announced
length, stdin stays open). The server is `readFrame`, `handle` and
`writeFrame`; `parse_response` is translated with its offsets, and its
unchecked slice is the outcome `panic`. A byte has `Base` values and a number
`Width` bytes, 256 and 4 in the code. (The comment at `src/checkd.rs:11`
describes the count of diagnostics as one byte; both sides use four.)

**Updater.** Every system call of `install` is an action (`OpenNew`, `WriteNew`,
`Chmod`, `Rename`, with their failures), and `Kill` may come between any two.
An open file is known by where it is, so that a rename takes the file of a
concurrent writer with it. `CheckWritable` models the restart under sudo.
`is_outdated` compares the text of `version::string()` of a release build with
the trimmed tag, as the code does. A downloaded archive is genuine or not, which
`VerifyAsset` tells apart, and has a number of entries that can be read (`got`):
with `--insecure` one that was cut short counts for what is left of it. A file
that is truncated, half written or written by two processes (`Torn`) is no
longer what the key signed, whoever downloaded it.

**HttpClient.** The download itself. `Hop` is the loop of `get`,
`tcp_connect`, `ConnectRead`, `SocksGreet`, `SocksAuth`, `SocksRequest` and
`tls_stream` open the connection, `Receive` reads a response to the end of the
stream, parses it and follows a redirect. The bytes of the SOCKS5 exchange are
numbers, so that bytes left in the stream meet the TLS handshake. A response is
a head and units of data, chunk sizes and line ends, cut after any unit. Peers
may refuse or send anything the code tells apart; `cause` remembers whether
they did. The loop over the chunks is the function `after` of `Unchunk`, one
`UnchunkStep` per turn, so that proofs can follow it. The constant `Site` says
what the servers hold and which URL they mean by a Location; `Trail` is where
the redirects lead if they are read as meant.

**Sandbox.** In `SandboxGo` one process goes through the stages bridge,
parse, Landlock, seccomp, exec, wrapper, script; each may fail with its own
exit code. `Wait4` is the goroutine; `SelectDone` and `SelectDeadline` are the
two cases of the `select`. The script may start processes (`kids`); they stay
in its process group, because neither `setsid` nor `setpgid` is in the list of
allowed system calls, and the kill of the group therefore reaches them. In
`SandboxRust` the child holds the write end of the pipe, the grandchild
inherits it, and the parent reads before it polls.

**SeccompFilter.** The programs are built from the same lists and offsets as
in the two builders, offsets cut to 8 bits, and executed instruction by
instruction. A system call has a first argument (`arg0`: its low word has a
CLONE_NEW* bit) and flags (`newns`); for clone they are the same word, for
clone3 the argument is the address of a structure with the flags. `Expected` is
what the tests of the programs stand for, `FlagsDecide` what the comments of the
Go builder say.

**Cage.** `stack` holds the active calls of the decorated functions, each with
the next statement of the wrapper. `Alarm` raises TimeoutError wherever the
innermost call is.

**Lexer.** The Go and the Rust lexer have the same control, and one module
models both. `c` is the class of the current character; the next one is
chosen when it is reached, so that sources of every length are covered. The
actions are the branches of `Next` and `lineStart`; `pending` is the queue,
which only ever holds DEDENTs because an INDENT is returned at once. A name,
number, string or operator is one step with its possible outcomes. Positions
and literals are left out.

**Parser, TypeInfer, Gen, Compiler.** A token is its text, with `NL`, `INDENT`
and `DEDENT` for the layout. A production of `Parser` takes a state (tokens,
position, first error) and returns a state with the tree it built, a tuple whose
first element names the node; loops are the operators called `...Rest`.
Productions that contain each other (an expression in a call in an expression,
a statement in a suite) do so through the function `rule` that `parse` builds
over all of them; the recursive operators are the loops and `parse_not_test`.
`TypeInfer` has the maps of the Rust structure and `run` with its five rounds.
`Gen` returns an expression as tokens with the parentheses of `prec_of`, and a
statement as lines with their indents; `generate` adds the sections of the
runtime library that the walks of `needs_guard` and `need_stmt` ask for. Line
and column arguments, `lambda:` wrappers, numbers of temporaries and
`--keep-annotations` are left out. `Compiler` has one step for
`fly build` (`Build`, with `Refuse` for everything that ends it early) and one
for its user (`Wrap`, which puts the program so far into a context).

**Meaning.** `ReadBack` parses the generated lines with `Parser`, whose grammar
contains what the generator writes. `MeansBody` maps both trees to one form: a
call of a helper reads as its operation, a chain of comparisons over operands
without effects as a conjunction, and `guard`, `lock`, `cage`, `trace`, `only`
and `seal` as the Python their documentation gives. Parentheses are gone in that form, so a wrong level
of precedence shows as a different tree.

## 3. Runs

| Run | States | What it shows |
|---|---|---|
| `LspServer` | 382,000 | every interleaving of one document's life with up to four messages and one failure: `AnswerIsMine`, `QuiescentFresh`, `RepliesFlushed`, `ChangeShown`, `ExitReturns` |
| `LspStale` | violation | `ClosedBlank` fails: diagnostics of a closed document are published after the empty list |
| `CheckCommand` | 45,900 | five files, two permits: `PermitsConserved`, `NoLostWakeup`, refinement of `BoundedPool`, `CommandTerminates`; frames byte by byte with kills: `AnswerExact`, `ErrorHasCause`, `CallReturns`; the lexer on sources of any length, five columns, three brackets: `LexTypeOK`, `StackSound`, `Balanced`, `BracketsJoinLines`, `EofIsClosed`, refinement of `TokenStream`, `EofReached` |
| `Updater` | 1,401,000 | two processes, two runs, one new release, two faults, archives cut short: `NeverTorn`, `NewestFirst`, `OnlySigned`, `UpdatedMeansAll`; downloads through every proxy and over every framing, cut anywhere: `ResponseExact`, `FailureHasCause` |
| `UpdaterCheck` | violation | `NewVersionIsNew` fails: `fly update --check` of the latest release reports a new version |
| `Sandbox` | 233,800 | both builds: `NothingSurvives`, `TimeoutCleans`, `TimeoutKills`, refinement of `Supervisor`, `SandboxReturns`; both whole seccomp programs on every number up to 450: `VerdictCorrect`; three nested cages, four calls: `SoftWithinLimits`, `NoStrayAlarm`, `TimeBounded` |
| `SandboxExitCode` | violation | `ExitCodeForwarded` fails in the Rust build |
| `SandboxClone3` | violation | `FlagsDecide` fails: of a clone3 the Go program tests an address |
| `CageNestedTime` | violation | `NestedTimeBounded` fails |
| `Compiler` | 80,600 | all small programs of three families: `NothingLost`, `HelpersDefined`, `Faithful`, `TypesSettled` |
| `CompilerSemicolon` | violation | `SemicolonSeparates` fails: of `a = 1; b = 2` only the first statement is translated |
| `CompilerMistranslates` | violation | `NeverMistranslated` fails: `from m import *` becomes `* = _fly_sb_mod.*` |

### Why the bounds are enough

- `LspServer`: one document, because documents share only the session, and
  the theorems below hold for any number of them. Two texts, one with and one
  without errors, tell a fresh list from a stale one. Four messages are an
  open, a change during a check, a close and a reopening; `exit` and the end
  of input are not counted. One failure at any moment.
- `CheckCommand`: with five files and two permits, three threads can sleep,
  two be woken, and one overtake them. The theorems hold for all sizes.
- `Updater`: two processes suffice for the shared temporary name; two runs for
  a run after an interrupted one. Three binaries as in the releases.
- `Sandbox`: all exit codes of the stages, a script that itself exits with
  124, and the signals of the limits; up to four further processes.
- `Cage`: three levels, for an inner cage with a neighbour on either side, and
  one more call than levels, for a call after a cleanup. Two memory limits in
  either order.
- `Sandbox`, seccomp: complete for the system calls in use; numbers above 450
  take the path of any other number that is not in the list.
- `CheckdProtocol`: pipes of three bytes are smaller than every frame, so both
  sides block; the three sources give payloads below, at and above the limit,
  and answers with and without diagnostics; two requests of a session, for a
  response that could be mistaken for the next one.
- `HttpClient`: one page per framing, one redirect per form of Location, nine
  and ten redirects in a row and a cycle, for the limit of ten requests. All
  proxies, and every place where a stream can end.
- `Compiler`: expressions grow through 20 contexts up to three deep, which
  contains every pair of operators one directly inside the other, on either
  side, and a third around them: precedence is a relation of a node and its
  parent. Statements of every kind stand in two blocks, for a block in a block.
  `NothingLost` compares the words of the source with those of the tree, word by
  word and at the depth of their blocks; `Faithful` compares the tree with the
  text. `TypesSettled` asks whether one more round would change a type: it is a
  check of the fixed point by the rules of `expr_type` itself, not of these
  rules against Python (the type of a loop variable over a list, for one, is
  taken from the list).
  The chain of five rounds is exercised by two functions that call each other's
  results in up to four definitions and uses.
- `Lexer`: no bound on the length. Five columns allow all stacks of up to six
  widths and lines that fall between them.

### Fairness

- `LspServer`: weak fairness of each thread and of fly-checkd, which the
  operating system's scheduler gives; none of the client or of failures. A
  mutex that is free whenever its holder has left is enough: no property needs
  strong fairness.
- `CheckCommand`: weak fairness of main and of every thread, none of
  spurious wake-ups; of client and service of `CheckdProtocol` each, because a
  process that can read or write is scheduled; none of calls or kills.
- `Sandbox`: weak fairness of the supervising processes and of the passing of
  time; none of the script.
- `Cage`: weak fairness of the wrapper's statements and of an armed timer;
  none of bodies.
- `Lexer`: the callers (`lex_all`, `ParseModule`) call the lexer until it
  returns EOF.

`Updater`, `HttpClient`, `SeccompFilter` and `Compiler` are checked for safety
only. Deadlock checking is off where the system may stop: `Updater` has a bounded
number of runs after which nothing happens, and `Compiler` is done with a
program once it is built.

## 4. Findings

1. *Diagnostics of a closed document* (`LspStale`, `src/lsp.rs:361`).
   `check_uri` publishes without looking at the document again, so that the
   list of a document closed meanwhile arrives after `did_close`'s empty one.
   The comment at `src/lsp.rs:246` says the comparison of versions removes
   that window.
2. *The latest release is always a new one* (`UpdaterCheck`,
   `src/update.rs:97`). A release build compares "1.2.3 (release)"
   (`src/version.rs:26`, `src/update.rs:49`) with the tag "1.2.3", so
   `fly update --check` always ends with 2, which `README.md:84` reserves for a
   new version, and `fly update` reinstalls what `README.md:85` says takes
   `--force`.
3. *The Rust sandbox reports 0 for failing scripts* (`SandboxExitCode`,
   `fly-sandboxd/src/main.rs:594`). The child closes the pipe before it writes
   the exit code to it, and exits with 0.
4. *The flags of clone3 are not in its first argument* (`SandboxClone3`,
   `cmd/fly-sandboxd/sandbox.go:261`). The comments there, at line 255 and at
   lines 205-207 say that clone3 is decided by its flags, like clone. The word
   that is tested is the address of the structure that holds them, so the
   verdict does not depend on the flags.
5. *An inner cage disarms the outer one* (`CageNestedTime`,
   `internal/runtime/fly_runtime.py:112`). One timer per process; the inner
   cleanup sets it to 0.
6. *Statements after `;` are dropped* (`CompilerSemicolon`,
   `src/parser.rs:227`). `simple_stmt` parses them and returns the first.
   `docs/compat.md:4` promises that nothing is silently mistranslated, and the
   help of E0003 (`src/errorinfo.rs:32`) recommends `;` as a separator.
7. *Shapes that are accepted and translated wrongly* (`CompilerMistranslates`,
   `src/gen.rs:773`), against `docs/compat.md:4` (a wrong result is never
   written silently). The run shows `from m import *`, which `docs/compat.md:41`
   lists as supported; `Misread`, `MisreadStmt` and `RepeatsStar` name all the
   shapes, and `Faithful` and `NothingLost` hold without them:
   `not a < b < c` over simple operands, a comparison or `not` as an operand
   of a comparison, and a conditional as the condition of another or of a
   comprehension (`compat.md:14-18`); a starred target, which becomes a call of
   `_fly_unary`; an attribute or subscript inside a tuple of targets or in a
   chained assignment (`:37-38`); a suite with only `safe`, `mask` or `lock` in
   it, which becomes an empty block; a cage with `max_memory` alone, passed in
   the place of `max_time` (`src/gen.rs:510-516`); `f(*a, *b)`, which keeps the
   last star (`src/parser.rs:1316-1321`); a traced function, which loses its
   return annotation (`src/gen.rs:560-565` against `compat.md:44`) and passes
   its keyword-only parameters by position (`:26`). Outside the programs of the
   run, and found while reading: `for a.b in`, a sealed class without
   statements, `a[]`, calls inside comparisons and `else` bodies that type
   inference does not collect.

Statements of the repository that the code does not meet, found while reading
and without a run of their own:

- The list of the Rust filter has `socket` (41), where the header of
  `fly-sandboxd/src/main.rs:7-8` says that network and socket calls get EPERM.
  `VerdictCorrect` is about the list as it is.
- Two updates at once share `.<name>.new`: one may put in place what the other
  has truncated, although the log says 原子替换 (atomic replacement,
  `src/update.rs:129`) and although both archives were signed. `NeverTorn`,
  `OnlySigned`, `NewestFirst` and `UpdatedMeansAll` are therefore about runs one
  after another.
- With `--insecure` a `tar.gz` that was cut short between two entries is taken
  for a shorter archive (`src/update.rs:408-414`), and the run reports an update
  of fewer than the three binaries of `src/update.rs:115`. `UpdatedMeansAll`
  says so.

Behaviour that a reader of the models should know:

- Panics the models leave out, because their inputs are those on which they do
  not happen: `hover` slices a line at a byte offset that may lie inside a
  character (`src/lsp.rs:457`); `uri_to_path` does so after a percent sign
  (`:472`); `parse_url` panics on a URL that is not https (`src/http.rs:36-39`;
  the URLs asked for are constants of the code or come from the release API).
  Two errors are left out as well: a string of a response that is not UTF-8
  (`src/checkd.rs:206-208`) and a chunk size with an extension, which is not
  read as a number (`src/http.rs:336`).
- After fly-checkd has died, its session is kept, and every later check
  publishes an empty list. `Right` in `LspServer` says so.
- An alarm inside the `finally` clause skips the rest of it: the old handler
  and the old soft limit are not restored. `NoStrayAlarm` and
  `SoftWithinLimits` hold all the same.
- MemoryError in a cage without `max_memory` ends as a TypeError, because the
  message formats `None` with `%d`.
- A carriage return counts as the content of a line. An empty line that ends
  with CR LF inside a block closes the block and the next line opens it again,
  which is why `TokenStream` lets INDENT follow DEDENT. A backslash before a
  newline at the start of a line starts the measurement of the indentation
  afresh.
- `HttpClient::get`: a SOCKS5 proxy that names its end of the connection leaves
  that name in the stream, and TLS fails (`FailureHasCause` names this cause); a chunked
  body cut right after the data of a chunk panics; a body delimited by the end
  of the stream cannot be told from a cut one; a Location of the form `//host`
  is resolved on the same host; an `https` proxy is spoken to in plain text;
  a password is sent to a proxy that asks for one although none was offered.
- When a source ends inside a bracket, NEWLINE is returned before the error is
  recorded, and of several DEDENTs only the first comes out.

## 5. Proofs

All theorems hold for every value of the constants, subject to the assumptions
named in the modules, which TLC evaluates in the runs.

**LspServerProofs** (assumptions `CheckSourceAssumption`,
`NonEmptyAssumption`, `BoundsAssumption`). `TypeCorrect` is by one step per
action. `AnswerCorrect` needs `SessionInv`: the holder of the mutex is the
thread between `session()` and the end of `check()`, and the pipes hold
exactly its request or its response, or fly-checkd is dead. `AnswerIsMine`
alone is not inductive, because it says nothing about the pipes. `FreshAtRest`
(that is, `QuiescentFresh`) needs an invariant about documents that were never
closed: what the client shows, or the last list on its way to it, or a check
that is owed (pending at the document's version, drained into a job, or in a
thread that has yet to copy the text) is right for the current text.

**CheckProofs, threads** (assumption `SizeAssumption`). The inductive invariant
`IInv` adds to `PermitsConserved` and `NoLostWakeup` the phases of threads and
main (`Phases`). `PoolImplemented` maps `running` to the threads inside
`check_one`; that a free permit leaves room in the pool follows from
`PermitsConserved`.

**LexerProofs** (no assumption is used). The inductive invariant `LexInv` is
`LexTypeOK`, `StackSound`, `Balanced`, `BracketsJoinLines` and `Lines`, which ties
the flags to the last token: a line starts outside brackets and without a
token, DEDENTs are queued only between lines, and after EOF nothing is left.
`KeptExists` shows that the popping loop finds its level (a least element of
the natural numbers, `WFMin`, with the sentinel 0 as the witness). From
`LexInv` follow `TypeCorrect`, `StackCorrect`, `BalanceCorrect`,
`BracketsCorrect`, `EofCorrect` and, action by action, `StreamImplemented`.

**LspServerProofs, replies.** `AllRepliesFlushed` (that is, `RepliesFlushed`)
needs `FlushInv`: while the writer runs, the replies it owes are exactly those
in the channel, and the empty message that stops it is sent by a main that is
leaving, after the last of them. The invariant counts the replies in the
channel, so its lemmas say how sending and taking a message change that number.

**CageProofs** (assumption `CageAssumption`: limits are numbers below
unlimited). `LimitsHold` and `AlarmsStayInside` rest on `CageInv`.
`SoftWithinLimits` alone is not inductive: leaving a cage restores the limit it
saved, so `SavedLimits` says that this one, too, respects all cages around it;
`Frames` says that only the innermost call is outside its body, and `Alarms`
that the handler is there before the timer is armed and the timer off before
the handler goes, wherever an alarm cuts a cleanup short.

**SandboxProofs** (assumptions `StatusesAssumption`, `MaxKidsAssumption`).
`SandboxInv` ties, for Go, the stages of main, of the wait goroutine and of the
leader to each other (`GoStages`), the status to what was reaped (`GoResults`)
and the processes to the life of the namespace (`GoNamespace`); for Rust, the
order of births and deaths and the deadline. From it follow `NothingLeft`,
`TimeoutLeavesNothing`, `TimeoutMeansDead`, and, action by action,
`GoRefinesSupervisor`: every step of the Go build is a step of `Supervisor` or
changes nothing the supervisor shows.

**SandboxProofs, seccomp** (hypothesis `Fits`: the lists hold numbers and are short
enough for the 8-bit jump over them; the run evaluates it on the real lists).
`FilterInv` says for each address of the program what is known of the system
call there: which entries of the list it differs from, what the accumulator
holds, and after the list which of the clone tests it has passed. The lemmas
compute the instruction at each address for a list of any length.
`VerdictsRight` is `VerdictCorrect` for all such lists and all numbers: the
jumps are right for the words the programs test. That the word tested for clone3
is not its flags is finding 4.

**UpdaterProofs** (assumptions `ArchiveAssumption`, `UpdaterBounds`).
`UpdaterInv`: a file is open exactly between the halves of a write
(`OpenFiles`); what an installing process has downloaded is signed and complete, or
was asked for with `--insecure` (`Signed`); the entry it installs is one of those
that arrived (`Entries`); nothing comes from a release that
is not out (`Published`); and as long as no two runs overlapped (`Sequential`),
every installed file is whole and signed or asked for (`Sound`), and the process
that runs has replaced the binaries before the current one, never goes back, and
finds in `.<name>.new` what it wrote, whatever an earlier run left there.
Theorems: `InstallsOnlySigned`, `AtomicReplacement`, `OrderKept` and the action
property `UpdatedIsTrue`, all four for runs one after another, because
of the temporary name that overlapping ones share.

**CheckProofs, frames** (assumption `CodingAssumption`: a byte is a number below
`Base`, lines and columns fit into their bytes, and no payload is longer than
its length can say). `CheckdInv` distinguishes four phases:
the request is under way (`Asked`), the response is (`Answered`), nothing is
(`Rest`), or the server is gone (`Gone`); in each, buffers and pipes are
consecutive parts (`Part`) of one request or of one response. `AnswerExact`
alone says nothing about the bytes under way; with the phases, a response of
the announced length is the whole one (`ResponseFrame`), and a server that ends
with status 0 has written all of it. `HandleIs` is about `handle` and its
offsets: it finds the source in every payload. `AnswersExact` and
`ErrorsHaveCause` hold for every capacity of the pipes, every number of
requests and a kill after any byte.

**CheckProofs, coding.** `Be32Push` and `Le32Put`: the numbers of the service
are read as they were written, for every base and width. The value of the first
k digits is the number divided by the power that is left, and `Digit` is one
step of it. `DiagnosticShape` and `DiagnosticsShape` say at which offset each
field of each diagnostic begins, `TakeDiagnostic` that a turn of the loop of
`parse_response` takes exactly one, and the theorem `ParseEncoded` that the loop
ends with the list that was encoded, of any length. `CodingSound` is what the
frames need of it.

**HttpProofs** (assumption `SiteAssumption`: pages have a framing and chunks
that are not empty, and a Location that is followed means the URL that the
server redirects to). `HttpInv` is `HttpTypes`, `OnTrail` (a hop asks for the
URL that the redirects so far lead to, and after ten hops there is still one to
follow), `StreamClean` (bytes of a proxy are left before the TLS handshake only
for a recorded cause) and `Outcomes`. `ResponseExact` and `FailureHasCause` say
nothing of a call that has not returned, so neither is inductive. A response is
read in one step, and the weight is in the lemmas about it: `UnchunkCut` follows
the loop over the chunks of a stream cut after any unit and shows that it ends,
well if nothing is missing, and with all the data if it ends well;
`ParseCut` adds the other two framings; `SiteShape` shows that
`resolve_redirect` computes the URL that is meant, `TrailStays` that the trail
ends where a call does. From `HttpInv` follow `ResponsesExact` and
`FailuresHaveCause`, for pages, paths and chains of redirects of any length.

**DataLemmas** (no assumption). The induction theorems of the library have an
operator as a parameter, which the provers cannot instantiate. Here induction is
about a set of numbers (`SetInduction`, `BoundedInduction`), by way of the least
number outside it (`WFMin`), and a recursive definition is a function that
exists (`RecursionExists`) and that a fixed point of its equation must equal.
`FlattenConcats` does this for `FlattenSeq`.

Only model-checked: all liveness (`ChangeShown`, `ExitReturns`,
`CommandTerminates`, `CallReturns`, `SandboxReturns`, `TimeBounded`,
`EofReached`), which needs fairness and `ENABLED` and is beyond the prover; and
everything about `Parser`, `TypeInfer`, `Gen`, `Meaning` and `Compiler`
(`NothingLost`, `HelpersDefined`, `Faithful`, `TypesSettled`), whose recursive
operators are beyond it too and whose statements need induction over programs.

## 6. Not modelled

JSON, archives and signatures, certificates, Landlock rules, positions and
wording of diagnostics, the contents of f-strings and the paths of output files
are abstracted or left out. Lengths near the width of `usize` and sources of
4 GiB and more, whose length is cut to 32 bits, are not modelled. Process
identifiers are not reused, and the disk loses nothing on a power failure. The
Go parser, generator and type inference are represented by their Rust ports,
which the repository's tests compare byte by byte. The macOS and Windows
sandboxes, `fly run`, the editor extension and the error tables have no state
worth a model. The checker, `only` and the formatter are not modelled yet.

## 7. Plan

Done: the language server, `fly check` and the protocol of fly-checkd,
`fly update` and its HTTP client, the sandboxes, `cage`, the lexers, and the
compiler from tokens to Python; proofs of every safety property of the parts
outside the compiler. Next, in this order:

1. `CheckerPass` (`internal/checker`): scopes, locks, taint, seals and the
   error list over the trees of `Parser`, next to a concrete run of the same
   statements. The passes visit every statement once, assign `safe` afresh
   and only ever add `mask`, so each property names the fragment it is about:
   a masked value stays masked on every path of loop-free code, a safe value is
   tracked exactly in straight-line code, a locked name is not reassigned, and
   the limit of 20 errors never turns a rejected program into an accepted one.
2. `OnlyPatch` (runtime): the swap of builtins with nesting, exceptions and
   threads; abstract specification: builtins seen outside are the originals.
3. `CheckdProtocol` shown to implement the atomic request and response that
   `LspServer` uses; `Formatter` on top of `Lexer`.
