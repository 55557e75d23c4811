------------------------------ MODULE Compiler ------------------------------
(***************************************************************************)
(* main of src/cminusfc/cminusfc.cpp, with the parts of the compiler it    *)
(* drives: the parser, the AST, and the names of the IR.  What the builder *)
(* makes of the AST and what the passes do to it is in other modules; here *)
(* the builder places some values in a function, and a pass creates or     *)
(* erases some.                                                            *)
(*                                                                         *)
(* A string that main takes apart is a sequence of words: a name and an    *)
(* extension, or the one word of an option.                                *)
(***************************************************************************)
EXTENDS AST, Naming, Spelling
LOCAL INSTANCE SequencesExt
LOCAL INSTANCE Functions

CONSTANTS
  Uses,         \* how cminusfc may be used: records [argv, text, files, writable]
  Programs,     \* ASTs whose spellings are among the texts
  MaxChanges    \* bound: how often passes create or erase values

VARIABLES
  argv,         \* the arguments behind the name of the program
  argi,         \* the loop's i
  target_path, input_path, emit,
  asked,        \* the flags of passes
  pc,
  jobs,         \* what main, PM.run and m->print have still to do
  done,         \* the passes that have run
  changes,
  ast,          \* the AST of the text
  files,        \* what the files hold
  writable,     \* whether the file of the IR can be opened
  exit          \* what main returns; "none" before

optionVars == <<target_path, input_path, emit, asked>>
driverVars == <<argv, argi, optionVars, pc, jobs, done, changes, ast, files, writable, exit>>
vars == <<driverVars, parserVars, namingVars>>

Empty == <<>>
NoAst == <<>>
Stop(code) == pc' = "end" /\ exit' = code
Goes(where) == pc' = where /\ UNCHANGED exit

Init ==
  /\ \E u \in Uses : argv = u.argv /\ files = u.files /\ writable = u.writable /\ text = u.text
  /\ argi = 1
  /\ target_path = Empty /\ input_path = Empty /\ emit = FALSE /\ asked = {}
  /\ pc = "arguments" /\ jobs = <<>> /\ done = <<>> /\ changes = 0
  /\ ast = NoAst /\ exit = "none"
  /\ ParserInit /\ NamingInit

-----------------------------------------------------------------------------
\* In the order in which main adds them.
PassFlags == <<"-mem2reg", "-loop-search", "-const-propagation", "-active-vars", "-loop-inv-hoist">>
IsPassFlag(w) == Len(w) = 1 /\ w[1] \in ToSet(PassFlags)

\* One turn of the loop over argv.
Help == argv[argi] \in {<<"-h">>, <<"--help">>}
Target == argv[argi] = <<"-o">>
Option ==
  /\ pc = "arguments" /\ argi <= Len(argv) /\ ~Help
  /\ \/ /\ Target /\ target_path = Empty /\ argi < Len(argv)
        /\ target_path' = argv[argi + 1]
        /\ argi' = argi + 2
        /\ UNCHANGED <<input_path, emit, asked>>
     \/ /\ ~Target
        /\ argi' = argi + 1
        /\ UNCHANGED target_path
        /\ \/ argv[argi] = <<"-emit-llvm">> /\ emit' = TRUE /\ UNCHANGED <<input_path, asked>>
           \/ IsPassFlag(argv[argi]) /\ asked' = asked \cup {argv[argi][1]} /\ UNCHANGED <<input_path, emit>>
           \/ /\ argv[argi] # <<"-emit-llvm">> /\ ~IsPassFlag(argv[argi]) /\ input_path = Empty
              /\ input_path' = argv[argi] /\ UNCHANGED <<emit, asked>>
  /\ UNCHANGED <<argv, pc, jobs, done, changes, ast, files, writable, exit, parserVars, namingVars>>

\* Help is shown for a wrong argument too.
ShowHelp ==
  /\ pc = "arguments"
  /\ IF argi <= Len(argv)
     THEN \/ Help
          \/ Target /\ (target_path # Empty \/ argi = Len(argv))
          \/ /\ ~Target /\ argv[argi] # <<"-emit-llvm">> /\ ~IsPassFlag(argv[argi])
             /\ input_path # Empty
     ELSE input_path = Empty
  /\ Stop("0")
  /\ UNCHANGED <<argv, argi, optionVars, jobs, done, changes, ast, files, writable, parserVars, namingVars>>

\* input_path.substr(pos), from the last dot
rfind(path) == {k \in 1..Len(path) : path[k] \in {".cminus", ".ll", ".c"}}
substr(path) == LET k == CHOOSE k \in rfind(path) : \A j \in rfind(path) : j <= k
                IN  SubSeq(path, k, Len(path))
Stripped_Whole(path) == path
Stripped(path) == SubSeq(path, 1, Len(path) - 1)

Paths ==
  /\ pc = "arguments" /\ argi > Len(argv) /\ input_path # Empty
  /\ IF target_path # Empty THEN Goes("open") /\ UNCHANGED target_path
     ELSE IF rfind(input_path) = {} \/ substr(input_path) # <<".cminus">>
     THEN Stop("-1") /\ UNCHANGED target_path
     ELSE target_path' = Stripped(input_path) /\ Goes("open")
  /\ UNCHANGED <<argv, argi, input_path, emit, asked, jobs, done, changes, ast, files, writable, parserVars, namingVars>>

-----------------------------------------------------------------------------
\* parse
Open ==
  /\ pc = "open"
  /\ IF input_path \in DOMAIN files THEN Goes("parse") ELSE Stop("1")
  /\ UNCHANGED <<argv, argi, optionVars, jobs, done, changes, ast, files, writable, parserVars, namingVars>>
Parse ==
  /\ pc = "parse" /\ ParserNext
  /\ UNCHANGED <<driverVars, namingVars>>

\* AST(s), whatever yyparse returned.  A root that was never set is read from
\* fresh memory, which ends the program, as an exception does.
BuildAST ==
  /\ pc = "parse" /\ yyparse # "running"
  /\ IF root = Unset \/ Throws(root)
     THEN Stop("killed") /\ UNCHANGED ast
     ELSE ast' = transform_node_iter(root) /\ Goes("build")
  /\ UNCHANGED <<argv, argi, optionVars, jobs, done, changes, files, writable, parserVars, namingVars>>

\* What PM.run does for a flag: -active-vars names the values first, and the
\* module is printed after the passes added with print_ir.
Jobs(flag) ==
  CASE flag = "-active-vars" -> <<"name", flag>>
    [] flag \in {"-const-propagation", "-loop-inv-hoist"} -> <<flag, "name">>
    [] OTHER -> <<flag>>
PassJobs == FlattenSeq([k \in 1..Len(PassFlags) |->
                          IF PassFlags[k] \in asked THEN Jobs(PassFlags[k]) ELSE <<>>])

Unused == {v \in Value : ~Among(values, v)}
\* The builder places the values one after the other.
Build ==
  /\ pc = "build"
  /\ \/ /\ changes = 0 /\ \E v \in Unused : Len(values) < 2 /\ Create(v, Len(values))
        /\ UNCHANGED driverVars
     \/ /\ jobs' = <<"name">> \o PassJobs \o <<"name">>
        /\ Goes("jobs")
        /\ UNCHANGED <<argv, argi, optionVars, done, changes, ast, files, writable, namingVars>>
  /\ UNCHANGED parserVars

Name ==
  /\ pc = "jobs" /\ jobs # <<>> /\ Head(jobs) = "name"
  /\ \/ (BeginNaming \/ NameNext) /\ UNCHANGED jobs
     \/ EndNaming /\ jobs' = Tail(jobs)
  /\ UNCHANGED <<argv, argi, optionVars, pc, done, changes, ast, files, writable, exit, parserVars>>

Pass ==
  /\ pc = "jobs" /\ jobs # <<>> /\ Head(jobs) # "name"
  /\ \/ /\ changes < MaxChanges /\ changes' = changes + 1
        /\ Head(jobs) \notin {"-loop-search", "-active-vars"}
        /\ \/ \E v \in Unused, k \in 0..Len(values) : Create(v, k)
           \/ \E k \in 1..Len(values) : Erase(k)
        /\ UNCHANGED <<jobs, done>>
     \/ /\ done' = Append(done, Head(jobs)) /\ jobs' = Tail(jobs)
        /\ UNCHANGED <<changes, namingVars>>
  /\ UNCHANGED <<argv, argi, optionVars, pc, ast, files, writable, exit, parserVars>>

-----------------------------------------------------------------------------
\* output_stream: that the file cannot be opened is not noticed.
Compiled == [ast |-> ast, passes |-> done]
LL == target_path \o <<".ll">>
Without_(file) == Restrict(files, DOMAIN files \ {file})
Write ==
  /\ pc = "jobs" /\ jobs = <<>>
  /\ files' = IF writable THEN (LL :> <<"ll", Compiled>>) @@ files ELSE files
  /\ IF emit THEN Stop("0") ELSE Goes("clang")
  /\ UNCHANGED <<argv, argi, optionVars, jobs, done, changes, ast, writable, parserVars, namingVars>>

\* clang and rm may fail; clang needs the file.
Clang ==
  /\ pc = "clang"
  /\ \/ /\ LL \in DOMAIN files /\ files[LL][1] = "ll"
        /\ files' = (target_path :> <<"executable", files[LL][2]>>) @@ files
        /\ Goes("rm")
     \/ Goes("rm after failure") /\ UNCHANGED files
  /\ UNCHANGED <<argv, argi, optionVars, jobs, done, changes, ast, writable, parserVars, namingVars>>
Rm_ClangIgnored ==
  /\ pc \in {"rm", "rm after failure"}
  /\ \/ /\ LL \in DOMAIN files /\ files' = Without_(LL)
        /\ Stop("0")
     \/ Stop("1") /\ UNCHANGED files
  /\ UNCHANGED <<argv, argi, optionVars, jobs, done, changes, ast, writable, parserVars, namingVars>>
Rm ==
  /\ pc \in {"rm", "rm after failure"}
  /\ \/ /\ LL \in DOMAIN files /\ files' = Without_(LL)
        /\ Stop(IF pc = "rm" THEN "0" ELSE "1")
     \/ Stop("1") /\ UNCHANGED files
  /\ UNCHANGED <<argv, argi, optionVars, jobs, done, changes, ast, writable, parserVars, namingVars>>

Next ==
  \/ Option \/ ShowHelp \/ Paths \/ Open \/ Parse \/ BuildAST \/ Build \/ Name \/ Pass
  \/ Write \/ Clang \/ Rm
Spec == Init /\ [][Next]_vars

-----------------------------------------------------------------------------
\* The programs by their spellings.
Meaning == [t \in {Spell(p, full) : p \in Programs, full \in BOOLEAN} |->
              CHOOSE p \in Programs : t \in {Spell(p, full) : full \in BOOLEAN}]

\* A text that spells a program is parsed without an error, and the AST is that
\* program: declarations, statements, parameters and arguments in their order,
\* operators with their precedence and to the left, an else with the last if.
ProgramIsText ==
  text \in DOMAIN Meaning =>
    /\ yyparse # "failed" /\ exit # "killed"
    /\ ast # NoAst => ast = Meaning[text]

RECURSIVE Leaves(_)
Leaves(n) ==
  IF n.children = <<>> THEN IF n.name = "epsilon" THEN <<>> ELSE <<n.name>>
  ELSE FlattenSeq([k \in 1..Len(n.children) |-> Leaves(n.children[k])])

\* The tree is of the whole text if yyparse accepts it, and, if it does not, of
\* the declarations before the error: that nobody looks at what yyparse returns
\* compiles these.  Only where there is no such tree, or a number too big for
\* an int, the AST is not built.
TreeIsTextBeforeError ==
  /\ root # Unset => Leaves(root) = [k \in 1..pos |-> text[k][2]]
  /\ yyparse = "accepted" => root # Unset /\ pos = Len(text)
  /\ exit = "killed" => (yyparse = "failed" /\ root = Unset) \/ Throws(root)

\* When 0 is returned and no help was shown, the file that was asked for holds
\* the program that was read, with the passes that were asked for in the order
\* of main, each once, and an executable does not leave its .ll behind, if the
\* file of the IR could be opened.
ZeroMeansCompiled ==
  exit = "0" /\ ast # NoAst /\ writable =>
    LET made == [ast |-> transform_node_iter(root),
                 passes |-> SelectSeq(PassFlags, LAMBDA f : f \in asked)]
        holds(file, what) == file \in DOMAIN files /\ files[file] = <<what, made>>
    IN  IF emit THEN holds(LL, "ll")
        ELSE holds(target_path, "executable") /\ LL \notin DOMAIN files

\* Without -o the source is never overwritten or removed.
SourceKept ==
  <<"-o">> \notin ToSet(argv) /\ input_path \in DOMAIN files => files[input_path] = <<"source">>
=============================================================================
