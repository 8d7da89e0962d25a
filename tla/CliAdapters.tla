------------------------------ MODULE CliAdapters ------------------------------
(***************************************************************************)
(* What the nine command line adapters take from an invocation, and what   *)
(* of it the framework scans.  An invocation is abstracted to the kind of  *)
(* its subcommand and to the parts that can carry text for the model: an   *)
(* inline prompt, a file it names, piped standard input.                   *)
(***************************************************************************)
EXTENDS Naturals, Sequences

Tools == {"claude-code", "codex-cli", "ollama", "gemini-cli", "sgpt",
          "gh-copilot", "llama-cpp", "aider", "mlx-lm"}

(* What an adapter tells apart: a form that carries a prompt, a maintenance *)
(* subcommand (login, pull, pr), an interactive one (chat, --repl, -i).     *)
Verbs(t) ==
  CASE t = "codex-cli" -> {"run", "maintenance"}
    [] t \in {"ollama", "gh-copilot"} -> {"run", "maintenance", "session"}
    [] t \in {"gemini-cli", "sgpt"} -> {"run", "session"}
    [] OTHER -> {"run"}

FirstPositional == {"claude-code", "sgpt", "gh-copilot"}   \* the others join all arguments
ReadsFiles == {"claude-code", "llama-cpp", "aider"}   \* --read, --file, --message-file

Invocations ==
  {v \in [tool : Tools, verb : {"run", "maintenance", "session"},
          inline : {"none", "text", "dash"},     \* the prompt argument; dash: "-"
          file : {"none", "ok", "unreadable"},   \* a file the arguments name
          stdin : {"tty", "empty", "data"},      \* a terminal, or a pipe and what it holds
          stray : BOOLEAN,                       \* before the prompt, the value of a flag that
                                                 \* the adapter does not know to have one
          long : BOOLEAN] :                      \* the first part exceeds MAX_PROMPT_LENGTH
     /\ v.verb \in Verbs(v.tool)
     /\ v.file # "none" => v.tool \in ReadsFiles
     /\ v.stray => v.tool \notin {"llama-cpp", "aider", "mlx-lm"}   \* named flags only
     /\ v.long => v.inline = "text" \/ v.file = "ok" \/ v.stdin = "data"}

Has(cond, part) == IF cond THEN <<part>> ELSE <<>>

(* Results of extractContext: parts in the order composeScanText joins     *)
(* them; captured: the adapter consumed standard input.                    *)
NotFound == [found |-> FALSE, error |-> FALSE, parts |-> <<>>, captured |-> FALSE]
Unreadable == [NotFound EXCEPT !.error = TRUE]
createExtractionContext(parts, captured) ==
  [found |-> TRUE, error |-> FALSE, parts |-> parts, captured |-> captured]

(* readFileContent gives null for what cannot be read; readFiles drops it. *)
readFiles(v) == Has(v.file = "ok", "file")

(* readStdin, when standard input is a pipe. *)
readStdin(v) == Has(v.stdin = "data", "stdin")
isStdinPiped(v) == v.stdin # "tty"

(* The arguments that are no flags: the first, or all of them joined.      *)
(* claude/src/index.ts has no list of flags with a value; the others skip  *)
(* the values of those on theirs.                                          *)
Positional(v) ==
  IF v.stray /\ v.tool \in FirstPositional THEN <<"stray">>
  ELSE Has(v.stray \/ v.inline = "text", "prompt")

(* Prompt and captured standard input, the common tail of four adapters. *)
PromptAndStdin(v) ==
  LET parts == Positional(v) \o readStdin(v)
  IN IF parts = <<>> THEN NotFound ELSE createExtractionContext(parts, isStdinPiped(v))

(* No context on a terminal without prompt and file; unreadable files are  *)
(* dropped, and piped input is left to the tool.                           *)
ExtractClaude(v) ==
  IF Positional(v) = <<>> /\ ~isStdinPiped(v) /\ v.file = "none"
  THEN NotFound
  ELSE createExtractionContext(Positional(v) \o readFiles(v), FALSE)

ExtractCodex(v) == IF v.verb = "maintenance" THEN NotFound ELSE PromptAndStdin(v)

ExtractOllama(v) == IF v.verb # "run" THEN NotFound ELSE PromptAndStdin(v)

ExtractGemini(v) == IF v.verb = "session" THEN NotFound ELSE PromptAndStdin(v)

ExtractSgpt(v) == IF v.verb = "session" THEN NotFound ELSE PromptAndStdin(v)

ExtractGhCopilot(v) ==
  IF v.verb # "run" \/ Positional(v) = <<>> THEN NotFound
  ELSE createExtractionContext(Positional(v), FALSE)

(* Faulty variant: a file that cannot be read is left out of the scan. *)
PromptOrFileLenient(v) ==
  LET parts == Has(v.inline # "none", "prompt") \o readFiles(v)
  IN IF parts = <<>> THEN NotFound ELSE createExtractionContext(parts, FALSE)

(* An inline prompt or a prompt file; a file that cannot be read is an error. *)
ExtractLlama(v) ==
  CASE v.inline = "none" /\ v.file = "none" -> NotFound
    [] v.file = "unreadable" -> Unreadable
    [] OTHER -> createExtractionContext(Has(v.inline # "none", "prompt") \o readFiles(v), FALSE)

ExtractAider(v) ==
  CASE v.inline = "none" /\ v.file = "none" -> NotFound
    [] v.file = "unreadable" -> Unreadable
    [] OTHER -> createExtractionContext(Has(v.inline # "none", "prompt") \o readFiles(v), FALSE)

ExtractMlx(v) ==
  CASE v.inline = "text" -> createExtractionContext(<<"prompt">>, FALSE)
    [] v.inline = "dash" /\ v.stdin = "data" -> createExtractionContext(<<"stdin">>, TRUE)
    [] OTHER -> NotFound

Extract(v) ==
  CASE v.tool = "claude-code" -> ExtractClaude(v)
    [] v.tool = "codex-cli"   -> ExtractCodex(v)
    [] v.tool = "ollama"      -> ExtractOllama(v)
    [] v.tool = "gemini-cli"  -> ExtractGemini(v)
    [] v.tool = "sgpt"        -> ExtractSgpt(v)
    [] v.tool = "gh-copilot"  -> ExtractGhCopilot(v)
    [] v.tool = "llama-cpp"   -> ExtractLlama(v)
    [] v.tool = "aider"       -> ExtractAider(v)
    [] v.tool = "mlx-lm"      -> ExtractMlx(v)

(* composeScanText joins the parts; truncatePrompt keeps a prefix, so that *)
(* beyond the limit only the first part is (partly) in the request.        *)
ScannedParts(v, ctx) ==
  IF v.long /\ ctx.parts # <<>> THEN {Head(ctx.parts)}
  ELSE {ctx.parts[i] : i \in 1..Len(ctx.parts)}

(* What the adapters hand on unscanned: a prompt behind a stray value where *)
(* only the first argument is taken; standard input of those that leave it *)
(* to the tool; a file that claude cannot read.                            *)
Uncovered(v) ==
  {p \in {"prompt", "file", "stdin"} :
     \/ p = "prompt" /\ v.stray /\ v.tool \in FirstPositional
     \/ p = "stdin" /\ (v.tool \in {"claude-code", "gh-copilot", "llama-cpp", "aider"}
                         \/ (v.tool = "mlx-lm" /\ v.inline # "dash"))
     \/ p = "file" /\ v.tool = "claude-code" /\ v.file = "unreadable"}

(* createToolDefinition: the adapters with an interactive profile. *)
InteractiveTools == {"codex-cli", "gemini-cli"}
================================================================================
